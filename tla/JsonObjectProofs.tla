-------------------------- MODULE JsonObjectProofs --------------------------
(***************************************************************************)
(* Facts about the operations of the document, for every document and      *)
(* every path: what Write leaves is a document, a write changes no value   *)
(* that a path read unless WhetherContain relates the two paths, and what  *)
(* was written is what its path reads next, however its numbers are        *)
(* spelled.                                                                *)
(***************************************************************************)
EXTENDS JsonObject, Integers, SequencesExt, SequenceTheorems, TLAPS

-----------------------------------------------------------------------------
(***************************************************************************)
(* Prefixes and concatenation of sequences: a place of a document is a     *)
(* sequence of segments.                                                   *)
(***************************************************************************)
\* Prefixes compared element by element.
LEMMA PrefixElements ==
  ASSUME NEW S, NEW s \in Seq(S), NEW t \in Seq(S)
  PROVE  IsPrefix(s, t) <=> Len(s) <= Len(t) /\ \A i \in 1 .. Len(s) : s[i] = t[i]
PROOF
  <1>1. SubSeq(s, 1, Len(s)) = s
    BY SubSeqFull
  <1>2. ASSUME Len(s) <= Len(t)
        PROVE  /\ SubSeq(t, 1, Len(s)) \in Seq(S)
               /\ Len(SubSeq(t, 1, Len(s))) = Len(s)
               /\ \A i \in 1 .. Len(s) : SubSeq(t, 1, Len(s))[i] = t[i]
    <2>1. \A i \in 1 .. Len(s) : t[i] \in S
      BY <1>2, ElementOfSeq, LenProperties
    <2> QED
      BY <2>1, <1>2, SubSeqProperties, LenProperties
  <1>3. ASSUME Len(s) <= Len(t), \A i \in 1 .. Len(s) : s[i] = t[i]
        PROVE  s = SubSeq(t, 1, Len(s))
    <2> DEFINE u == SubSeq(t, 1, Len(s))
    <2>1. u \in Seq(S) /\ Len(s) = Len(u) /\ \A i \in 1 .. Len(s) : s[i] = u[i]
      BY <1>2, <1>3
    <2> HIDE DEF u
    <2>2. s = u
      BY <2>1, SeqEqual, Zenon
    <2> QED
      BY <2>2 DEF u
  <1>4. IsPrefix(s, t) <=> Len(s) <= Len(t) /\ SubSeq(s, 1, Len(s)) = SubSeq(t, 1, Len(s))
    BY DEF IsPrefix
  <1> QED
    BY <1>1, <1>2, <1>3, <1>4, LenProperties

LEMMA PrefixTransitive ==
  ASSUME NEW S, NEW s \in Seq(S), NEW t \in Seq(S), NEW u \in Seq(S),
         IsPrefix(s, t), IsPrefix(t, u)
  PROVE  IsPrefix(s, u)
PROOF
  <1>1. Len(s) <= Len(t) /\ \A i \in 1 .. Len(s) : s[i] = t[i]
    BY PrefixElements
  <1>2. Len(t) <= Len(u) /\ \A i \in 1 .. Len(t) : t[i] = u[i]
    BY PrefixElements
  <1>3. Len(s) <= Len(u) /\ \A i \in 1 .. Len(s) : s[i] = u[i]
    BY <1>1, <1>2, LenProperties
  <1> QED
    BY <1>3, PrefixElements

\* The first k elements of a sequence are a prefix of it.
LEMMA Initial ==
  ASSUME NEW S, NEW s \in Seq(S), NEW k \in 0 .. Len(s)
  PROVE  /\ SubSeq(s, 1, k) \in Seq(S)
         /\ Len(SubSeq(s, 1, k)) = k
         /\ \A i \in 1 .. k : SubSeq(s, 1, k)[i] = s[i]
         /\ IsPrefix(SubSeq(s, 1, k), s)
PROOF
  <1>1. \A i \in 1 .. k : s[i] \in S
    BY ElementOfSeq, LenProperties
  <1>2. /\ SubSeq(s, 1, k) \in Seq(S)
        /\ Len(SubSeq(s, 1, k)) = k
        /\ \A i \in 1 .. k : SubSeq(s, 1, k)[i] = s[i]
    BY <1>1, SubSeqProperties, LenProperties
  <1> DEFINE t == SubSeq(s, 1, k)
  <1>3. IsPrefix(t, s)
    <2>1. t \in Seq(S) /\ Len(t) <= Len(s) /\ \A i \in 1 .. Len(t) : t[i] = s[i]
      BY <1>2, LenProperties
    <2> HIDE DEF t
    <2> QED
      BY <2>1, PrefixElements
  <1> QED
    BY <1>2, <1>3

\* Putting a prefix in front and taking it away again.
LEMMA ConcatPrefix ==
  ASSUME NEW S, NEW p \in Seq(S), NEW z \in Seq(S)
  PROVE  IsPrefix(p, p \o z) /\ SubSeq(p \o z, Len(p) + 1, Len(p \o z)) = z
PROOF
  <1> DEFINE x == p \o z
             y == SubSeq(x, Len(p) + 1, Len(x))
  <1>1. /\ x \in Seq(S)
        /\ Len(x) = Len(p) + Len(z)
        /\ \A i \in 1 .. Len(p) + Len(z) : x[i] = IF i <= Len(p) THEN p[i] ELSE z[i - Len(p)]
    BY ConcatProperties
  <1> HIDE DEF x
  <1>2. IsPrefix(p, x)
    BY <1>1, PrefixElements, LenProperties, SMTT(30)
  <1>3. \A i \in Len(p) + 1 .. Len(x) : x[i] \in S
    BY <1>1, ElementOfSeq, LenProperties
  <1>4. /\ y \in Seq(S)
        /\ Len(y) = Len(z)
        /\ \A i \in 1 .. Len(z) : y[i] = x[Len(p) + i]
    BY <1>1, <1>3, SubSeqProperties, LenProperties
  <1> HIDE DEF y
  <1>5. ASSUME NEW i \in 1 .. Len(y) PROVE y[i] = z[i]
    <2>1. Len(p) \in Nat /\ Len(z) \in Nat
      BY LenProperties
    <2>2. /\ Len(p) + i \in 1 .. Len(p) + Len(z)
          /\ ~(Len(p) + i <= Len(p))
          /\ (Len(p) + i) - Len(p) = i
      BY <1>4, <2>1
    <2>3. x[Len(p) + i] = z[i]
      BY <1>1, <2>2
    <2> QED
      BY <1>4, <2>3
  <1>6. y = z
    BY <1>4, <1>5, SeqEqual
  <1> QED
    BY <1>2, <1>6 DEF x, y

LEMMA PrefixSplit ==
  ASSUME NEW S, NEW p \in Seq(S), NEW x \in Seq(S), IsPrefix(p, x)
  PROVE  SubSeq(x, Len(p) + 1, Len(x)) \in Seq(S) /\ x = p \o SubSeq(x, Len(p) + 1, Len(x))
PROOF
  <1> DEFINE z == SubSeq(x, Len(p) + 1, Len(x))
             y == p \o z
  <1>1. Len(p) <= Len(x) /\ \A i \in 1 .. Len(p) : p[i] = x[i]
    BY PrefixElements
  <1>2. \A i \in Len(p) + 1 .. Len(x) : x[i] \in S
    BY ElementOfSeq, LenProperties
  <1>3. /\ z \in Seq(S)
        /\ Len(z) = Len(x) - Len(p)
        /\ \A i \in 1 .. Len(z) : z[i] = x[Len(p) + i]
    BY <1>1, <1>2, SubSeqProperties, LenProperties
  <1> HIDE DEF z
  <1>4. /\ y \in Seq(S)
        /\ Len(y) = Len(p) + Len(z)
        /\ \A i \in 1 .. Len(y) : y[i] = IF i <= Len(p) THEN p[i] ELSE z[i - Len(p)]
    BY <1>3, ConcatProperties
  <1> HIDE DEF y
  <1>5. Len(x) = Len(y) /\ \A i \in 1 .. Len(x) : x[i] = y[i]
    BY <1>1, <1>3, <1>4, LenProperties, SMTT(30)
  <1>6. x = y
    BY <1>4, <1>5, SeqEqual
  <1> QED
    BY <1>3, <1>6 DEF z, y

\* The first k elements of p \o z.
LEMMA InitialOfConcat ==
  ASSUME NEW S, NEW p \in Seq(S), NEW z \in Seq(S), NEW k \in 0 .. Len(p) + Len(z)
  PROVE  /\ k <= Len(p) => SubSeq(p \o z, 1, k) = SubSeq(p, 1, k)
         /\ k >= Len(p) => SubSeq(p \o z, 1, k) = p \o SubSeq(z, 1, k - Len(p))
PROOF
  <1> DEFINE x == p \o z
             u == SubSeq(x, 1, k)
  <1>1. /\ x \in Seq(S)
        /\ Len(x) = Len(p) + Len(z)
        /\ \A i \in 1 .. Len(p) + Len(z) : x[i] = IF i <= Len(p) THEN p[i] ELSE z[i - Len(p)]
    BY ConcatProperties
  <1> HIDE DEF x
  <1>2. u \in Seq(S) /\ Len(u) = k /\ \A i \in 1 .. k : u[i] = x[i]
    BY <1>1, Initial
  <1> HIDE DEF u
  <1>3. ASSUME k <= Len(p) PROVE u = SubSeq(p, 1, k)
    <2> DEFINE v == SubSeq(p, 1, k)
    <2>1. v \in Seq(S) /\ Len(v) = k /\ \A i \in 1 .. k : v[i] = p[i]
      BY <1>3, Initial, LenProperties
    <2> HIDE DEF v
    <2>2. \A i \in 1 .. Len(u) : u[i] = v[i]
      BY <1>1, <1>2, <1>3, <2>1, LenProperties
    <2>3. u = v
      BY <1>2, <2>1, <2>2, SeqEqual
    <2> QED BY <2>3 DEF v
  <1>4. ASSUME k >= Len(p) PROVE u = p \o SubSeq(z, 1, k - Len(p))
    <2> DEFINE v == SubSeq(z, 1, k - Len(p))
               y == p \o v
    <2>1. v \in Seq(S) /\ Len(v) = k - Len(p) /\ \A i \in 1 .. k - Len(p) : v[i] = z[i]
      BY <1>4, Initial, LenProperties
    <2> HIDE DEF v
    <2>2. /\ y \in Seq(S)
          /\ Len(y) = Len(p) + Len(v)
          /\ \A i \in 1 .. Len(p) + Len(v) : y[i] = IF i <= Len(p) THEN p[i] ELSE v[i - Len(p)]
      BY <2>1, ConcatProperties
    <2> HIDE DEF y
    <2>3. Len(u) = Len(y)
      BY <1>2, <1>4, <2>1, <2>2, LenProperties
    <2>5. ASSUME NEW i \in 1 .. Len(u) PROVE u[i] = y[i]
      <3>1. Len(p) \in Nat /\ Len(z) \in Nat /\ k \in Nat
        BY LenProperties
      <3>2. u[i] = IF i <= Len(p) THEN p[i] ELSE z[i - Len(p)]
        BY <1>1, <1>2, <3>1
      <3>3. y[i] = IF i <= Len(p) THEN p[i] ELSE v[i - Len(p)]
        BY <1>2, <1>4, <2>1, <2>2, <3>1
      <3>4. ~(i <= Len(p)) => i - Len(p) \in 1 .. k - Len(p)
        BY <1>2, <3>1
      <3> QED
        BY <2>1, <3>2, <3>3, <3>4
    <2>4. u = y
      BY <1>2, <2>2, <2>3, <2>5, SeqEqual
    <2> QED BY <2>4 DEF v, y
  <1> QED
    BY <1>3, <1>4 DEF u, x

\* Two prefixes of one sequence are comparable.
LEMMA PrefixesComparable ==
  ASSUME NEW S, NEW p \in Seq(S), NEW q \in Seq(S), NEW x \in Seq(S),
         IsPrefix(p, x), IsPrefix(q, x)
  PROVE  IsPrefix(p, q) \/ IsPrefix(q, p)
PROOF
  <1>1. /\ Len(p) <= Len(x) /\ \A i \in 1 .. Len(p) : p[i] = x[i]
        /\ Len(q) <= Len(x) /\ \A i \in 1 .. Len(q) : q[i] = x[i]
    BY PrefixElements
  <1>2. Len(p) \in Nat /\ Len(q) \in Nat
    BY LenProperties
  <1>3. CASE Len(p) <= Len(q)
    <2>1. \A i \in 1 .. Len(p) : p[i] = q[i]
      BY <1>1, <1>2, <1>3
    <2> QED
      BY <1>3, <2>1, PrefixElements
  <1>4. CASE Len(q) <= Len(p)
    <2>1. \A i \in 1 .. Len(q) : q[i] = p[i]
      BY <1>1, <1>2, <1>4
    <2> QED
      BY <1>4, <2>1, PrefixElements
  <1> QED
    BY <1>2, <1>3, <1>4

-----------------------------------------------------------------------------
(***************************************************************************)
(* The operations of the document.                                         *)
(***************************************************************************)
\* Replacing the value at a place by a document leaves a document.
LEMMA GraftWellFormed ==
  ASSUME NEW doc, IsDocument(doc), NEW data, IsDocument(data),
         NEW p \in DOMAIN doc, p # <<>>
  PROVE  IsDocument(Graft(doc, p, data))
PROOF
  <1> DEFINE kept == {x \in DOMAIN doc : ~IsPrefix(p, x)}
             put  == {p \o y : y \in DOMAIN data}
             new  == Graft(doc, p, data)
  <1>1. p \in Seq(Segment) /\ DOMAIN doc \subseteq Seq(Segment) /\ DOMAIN data \subseteq Seq(Segment)
    BY DEF IsDocument
  <1>2. /\ DOMAIN new = kept \cup put
        /\ \A x \in kept : new[x] = doc[x]
        /\ new = [x \in DOMAIN new |-> new[x]]
    BY DEF Graft
  <1>3. ASSUME NEW z \in DOMAIN data
        PROVE  /\ p \o z \in Seq(Segment) /\ p \o z \in DOMAIN new
               /\ new[p \o z] = data[z]
    <2>1. p \o z \in Seq(Segment) /\ IsPrefix(p, p \o z) /\ Suffix(p \o z, p) = z
      BY <1>1, ConcatPrefix, ConcatProperties DEF Suffix
    <2>2. p \o z \notin kept /\ p \o z \in put
      BY <2>1
    <2> QED
      BY <2>1, <2>2 DEF Graft
  <1>4. DOMAIN new \subseteq Seq(Segment)
    BY <1>1, <1>2, <1>3
  <1>5. <<>> \in kept
    <2>1. <<>> \in Seq(Segment) /\ Len(<<>>) = 0 /\ Len(p) > 0
      BY <1>1, EmptySeq
    <2>2. ~IsPrefix(p, <<>>)
      BY <2>1 DEF IsPrefix
    <2> QED
      BY <2>2 DEF IsDocument
  <1>6. ASSUME NEW x \in kept PROVE new[x] \in Node /\ Rooted(new, x)
    <2>1. ASSUME NEW k \in 0 .. Len(x) - 1
          PROVE  SubSeq(x, 1, k) \in kept
      <3>1. SubSeq(x, 1, k) \in DOMAIN doc /\ x \in Seq(Segment)
        BY <1>1 DEF IsDocument, Rooted
      <3>2. SubSeq(x, 1, k) \in Seq(Segment) /\ IsPrefix(SubSeq(x, 1, k), x)
        BY <3>1, Initial, LenProperties
      <3>3. ~IsPrefix(p, SubSeq(x, 1, k))
        BY <1>1, <3>1, <3>2, PrefixTransitive
      <3> QED
        BY <3>1, <3>3
    <2>2. doc[x] \in Node /\ Rooted(doc, x)
      BY DEF IsDocument
    <2> QED
      BY <1>2, <2>1, <2>2 DEF Rooted
  <1>7. ASSUME NEW z \in DOMAIN data PROVE new[p \o z] \in Node /\ Rooted(new, p \o z)
    <2>1. data[z] \in Node /\ Rooted(data, z) /\ Rooted(doc, p)
      BY DEF IsDocument
    <2>2. /\ Len(p) \in Nat /\ Len(z) \in Nat /\ z \in Seq(Segment)
          /\ Len(p \o z) = Len(p) + Len(z)
          /\ \A i \in 1 .. Len(p) + Len(z) :
               (p \o z)[i] = IF i <= Len(p) THEN p[i] ELSE z[i - Len(p)]
      BY <1>1, LenProperties, ConcatProperties
    <2>3. ASSUME NEW k \in 0 .. Len(p) - 1
          PROVE  /\ SubSeq(p \o z, 1, k) = SubSeq(p, 1, k)
                 /\ SubSeq(p, 1, k) \in kept
                 /\ (p \o z)[k + 1] = p[k + 1]
      <3>1. SubSeq(p \o z, 1, k) = SubSeq(p, 1, k)
        BY <1>1, <2>2, InitialOfConcat
      <3>2. SubSeq(p, 1, k) \in DOMAIN doc
        BY <2>1 DEF Rooted
      <3>3. ~IsPrefix(p, SubSeq(p, 1, k))
        BY <1>1, <2>2, Initial DEF IsPrefix
      <3> QED
        BY <2>2, <3>1, <3>2, <3>3
    <2>4. ASSUME NEW k \in 0 .. Len(z) - 1
          PROVE  /\ SubSeq(p \o z, 1, Len(p) + k) = p \o SubSeq(z, 1, k)
                 /\ SubSeq(z, 1, k) \in DOMAIN data
                 /\ (p \o z)[Len(p) + k + 1] = z[k + 1]
      <3>3. /\ Len(p) + k \in 0 .. Len(p) + Len(z)
            /\ Len(p) + k >= Len(p)
            /\ (Len(p) + k) - Len(p) = k
        BY <2>2
      <3>4. SubSeq(p \o z, 1, Len(p) + k) = p \o SubSeq(z, 1, (Len(p) + k) - Len(p))
        BY <1>1, <2>2, <3>3, InitialOfConcat
      <3>1. SubSeq(p \o z, 1, Len(p) + k) = p \o SubSeq(z, 1, k)
        BY <3>3, <3>4
      <3>2. SubSeq(z, 1, k) \in DOMAIN data
        BY <2>1 DEF Rooted
      <3> QED
        BY <2>2, <3>1, <3>2
    <2>5. \A k \in 0 .. Len(p \o z) - 1 :
            k \in 0 .. Len(p) - 1 \/ (k - Len(p) \in 0 .. Len(z) - 1 /\ k = Len(p) + (k - Len(p)))
      BY <2>2
    <2> DEFINE Up(k) == /\ SubSeq(p \o z, 1, k) \in DOMAIN new
                        /\ IsContainer(new[SubSeq(p \o z, 1, k)])
                        /\ new[SubSeq(p \o z, 1, k)].type = "array"
                             => /\ (p \o z)[k + 1] \in Numeral
                                /\ Canon[(p \o z)[k + 1]] = (p \o z)[k + 1]
    <2>6. ASSUME NEW k \in 0 .. Len(p) - 1 PROVE Up(k)
      <3>1. new[SubSeq(p, 1, k)] = doc[SubSeq(p, 1, k)] /\ SubSeq(p, 1, k) \in DOMAIN new
        BY <1>2, <2>3
      <3> QED
        BY <2>1, <2>3, <3>1 DEF Rooted
    <2>7. ASSUME NEW j \in 0 .. Len(z) - 1 PROVE Up(Len(p) + j)
      <3>1. /\ p \o SubSeq(z, 1, j) \in DOMAIN new
            /\ new[p \o SubSeq(z, 1, j)] = data[SubSeq(z, 1, j)]
        BY <1>3, <2>4
      <3> QED
        BY <2>1, <2>4, <3>1 DEF Rooted
    <2>8. \A k \in 0 .. Len(p \o z) - 1 : Up(k)
      <3> HIDE DEF Up
      <3> QED
        BY <2>5, <2>6, <2>7
    <2> QED
      BY <1>3, <2>1, <2>8 DEF Rooted
  <1> QED
    BY <1>2, <1>4, <1>5, <1>6, <1>7 DEF IsDocument

-----------------------------------------------------------------------------
\* A write that changes the document grafts its data onto a place that is there,
\* which is not the root.
LEMMA WriteOnTarget ==
  ASSUME NEW doc, IsDocument(doc), NEW path, NEW data,
         WriteOutcome(doc, path, data) = "ok", path # <<>>
  PROVE  /\ Find(doc, Father(path)) # Nil
         /\ Enters(doc, Find(doc, Father(path)), LastNode(path))
         /\ Target(doc, path) \in DOMAIN doc
         /\ Target(doc, path) # <<>>
PROOF
  <1> DEFINE at == Find(doc, Father(path))
  <1>1. at # Nil
    BY DEF WriteOutcome
  <1>2. Enters(doc, at, LastNode(path))
    BY <1>1 DEF WriteOutcome
  <1>3. Target(doc, path) = Append(at, Canonical(LastNode(path)))
    BY DEF Target
  <1>4. Target(doc, path) \in DOMAIN doc /\ at \in DOMAIN doc
    BY <1>2, <1>3 DEF Enters
  <1>5. at \in Seq(Segment) /\ Target(doc, path) \in Seq(Segment)
    BY <1>4 DEF IsDocument
  <1>6. Append(at, Canonical(LastNode(path))) # <<>>
    BY <1>5
  <1> QED
    BY <1>1, <1>2, <1>3, <1>4, <1>6

\* Write keeps the document well formed, whatever it does (component.go, Write).
LEMMA WriteWellFormed ==
  ASSUME NEW doc, IsDocument(doc), NEW path, NEW data, IsDocument(data)
  PROVE  IsDocument(Write(doc, path, data))
PROOF
  <1>1. CASE WriteOutcome(doc, path, data) = "ok" /\ path # <<>>
    <2>1. Write(doc, path, data) = Graft(doc, Target(doc, path), data)
      BY <1>1 DEF Write
    <2>2. Target(doc, path) \in DOMAIN doc /\ Target(doc, path) # <<>>
      BY <1>1, WriteOnTarget
    <2> QED
      BY <2>1, <2>2, GraftWellFormed
  <1>2. CASE ~(WriteOutcome(doc, path, data) = "ok" /\ path # <<>>)
    BY <1>2 DEF Write
  <1> QED
    BY <1>1, <1>2

-----------------------------------------------------------------------------
(***************************************************************************)
(* Paths without leading zeros name the places they address.               *)
(***************************************************************************)
LEMMA CanonicalPlace ==
  ASSUME NEW path \in Seq(Segment), CanonicalPath(path), NEW k \in 0 .. Len(path)
  PROVE  Place(SubSeq(path, 1, k)) = SubSeq(path, 1, k)
PROOF
  <1> DEFINE u == SubSeq(path, 1, k)
  <1>1. u \in Seq(Segment) /\ Len(u) = k /\ \A i \in 1 .. k : u[i] = path[i]
    BY Initial
  <1>2. \A i \in 1 .. k : Canonical(u[i]) = u[i]
    BY <1>1, LenProperties DEF CanonicalPath
  <1>3. DOMAIN u = 1 .. k /\ u = [i \in 1 .. k |-> u[i]]
    BY <1>1, LenProperties
  <1> HIDE DEF u
  <1>4. Place(u) = u
    BY <1>2, <1>3 DEF Place
  <1> QED
    BY <1>4 DEF u

\* One step further along such a path.
LEMMA NextPlace ==
  ASSUME NEW path \in Seq(Segment), CanonicalPath(path), NEW k \in 1 .. Len(path)
  PROVE  Append(SubSeq(path, 1, k - 1), Canonical(path[k])) = SubSeq(path, 1, k)
PROOF
  <1> DEFINE u == SubSeq(path, 1, k - 1)
             v == SubSeq(path, 1, k)
             w == Append(u, path[k])
  <1>1. k - 1 \in 0 .. Len(path) /\ k \in 0 .. Len(path)
    BY LenProperties
  <1>2. u \in Seq(Segment) /\ Len(u) = k - 1 /\ \A i \in 1 .. k - 1 : u[i] = path[i]
    BY <1>1, Initial
  <1>3. v \in Seq(Segment) /\ Len(v) = k /\ \A i \in 1 .. k : v[i] = path[i]
    BY <1>1, Initial
  <1>4. path[k] \in Segment /\ Canonical(path[k]) = path[k]
    BY ElementOfSeq, LenProperties DEF CanonicalPath
  <1> HIDE DEF u, v
  <1>5. /\ w \in Seq(Segment) /\ Len(w) = Len(u) + 1
        /\ \A i \in 1 .. Len(u) : w[i] = u[i]
        /\ w[Len(u) + 1] = path[k]
    BY <1>2, <1>4, AppendProperties
  <1> HIDE DEF w
  <1>6. Len(w) = Len(v) /\ \A i \in 1 .. Len(w) : w[i] = v[i]
    <2>1. Len(w) = k /\ Len(v) = k /\ k \in Nat
      BY <1>2, <1>3, <1>5
    <2>2. w[k] = path[k] /\ v[k] = path[k]
      BY <1>2, <1>3, <1>5, <2>1
    <2>3. ASSUME NEW i \in 1 .. k - 1 PROVE w[i] = path[i] /\ v[i] = path[i]
      <3>1. i \in 1 .. k /\ i \in 1 .. Len(u)
        BY <1>2, <2>1
      <3> QED
        BY <1>2, <1>3, <1>5, <3>1
    <2>4. \A i \in 1 .. k : i = k \/ i \in 1 .. k - 1
      BY <2>1
    <2> QED
      BY <2>1, <2>2, <2>3, <2>4
  <1>7. w = v
    BY <1>3, <1>5, <1>6, SeqEqual
  <1> QED
    BY <1>4, <1>7 DEF u, v, w

\* What Find returns for such a path: the place it names or a leaf above it.
LEMMA FindCanonical ==
  ASSUME NEW doc, IsDocument(doc), NEW path \in Seq(Segment), CanonicalPath(path),
         Find(doc, path) # Nil
  PROVE  \E k \in 0 .. Len(path) :
           /\ Find(doc, path) = SubSeq(path, 1, k)
           /\ Walks(doc, path, k)
           /\ k = Len(path) \/ ~IsContainer(doc[SubSeq(path, 1, k)])
PROOF
  <1>1. Len(path) \in Nat /\ SubSeq(path, 1, Len(path)) = path
    BY LenProperties, SubSeqFull
  <1>2. CASE Walks(doc, path, Len(path))
    <2>1. Find(doc, path) = Place(path)
      BY <1>2 DEF Find, NotNull
    <2> DEFINE k == Len(path)
    <2>3. k \in 0 .. Len(path) /\ SubSeq(path, 1, k) = path
      BY <1>1
    <2>4. Place(SubSeq(path, 1, k)) = SubSeq(path, 1, k)
      BY <2>3, CanonicalPlace
    <2>2. Find(doc, path) = SubSeq(path, 1, k) /\ Walks(doc, path, k)
      BY <1>2, <2>1, <2>3, <2>4
    <2> QED
      BY <2>2, <2>3
  <1>3. CASE ~Walks(doc, path, Len(path))
    <2> DEFINE k == CHOOSE k \in Stops(doc, path) : TRUE
    <2>1. Stops(doc, path) # {}
      BY <1>3 DEF Find
    <2>2. k \in Stops(doc, path)
      BY <2>1
    <2>3. Find(doc, path) = NotNull(doc, Place(SubSeq(path, 1, k)))
      BY <1>3, <2>1 DEF Find
    <2> HIDE DEF k
    <2>4. k \in 0 .. Len(path) - 1 /\ StopsAtLeaf(doc, path, k)
      BY <2>2 DEF Stops
    <2>5. Place(SubSeq(path, 1, k)) = SubSeq(path, 1, k)
      BY <1>1, <2>4, CanonicalPlace
    <2>6. Find(doc, path) = SubSeq(path, 1, k)
      BY <2>3, <2>5 DEF NotNull
    <2>7. Walks(doc, path, k) /\ ~IsContainer(doc[SubSeq(path, 1, k)])
      BY <2>4, <2>5 DEF StopsAtLeaf
    <2>8. k \in 0 .. Len(path)
      BY <1>1, <2>4
    <2> QED
      BY <2>6, <2>7, <2>8
  <1> QED
    BY <1>2, <1>3

\* The father and the last node of a path that is not empty.
LEMMA FatherOf ==
  ASSUME NEW path \in Seq(Segment), path # <<>>
  PROVE  /\ Len(path) \in Nat \ {0}
         /\ Father(path) = SubSeq(path, 1, Len(path) - 1)
         /\ LastNode(path) = path[Len(path)]
PROOF
  <1>1. Len(path) \in Nat \ {0}
    BY EmptySeq
  <1>2. Len(path) > 1 \/ Len(path) = 1
    <2>1. ASSUME NEW n \in Nat \ {0} PROVE n > 1 \/ n = 1
      OBVIOUS
    <2> QED
      BY <1>1, <2>1, Zenon
  <1>3. Father(path) = SubSeq(path, 1, Len(path) - 1)
    <2>1. CASE Len(path) > 1
      BY <2>1 DEF Father, Front
    <2>2. CASE Len(path) = 1
      <3>1. Len(path) - 1 = 0 /\ ~(Len(path) > 1)
        BY <2>2
      <3>2. SubSeq(path, 1, 0) = <<>>
        BY SubSeqEmpty
      <3>3. Father(path) = <<>>
        BY <3>1 DEF Father
      <3> QED
        BY <3>1, <3>2, <3>3
    <2> QED
      BY <1>2, <2>1, <2>2
  <1> QED
    BY <1>1, <1>3 DEF LastNode, Last

\* So a write without leading zeros replaces the value at its own path.
LEMMA TargetCanonical ==
  ASSUME NEW doc, IsDocument(doc), NEW path \in Seq(Segment), CanonicalPath(path), NEW data,
         WriteOutcome(doc, path, data) = "ok", path # <<>>
  PROVE  Target(doc, path) = path
PROOF
  <1> DEFINE father == SubSeq(path, 1, Len(path) - 1)
             at     == Find(doc, Father(path))
  <1>1. Len(path) \in Nat \ {0}
    BY EmptySeq
  <1>2. father \in Seq(Segment) /\ Len(father) = Len(path) - 1
        /\ \A i \in 1 .. Len(path) - 1 : father[i] = path[i]
    <2>1. Len(path) - 1 \in 0 .. Len(path)
      BY <1>1
    <2> QED
      BY <2>1, Initial
  <1>3. Father(path) = father
    BY FatherOf
  <1>4. CanonicalPath(father)
    BY <1>1, <1>2, LenProperties DEF CanonicalPath
  <1>5. at # Nil /\ Enters(doc, at, LastNode(path))
    BY WriteOnTarget
  <1> HIDE DEF father
  <1>6. PICK k \in 0 .. Len(father) :
          /\ at = SubSeq(father, 1, k)
          /\ k = Len(father) \/ ~IsContainer(doc[SubSeq(father, 1, k)])
    BY <1>2, <1>3, <1>4, <1>5, FindCanonical
  <1>7. at = father
    <2>1. IsContainer(doc[at])
      BY <1>5 DEF Enters, IsContainer, ContainerType
    <2> QED
      BY <1>2, <1>6, <2>1, SubSeqFull
  <1>8. LastNode(path) = path[Len(path)] /\ Canonical(path[Len(path)]) = path[Len(path)]
    BY <1>1, LenProperties DEF LastNode, Last, CanonicalPath
  <1>9. Target(doc, path) = Append(father, path[Len(path)])
    BY <1>7, <1>8 DEF Target
  <1>11. Append(father, Canonical(path[Len(path)])) = SubSeq(path, 1, Len(path))
    <2>1. Len(path) \in 1 .. Len(path)
      BY <1>1
    <2> QED
      BY <2>1, NextPlace DEF father
  <1> QED
    BY <1>8, <1>9, <1>11, SubSeqFull

-----------------------------------------------------------------------------
(***************************************************************************)
(* A write changes no value that another path reads unless the texts of    *)
(* the two paths contain each other: Affect, which selects by              *)
(* WhetherContain, forgets no listener.                                    *)
(***************************************************************************)
\* The places that do not lie under p keep their nodes.
LEMMA GraftElsewhere ==
  ASSUME NEW doc, IsDocument(doc), NEW data, IsDocument(data),
         NEW p \in Seq(Segment), NEW x, ~IsPrefix(p, x)
  PROVE  /\ x \in DOMAIN Graft(doc, p, data) <=> x \in DOMAIN doc
         /\ x \in DOMAIN doc => Graft(doc, p, data)[x] = doc[x]
PROOF
  <1> DEFINE kept == {y \in DOMAIN doc : ~IsPrefix(p, y)}
             put  == {p \o y : y \in DOMAIN data}
  <1>1. \A y \in DOMAIN data : IsPrefix(p, p \o y)
    BY ConcatPrefix DEF IsDocument
  <1>2. x \notin put
    BY <1>1
  <1>3. /\ DOMAIN Graft(doc, p, data) = kept \cup put
        /\ \A y \in kept : Graft(doc, p, data)[y] = doc[y]
    BY DEF Graft
  <1> QED
    BY <1>2, <1>3

\* The places that Find walks are in the document.
LEMMA WalkedPlace ==
  ASSUME NEW doc, IsDocument(doc), NEW q \in Seq(Segment), CanonicalPath(q),
         NEW k \in 0 .. Len(q), Walks(doc, q, k)
  PROVE  Place(SubSeq(q, 1, k)) = SubSeq(q, 1, k) /\ SubSeq(q, 1, k) \in DOMAIN doc
PROOF
  <1> DEFINE at(i) == SubSeq(q, 1, i)
  <1>1. Place(at(k)) = at(k) /\ Len(q) \in Nat
    BY CanonicalPlace, LenProperties
  <1>2. CASE k = 0
    <2>1. SubSeq(q, 1, 0) = <<>> /\ <<>> \in DOMAIN doc
      BY SubSeqEmpty DEF IsDocument
    <2> QED
      BY <1>1, <1>2, <2>1
  <1>3. CASE k # 0
    <2>1. k \in 1 .. k /\ k \in 1 .. Len(q) /\ k - 1 \in 0 .. Len(q)
      BY <1>1, <1>3
    <2>2. Enters(doc, Place(at(k - 1)), q[k])
      BY <2>1 DEF Walks
    <2>3. Place(at(k - 1)) = at(k - 1)
      BY <2>1, CanonicalPlace
    <2>4. Append(at(k - 1), Canonical(q[k])) = at(k)
      BY <2>1, NextPlace
    <2> QED
      BY <1>1, <2>2, <2>3, <2>4 DEF Enters
  <1> QED
    BY <1>2, <1>3

\* Two documents that agree on every place on the way to q agree on Find(q).
LEMMA FindSame ==
  ASSUME NEW doc, IsDocument(doc), NEW new,
         NEW q \in Seq(Segment), CanonicalPath(q),
         \A k \in 0 .. Len(q) :
           /\ SubSeq(q, 1, k) \in DOMAIN new <=> SubSeq(q, 1, k) \in DOMAIN doc
           /\ SubSeq(q, 1, k) \in DOMAIN doc => new[SubSeq(q, 1, k)] = doc[SubSeq(q, 1, k)]
  PROVE  Find(new, q) = Find(doc, q)
PROOF
  <1> DEFINE at(k) == SubSeq(q, 1, k)
  <1>0. Len(q) \in Nat
    BY LenProperties
  <1>1. ASSUME NEW k \in 1 .. Len(q)
        PROVE  Enters(new, Place(at(k - 1)), q[k]) <=> Enters(doc, Place(at(k - 1)), q[k])
    <2>1. k - 1 \in 0 .. Len(q) /\ k \in 0 .. Len(q)
      BY <1>0
    <2>2. Place(at(k - 1)) = at(k - 1)
      BY <2>1, CanonicalPlace
    <2>3. Append(at(k - 1), Canonical(q[k])) = at(k)
      BY NextPlace
    <2> QED
      BY <2>1, <2>2, <2>3 DEF Enters
  <1>2. ASSUME NEW k \in 0 .. Len(q) PROVE Walks(new, q, k) <=> Walks(doc, q, k)
    BY <1>0, <1>1 DEF Walks
  <1>3. ASSUME NEW k \in 0 .. Len(q), Walks(doc, q, k)
        PROVE  Place(at(k)) = at(k) /\ at(k) \in DOMAIN doc
    BY <1>3, WalkedPlace
  <1>4. ASSUME NEW k \in 0 .. Len(q), Walks(doc, q, k)
        PROVE  new[Place(at(k))] = doc[Place(at(k))]
    BY <1>3, <1>4
  <1>5. ASSUME NEW k \in 0 .. Len(q) - 1
        PROVE  StopsAtLeaf(new, q, k) <=> StopsAtLeaf(doc, q, k)
    <2>1. k \in 0 .. Len(q)
      BY <1>0
    <2>2. Walks(new, q, k) <=> Walks(doc, q, k)
      BY <1>2, <2>1
    <2>3. Walks(doc, q, k) => new[Place(at(k))] = doc[Place(at(k))]
      BY <1>4, <2>1
    <2> QED
      BY <2>2, <2>3 DEF StopsAtLeaf
  <1>6. Stops(new, q) = Stops(doc, q)
    BY <1>5 DEF Stops
  <1>7. Len(q) \in 0 .. Len(q) /\ SubSeq(q, 1, Len(q)) = q
    BY <1>0, SubSeqFull
  <1>8. Walks(new, q, Len(q)) <=> Walks(doc, q, Len(q))
    BY <1>2, <1>7
  <1>9. CASE Walks(doc, q, Len(q))
    <2>1. new[Place(at(Len(q)))] = doc[Place(at(Len(q)))]
      BY <1>4, <1>7, <1>9
    <2>2. new[Place(q)] = doc[Place(q)]
      BY <1>7, <2>1
    <2> QED
      BY <1>8, <1>9, <2>2 DEF Find, NotNull
  <1>10. CASE ~Walks(doc, q, Len(q)) /\ Stops(doc, q) # {}
    <2> DEFINE k == CHOOSE k \in Stops(doc, q) : TRUE
    <2>1. k \in Stops(doc, q)
      BY <1>10
    <2>2. Find(doc, q) = NotNull(doc, Place(at(k)))
      BY <1>10 DEF Find
    <2>3. Find(new, q) = NotNull(new, Place(at(k)))
      BY <1>6, <1>8, <1>10 DEF Find
    <2> HIDE DEF k
    <2>4. k \in 0 .. Len(q) /\ Walks(doc, q, k)
      BY <1>0, <2>1 DEF Stops, StopsAtLeaf
    <2>5. new[Place(at(k))] = doc[Place(at(k))]
      BY <1>4, <2>4
    <2> QED
      BY <2>2, <2>3, <2>5 DEF NotNull
  <1>11. CASE ~Walks(doc, q, Len(q)) /\ Stops(doc, q) = {}
    BY <1>6, <1>8, <1>11 DEF Find
  <1> QED
    BY <1>9, <1>10, <1>11

\* The values under a place agree when the documents agree on every place there.
LEMMA SubDocumentSame ==
  ASSUME NEW doc, IsDocument(doc), NEW new, IsDocument(new), NEW f \in Seq(Segment),
         \A x \in Seq(Segment) :
           IsPrefix(f, x) => /\ x \in DOMAIN new <=> x \in DOMAIN doc
                             /\ x \in DOMAIN doc => new[x] = doc[x]
  PROVE  SubDocument(new, f) = SubDocument(doc, f)
PROOF
  <1> DEFINE under == {x \in DOMAIN doc : IsPrefix(f, x)}
             names == {Suffix(x, f) : x \in under}
  <1>1. DOMAIN doc \subseteq Seq(Segment) /\ DOMAIN new \subseteq Seq(Segment)
    BY DEF IsDocument
  <1>2. {x \in DOMAIN new : IsPrefix(f, x)} = under
    BY <1>1
  <1>3. \A x \in under : f \o Suffix(x, f) = x
    BY <1>1, PrefixSplit DEF Suffix
  <1>4. \A y \in names : new[f \o y] = doc[f \o y]
    BY <1>1, <1>3
  <1>5. SubDocument(new, f) = [y \in names |-> new[f \o y]]
    BY <1>2 DEF SubDocument
  <1>6. SubDocument(doc, f) = [y \in names |-> doc[f \o y]]
    BY DEF SubDocument
  <1> QED
    BY <1>4, <1>5, <1>6

\* Replacing the value at path changes no value read elsewhere.
LEMMA GraftReadElsewhere ==
  ASSUME NEW doc, IsDocument(doc), NEW data, IsDocument(data),
         NEW path \in DOMAIN doc, path # <<>>, NEW q \in Seq(Segment), CanonicalPath(q),
         ~IsPrefix(path, q), ~IsPrefix(q, path)
  PROVE  Read(Graft(doc, path, data), q) = Read(doc, q)
PROOF
  <1> DEFINE new == Graft(doc, path, data)
             f   == Find(doc, q)
  <1>1. path \in Seq(Segment) /\ Len(path) \in Nat /\ Len(q) \in Nat
    BY LenProperties DEF IsDocument
  <1>2. IsDocument(new)
    BY GraftWellFormed
  <1>3. ASSUME NEW k \in 0 .. Len(q)
        PROVE  /\ SubSeq(q, 1, k) \in Seq(Segment) /\ Len(SubSeq(q, 1, k)) = k
               /\ ~IsPrefix(path, SubSeq(q, 1, k))
    <2>1. /\ SubSeq(q, 1, k) \in Seq(Segment) /\ Len(SubSeq(q, 1, k)) = k
          /\ IsPrefix(SubSeq(q, 1, k), q)
      BY Initial
    <2> QED
      BY <1>1, <2>1, PrefixTransitive
  <1>4. Find(new, q) = f
    <2>1. \A k \in 0 .. Len(q) :
            /\ SubSeq(q, 1, k) \in DOMAIN new <=> SubSeq(q, 1, k) \in DOMAIN doc
            /\ SubSeq(q, 1, k) \in DOMAIN doc => new[SubSeq(q, 1, k)] = doc[SubSeq(q, 1, k)]
      BY <1>1, <1>3, GraftElsewhere
    <2> HIDE DEF new
    <2> QED
      BY <2>1, FindSame
  <1>5. CASE f = Nil
    BY <1>4, <1>5 DEF Read
  <1>6. CASE f # Nil
    <2>1. PICK k \in 0 .. Len(q) :
            /\ f = SubSeq(q, 1, k)
            /\ Walks(doc, q, k)
            /\ k = Len(q) \/ ~IsContainer(doc[SubSeq(q, 1, k)])
      BY <1>6, FindCanonical
    <2>2. f \in Seq(Segment) /\ ~IsPrefix(path, f)
      BY <1>3, <2>1
    <2>3. ~IsPrefix(f, path)
      <3>1. CASE k = Len(q)
        BY <2>1, <3>1, SubSeqFull
      <3>2. CASE ~IsContainer(doc[f])
        <4> SUFFICES ASSUME IsPrefix(f, path) PROVE FALSE
          OBVIOUS
        <4>1. Len(f) \in Nat /\ Len(f) <= Len(path) /\ SubSeq(path, 1, Len(f)) = f
          BY <2>2, SubSeqFull, LenProperties DEF IsPrefix
        <4>2. CASE Len(f) = Len(path)
          BY <1>1, <2>2, <4>1, <4>2, SubSeqFull DEF IsPrefix
        <4>3. CASE Len(f) # Len(path)
          <5>1. Len(f) \in 0 .. Len(path) - 1
            BY <1>1, <4>1, <4>3
          <5>2. Rooted(doc, path)
            BY DEF IsDocument
          <5> QED
            BY <3>2, <4>1, <5>1, <5>2 DEF Rooted
        <4> QED
          BY <4>2, <4>3
      <3> QED
        BY <2>1, <3>1, <3>2
    <2>4. ASSUME NEW x \in Seq(Segment), IsPrefix(f, x)
          PROVE  /\ x \in DOMAIN new <=> x \in DOMAIN doc
                 /\ x \in DOMAIN doc => new[x] = doc[x]
      <3>1. ~IsPrefix(path, x)
        BY <1>1, <2>2, <2>3, <2>4, PrefixesComparable
      <3> QED
        BY <1>1, <3>1, GraftElsewhere
    <2>5. SubDocument(new, f) = SubDocument(doc, f)
      <3> HIDE DEF new, f
      <3> QED
        BY <1>2, <2>2, <2>4, SubDocumentSame
    <2> QED
      BY <1>4, <1>6, <2>5 DEF Read
  <1> QED
    BY <1>5, <1>6

\* Affect forgets no listener: a write changes only what WhetherContain selects
\* (visitorsControl.go, Control calling affectboundary.go, Affect).
THEOREM ReadElsewhere ==
  ASSUME NEW doc, IsDocument(doc), NEW data, IsDocument(data),
         NEW path \in Seq(Segment), CanonicalPath(path),
         NEW q \in Seq(Segment), CanonicalPath(q), ~WhetherContain(path, q)
  PROVE  Read(Write(doc, path, data), q) = Read(doc, q)
PROOF
  <1>1. ~IsPrefix(path, q) /\ ~IsPrefix(q, path)
    BY DEF WhetherContain
  <1>2. CASE WriteOutcome(doc, path, data) = "ok" /\ path # <<>>
    <2>1. Target(doc, path) = path
      BY <1>2, TargetCanonical
    <2>2. path \in DOMAIN doc
      BY <1>2, <2>1, WriteOnTarget
    <2>3. Write(doc, path, data) = Graft(doc, path, data)
      BY <1>2, <2>1 DEF Write
    <2> QED
      BY <1>1, <1>2, <2>2, <2>3, GraftReadElsewhere
  <1>3. CASE ~(WriteOutcome(doc, path, data) = "ok" /\ path # <<>>)
    BY <1>3 DEF Write
  <1> QED
    BY <1>2, <1>3


-----------------------------------------------------------------------------
(***************************************************************************)
(* Leading zeros make no difference: every path is read and written like   *)
(* the place it addresses.                                                 *)
(***************************************************************************)
LEMMA SpelledPlace ==
  ASSUME NEW path \in Seq(Segment)
  PROVE  /\ Place(path) \in Seq(Segment) /\ Len(Place(path)) = Len(path)
         /\ CanonicalPath(Place(path))
         /\ \A i \in 1 .. Len(path) : /\ Place(path)[i] = Canonical(path[i])
                                      /\ Canonical(Canonical(path[i])) = Canonical(path[i])
                                      /\ IsNumber(Canonical(path[i])) = IsNumber(path[i])
PROOF
  <1>1. ASSUME NEW s \in Segment
        PROVE  /\ Canonical(s) \in Segment /\ Canonical(Canonical(s)) = Canonical(s)
               /\ IsNumber(Canonical(s)) = IsNumber(s)
    BY PathAssumption DEF Segment, Canonical, IsNumber
  <1>2. DOMAIN path = 1 .. Len(path) /\ \A i \in 1 .. Len(path) : path[i] \in Segment
    BY ElementOfSeq, LenProperties
  <1>3. Place(path) = [i \in 1 .. Len(path) |-> Canonical(path[i])] /\ Len(path) \in Nat
    BY <1>2, LenProperties DEF Place
  <1>4. Place(path) \in Seq(Segment) /\ Len(Place(path)) = Len(path)
    BY <1>1, <1>2, <1>3, IsASeq
  <1>5. \A i \in 1 .. Len(path) : Place(path)[i] = Canonical(path[i])
    BY <1>3
  <1>6. CanonicalPath(Place(path))
    BY <1>1, <1>2, <1>3, <1>5 DEF CanonicalPath
  <1> QED
    BY <1>1, <1>2, <1>4, <1>5, <1>6

LEMMA SpelledInitial ==
  ASSUME NEW path \in Seq(Segment), NEW k \in 0 .. Len(path)
  PROVE  /\ Place(SubSeq(path, 1, k)) = SubSeq(Place(path), 1, k)
         /\ Place(SubSeq(Place(path), 1, k)) = Place(SubSeq(path, 1, k))
PROOF
  <1> DEFINE c == Place(path)
             u == SubSeq(path, 1, k)
             v == SubSeq(c, 1, k)
             w == Place(u)
  <1>1. /\ c \in Seq(Segment) /\ Len(c) = Len(path) /\ CanonicalPath(c)
        /\ \A i \in 1 .. Len(path) : c[i] = Canonical(path[i])
    BY SpelledPlace
  <1>2. u \in Seq(Segment) /\ Len(u) = k /\ \A i \in 1 .. k : u[i] = path[i]
    BY Initial
  <1> HIDE DEF c
  <1>3. v \in Seq(Segment) /\ Len(v) = k /\ \A i \in 1 .. k : v[i] = c[i]
    BY <1>1, Initial
  <1> HIDE DEF u
  <1>4. w \in Seq(Segment) /\ Len(w) = k /\ \A i \in 1 .. k : w[i] = Canonical(u[i])
    BY <1>2, SpelledPlace
  <1> HIDE DEF v, w
  <1>5. ASSUME NEW i \in 1 .. k PROVE w[i] = v[i]
    <2>1. i \in 1 .. Len(path)
      BY LenProperties
    <2> QED
      BY <1>1, <1>2, <1>3, <1>4, <2>1
  <1>6. w = v
    BY <1>3, <1>4, <1>5, SeqEqual
  <1>7. Place(v) = v
    BY <1>1, CanonicalPlace DEF v
  <1> QED
    BY <1>6, <1>7 DEF c, u, v, w

LEMMA SpelledFind ==
  ASSUME NEW doc, NEW path \in Seq(Segment)
  PROVE  Find(doc, Place(path)) = Find(doc, path)
PROOF
  <1> DEFINE c == Place(path)
  <1>1. /\ c \in Seq(Segment) /\ Len(c) = Len(path) /\ Len(path) \in Nat
        /\ \A i \in 1 .. Len(path) : /\ c[i] = Canonical(path[i])
                                     /\ Canonical(Canonical(path[i])) = Canonical(path[i])
                                     /\ IsNumber(Canonical(path[i])) = IsNumber(path[i])
    BY SpelledPlace, LenProperties
  <1>2. \A k \in 0 .. Len(path) : Place(SubSeq(c, 1, k)) = Place(SubSeq(path, 1, k))
    BY SpelledInitial
  <1> HIDE DEF c
  <1>3. ASSUME NEW i \in 1 .. Len(path), NEW x
        PROVE  Enters(doc, x, c[i]) <=> Enters(doc, x, path[i])
    BY <1>1 DEF Enters
  <1>4. ASSUME NEW k \in 0 .. Len(path)
        PROVE  Walks(doc, c, k) <=> Walks(doc, path, k)
    <2>1. \A i \in 1 .. k : i \in 1 .. Len(path) /\ i - 1 \in 0 .. Len(path)
      BY <1>1
    <2> QED
      BY <1>2, <1>3, <2>1 DEF Walks
  <1>5. ASSUME NEW k \in 0 .. Len(path) - 1
        PROVE  StopsAtLeaf(doc, c, k) <=> StopsAtLeaf(doc, path, k)
    <2>1. k \in 0 .. Len(path) /\ k + 1 \in 1 .. Len(path)
      BY <1>1
    <2>2. IsNumber(c[k + 1]) = IsNumber(path[k + 1])
      BY <1>1, <2>1
    <2> QED
      BY <1>2, <1>4, <2>1, <2>2 DEF StopsAtLeaf
  <1>6. Stops(doc, c) = Stops(doc, path)
    BY <1>1, <1>5 DEF Stops
  <1>7. Walks(doc, c, Len(c)) <=> Walks(doc, path, Len(path))
    BY <1>1, <1>4
  <1>8. Place(c) = Place(path)
    <2>1. SubSeq(c, 1, Len(path)) = c /\ SubSeq(path, 1, Len(path)) = path
      BY <1>1, SubSeqFull
    <2>2. Len(path) \in 0 .. Len(path)
      BY <1>1
    <2> QED
      BY <1>2, <2>1, <2>2
  <1>9. ASSUME NEW k \in Stops(doc, path)
        PROVE  Place(SubSeq(c, 1, k)) = Place(SubSeq(path, 1, k))
    <2>1. k \in 0 .. Len(path)
      BY <1>1 DEF Stops
    <2> QED
      BY <1>2, <2>1
  <1>10. Stops(doc, path) # {} => (CHOOSE k \in Stops(doc, path) : TRUE) \in Stops(doc, path)
    OBVIOUS
  <1>11. Find(doc, c) = Find(doc, path)
    <2>1. CASE Walks(doc, path, Len(path))
      BY <1>7, <1>8, <2>1 DEF Find
    <2>2. CASE ~Walks(doc, path, Len(path)) /\ Stops(doc, path) # {}
      BY <1>6, <1>7, <1>9, <1>10, <2>2 DEF Find
    <2>3. CASE ~Walks(doc, path, Len(path)) /\ Stops(doc, path) = {}
      BY <1>6, <1>7, <2>3 DEF Find
    <2> QED
      BY <2>1, <2>2, <2>3
  <1> QED
    BY <1>11 DEF c

LEMMA SpelledParts ==
  ASSUME NEW path \in Seq(Segment), path # <<>>
  PROVE  /\ Place(path) # <<>>
         /\ Father(path) \in Seq(Segment)
         /\ Father(Place(path)) = Place(Father(path))
         /\ LastNode(Place(path)) = Canonical(LastNode(path))
         /\ Canonical(Canonical(LastNode(path))) = Canonical(LastNode(path))
         /\ IsNumber(Canonical(LastNode(path))) = IsNumber(LastNode(path))
PROOF
  <1> DEFINE c == Place(path)
  <1>1. /\ c \in Seq(Segment) /\ Len(c) = Len(path) /\ Len(path) \in Nat \ {0}
        /\ \A i \in 1 .. Len(path) : /\ c[i] = Canonical(path[i])
                                     /\ Canonical(Canonical(path[i])) = Canonical(path[i])
                                     /\ IsNumber(Canonical(path[i])) = IsNumber(path[i])
    BY SpelledPlace, FatherOf
  <1>2. Place(SubSeq(path, 1, Len(path) - 1)) = SubSeq(c, 1, Len(path) - 1)
    <2>1. Len(path) - 1 \in 0 .. Len(path)
      BY <1>1
    <2> QED
      BY <2>1, SpelledInitial
  <1>5. SubSeq(path, 1, Len(path) - 1) \in Seq(Segment)
    <2>1. Len(path) - 1 \in 0 .. Len(path)
      BY <1>1
    <2> QED
      BY <2>1, Initial
  <1> HIDE DEF c
  <1>3. c # <<>>
    BY <1>1, EmptySeq
  <1>4. Len(path) \in 1 .. Len(path)
    BY <1>1
  <1>6. Father(c) = SubSeq(c, 1, Len(path) - 1) /\ LastNode(c) = c[Len(path)]
    BY <1>1, <1>3, FatherOf
  <1>7. Father(path) = SubSeq(path, 1, Len(path) - 1) /\ LastNode(path) = path[Len(path)]
    BY FatherOf
  <1> QED
    BY <1>1, <1>2, <1>3, <1>4, <1>5, <1>6, <1>7 DEF c

\* When a write of a path that is not empty succeeds.
LEMMA WriteOk ==
  ASSUME NEW doc, NEW path, path # <<>>, NEW data
  PROVE  WriteOutcome(doc, path, data) = "ok"
           <=> /\ Find(doc, Father(path)) # Nil
               /\ Enters(doc, Find(doc, Father(path)), LastNode(path))
               /\ IsNumber(LastNode(path)) \/ MemberOutcome(doc, path, data) = "ok"
PROOF
  <1> DEFINE at  == Find(doc, Father(path))
             row == IF ~Enters(doc, at, LastNode(path)) THEN "error"
                    ELSE IF IsNumber(LastNode(path)) THEN "ok"
                    ELSE MemberOutcome(doc, path, data)
  <1>1. CASE at = Nil
    <2>1. WriteOutcome(doc, path, data) = "error"
      BY <1>1 DEF WriteOutcome
    <2> QED
      BY <1>1, <2>1
  <1>2. CASE at # Nil
    <2>1. WriteOutcome(doc, path, data) = row
      BY <1>2 DEF WriteOutcome
    <2>2. row = "ok" <=> /\ Enters(doc, at, LastNode(path))
                         /\ IsNumber(LastNode(path)) \/ MemberOutcome(doc, path, data) = "ok"
      OBVIOUS
    <2> QED
      BY <1>2, <2>1, <2>2
  <1> QED
    BY <1>1, <1>2

\* Read and Write see the number of an array element, never its spelling.
THEOREM SpellingsAgree ==
  ASSUME NEW doc, NEW path \in Seq(Segment), NEW data
  PROVE  /\ Read(doc, Place(path)) = Read(doc, path)
         /\ Write(doc, Place(path), data) = Write(doc, path, data)
         /\ path # <<>> =>
              (WriteOutcome(doc, Place(path), data) = "ok" <=> WriteOutcome(doc, path, data) = "ok")
PROOF
  <1>1. Read(doc, Place(path)) = Read(doc, path)
    BY SpelledFind DEF Read
  <1>2. CASE path = <<>>
    <2>1. Place(path) = path
      BY <1>2 DEF Place
    <2> QED
      BY <1>1, <1>2, <2>1
  <1>3. CASE path # <<>>
    <2> DEFINE c == Place(path)
    <2>1. /\ c # <<>> /\ Father(path) \in Seq(Segment) /\ Father(c) = Place(Father(path))
          /\ LastNode(c) = Canonical(LastNode(path))
          /\ Canonical(Canonical(LastNode(path))) = Canonical(LastNode(path))
          /\ IsNumber(Canonical(LastNode(path))) = IsNumber(LastNode(path))
      BY <1>3, SpelledParts
    <2>2. Find(doc, Father(c)) = Find(doc, Father(path))
      BY <2>1, SpelledFind
    <2> HIDE DEF c
    <2>3. Target(doc, c) = Target(doc, path)
      BY <2>1, <2>2 DEF Target
    <2>4. MemberOutcome(doc, c, data) = MemberOutcome(doc, path, data)
      BY <2>3 DEF MemberOutcome
    <2>5. \A x : Enters(doc, x, LastNode(c)) <=> Enters(doc, x, LastNode(path))
      BY <2>1 DEF Enters
    <2>6. WriteOutcome(doc, c, data) = "ok" <=> WriteOutcome(doc, path, data) = "ok"
      BY <1>3, <2>1, <2>2, <2>4, <2>5, WriteOk
    <2>7. Write(doc, c, data) = Write(doc, path, data)
      BY <1>3, <2>1, <2>3, <2>6 DEF Write
    <2> QED
      BY <1>1, <1>3, <2>6, <2>7 DEF c
  <1> QED
    BY <1>2, <1>3

-----------------------------------------------------------------------------
(***************************************************************************)
(* What was written is what the path reads next.                           *)
(***************************************************************************)
LEMMA WriteWalks ==
  ASSUME NEW doc, IsDocument(doc), NEW path \in Seq(Segment), CanonicalPath(path), NEW data,
         WriteOutcome(doc, path, data) = "ok", path # <<>>
  PROVE  Walks(doc, path, Len(path))
PROOF
  <1> DEFINE n == Len(path)
             father == Father(path)
             at == Find(doc, father)
  <1>1. n \in Nat \ {0} /\ father = SubSeq(path, 1, n - 1) /\ LastNode(path) = path[n]
    BY FatherOf
  <1>2. /\ father \in Seq(Segment) /\ Len(father) = n - 1
        /\ \A i \in 1 .. n - 1 : father[i] = path[i]
    <2>1. n - 1 \in 0 .. Len(path)
      BY <1>1
    <2> DEFINE u == SubSeq(path, 1, n - 1)
    <2>2. u \in Seq(Segment) /\ Len(u) = n - 1 /\ \A i \in 1 .. n - 1 : u[i] = path[i]
      BY <2>1, Initial
    <2>3. father = u
      BY <1>1
    <2> QED
      BY <2>2, <2>3, Zenon
  <1>3. CanonicalPath(father)
    BY <1>1, <1>2, LenProperties DEF CanonicalPath
  <1>4. at # Nil /\ Enters(doc, at, LastNode(path))
    BY WriteOnTarget
  <1> HIDE DEF father
  <1>5. PICK k \in 0 .. Len(father) :
          /\ at = SubSeq(father, 1, k)
          /\ Walks(doc, father, k)
          /\ k = Len(father) \/ ~IsContainer(doc[SubSeq(father, 1, k)])
    BY <1>2, <1>3, <1>4, FindCanonical
  <1>6. IsContainer(doc[at])
    BY <1>4 DEF Enters, IsContainer, ContainerType
  <1>7. k = n - 1 /\ at = father /\ Walks(doc, father, n - 1)
    BY <1>2, <1>5, <1>6, SubSeqFull
  <1> HIDE DEF n
  <1>8. ASSUME NEW i \in 1 .. n
        PROVE  Enters(doc, Place(SubSeq(path, 1, i - 1)), path[i])
    <2>1. CASE i = n
      <3>1. n - 1 \in 0 .. Len(path)
        BY <1>1 DEF n
      <3>2. Place(SubSeq(path, 1, n - 1)) = SubSeq(path, 1, n - 1)
        BY <3>1, CanonicalPlace
      <3> QED
        BY <1>1, <1>4, <1>7, <2>1, <3>2
    <2>2. CASE i # n
      <3>1. i \in 1 .. n - 1 /\ i - 1 \in 0 .. n - 1
        BY <1>1, <2>2
      <3>2. SubSeq(father, 1, i - 1) = SubSeq(path, 1, i - 1)
        <4> DEFINE u == SubSeq(father, 1, i - 1)
                   v == SubSeq(path, 1, i - 1)
        <4>1. u \in Seq(Segment) /\ Len(u) = i - 1 /\ \A j \in 1 .. i - 1 : u[j] = father[j]
          BY <1>2, <3>1, Initial
        <4>2. i - 1 \in 0 .. Len(path) /\ \A j \in 1 .. i - 1 : j \in 1 .. n - 1
          BY <1>1, <3>1 DEF n
        <4>3. v \in Seq(Segment) /\ Len(v) = i - 1 /\ \A j \in 1 .. i - 1 : v[j] = path[j]
          BY <4>2, Initial
        <4> HIDE DEF u, v
        <4>4. u = v
          BY <1>2, <4>1, <4>2, <4>3, SeqEqual
        <4> QED
          BY <4>4 DEF u, v
      <3>3. Enters(doc, Place(SubSeq(father, 1, i - 1)), father[i])
        BY <1>7, <3>1 DEF Walks
      <3> QED
        BY <1>2, <3>1, <3>2, <3>3
    <2> QED
      BY <2>1, <2>2
  <1> QED
    BY <1>8 DEF Walks, n

\* The value at a place that was replaced.
LEMMA GraftInside ==
  ASSUME NEW doc, IsDocument(doc), NEW data, IsDocument(data), NEW p \in DOMAIN doc
  PROVE  /\ p \in DOMAIN Graft(doc, p, data) /\ Graft(doc, p, data)[p] = data[<<>>]
         /\ SubDocument(Graft(doc, p, data), p) = data
PROOF
  <1> DEFINE new  == Graft(doc, p, data)
             kept == {x \in DOMAIN doc : ~IsPrefix(p, x)}
             put  == {p \o y : y \in DOMAIN data}
  <1>1. /\ p \in Seq(Segment) /\ DOMAIN data \subseteq Seq(Segment) /\ <<>> \in DOMAIN data
        /\ data = [y \in DOMAIN data |-> data[y]]
    BY DEF IsDocument
  <1>2. DOMAIN new = kept \cup put
    BY DEF Graft
  <1>3. ASSUME NEW y \in DOMAIN data
        PROVE  /\ IsPrefix(p, p \o y) /\ Suffix(p \o y, p) = y
               /\ p \o y \in DOMAIN new /\ new[p \o y] = data[y]
    <2>1. IsPrefix(p, p \o y) /\ Suffix(p \o y, p) = y
      BY <1>1, ConcatPrefix DEF Suffix
    <2>2. p \o y \in put /\ p \o y \notin kept
      BY <2>1
    <2>3. new[p \o y] = data[Suffix(p \o y, p)]
      BY <2>2 DEF Graft
    <2> QED
      BY <1>2, <2>1, <2>2, <2>3
  <1>4. p \o <<>> = p
    BY <1>1, ConcatEmptySeq
  <1>5. {x \in DOMAIN new : IsPrefix(p, x)} = put
    BY <1>2, <1>3
  <1>6. {Suffix(x, p) : x \in put} = DOMAIN data
    BY <1>3
  <1> HIDE DEF new, put
  <1>7. SubDocument(new, p) = [y \in DOMAIN data |-> new[p \o y]]
    BY <1>5, <1>6 DEF SubDocument
  <1>8. SubDocument(new, p) = data
    BY <1>1, <1>3, <1>7
  <1> QED
    BY <1>1, <1>3, <1>4, <1>8 DEF new

LEMMA ReadWrittenCanonical ==
  ASSUME NEW doc, IsDocument(doc), NEW data, IsDocument(data),
         NEW path \in Seq(Segment), CanonicalPath(path), path # <<>>,
         WriteOutcome(doc, path, data) = "ok"
  PROVE  Read(Write(doc, path, data), path) = IF data[<<>>].type = "null" THEN Nil ELSE data
PROOF
  <1> DEFINE n == Len(path)
             new == Graft(doc, path, data)
  <1>1. Target(doc, path) = path
    BY TargetCanonical
  <1>2. path \in DOMAIN doc /\ Write(doc, path, data) = new
    BY <1>1, WriteOnTarget DEF Write
  <1>3. Walks(doc, path, n) /\ n \in Nat \ {0} /\ SubSeq(path, 1, n) = path
    BY WriteWalks, FatherOf, SubSeqFull
  <1>4. path \in DOMAIN new /\ new[path] = data[<<>>] /\ SubDocument(new, path) = data
    BY <1>2, GraftInside
  <1>5. ASSUME NEW k \in 0 .. n - 1
        PROVE  /\ SubSeq(path, 1, k) \in DOMAIN new <=> SubSeq(path, 1, k) \in DOMAIN doc
               /\ SubSeq(path, 1, k) \in DOMAIN doc =>
                    new[SubSeq(path, 1, k)] = doc[SubSeq(path, 1, k)]
    <2>1. k \in 0 .. Len(path)
      BY <1>3
    <2>2. SubSeq(path, 1, k) \in Seq(Segment) /\ Len(SubSeq(path, 1, k)) = k
      BY <2>1, Initial
    <2>3. ~IsPrefix(path, SubSeq(path, 1, k))
      <3>1. ~(Len(path) <= k)
        BY <1>3
      <3> QED
        BY <2>2, <3>1, PrefixElements
    <2> QED
      BY <2>3, GraftElsewhere
  <1> HIDE DEF new
  <1>6. ASSUME NEW i \in 1 .. n
        PROVE  Enters(new, Place(SubSeq(path, 1, i - 1)), path[i])
    <2>1. i \in 1 .. Len(path) /\ i - 1 \in 0 .. Len(path) /\ i - 1 \in 0 .. n - 1
      BY <1>3
    <2>2. Place(SubSeq(path, 1, i - 1)) = SubSeq(path, 1, i - 1)
      BY <2>1, CanonicalPlace
    <2>3. Append(SubSeq(path, 1, i - 1), Canonical(path[i])) = SubSeq(path, 1, i)
      BY <2>1, NextPlace
    <2>4. Enters(doc, SubSeq(path, 1, i - 1), path[i])
      BY <1>3, <2>2 DEF Walks
    <2>5. SubSeq(path, 1, i) \in DOMAIN new
      <3>1. CASE i = n
        BY <1>3, <1>4, <3>1
      <3>2. CASE i # n
        <4>1. i \in 0 .. n - 1
          <5>1. ASSUME NEW m \in Nat \ {0}, NEW j \in 1 .. m, j # m PROVE j \in 0 .. m - 1
            BY <5>1
          <5> QED
            BY <1>3, <3>2, <5>1, Zenon
        <4> QED
          BY <1>5, <2>3, <2>4, <4>1 DEF Enters
      <3> QED
        BY <3>1, <3>2
    <2> QED
      BY <1>5, <2>1, <2>2, <2>3, <2>4, <2>5 DEF Enters
  <1>7. Walks(new, path, n)
    BY <1>6 DEF Walks
  <1>8. Place(path) = path
    <2>1. n \in 0 .. Len(path)
      BY <1>3
    <2>2. Place(SubSeq(path, 1, n)) = SubSeq(path, 1, n)
      BY <2>1, CanonicalPlace
    <2> QED
      BY <1>3, <2>2
  <1>9. Find(new, path) = IF data[<<>>].type = "null" THEN Nil ELSE path
    BY <1>4, <1>7, <1>8 DEF Find, NotNull
  <1>10. path # Nil
    BY JsonAssumption
  <1> QED
    BY <1>2, <1>4, <1>9, <1>10 DEF Read

\* What a write stores is what the next read of its path returns, however the
\* array numbers are spelled (component.go, Write and Read).
THEOREM ReadWritten ==
  ASSUME NEW doc, IsDocument(doc), NEW data, IsDocument(data),
         NEW path \in Seq(Segment), path # <<>>, WriteOutcome(doc, path, data) = "ok"
  PROVE  Read(Write(doc, path, data), path) = IF data[<<>>].type = "null" THEN Nil ELSE data
PROOF
  <1> DEFINE c == Place(path)
  <1>1. c \in Seq(Segment) /\ CanonicalPath(c) /\ c # <<>>
    BY SpelledPlace, SpelledParts
  <1>2. WriteOutcome(doc, c, data) = "ok" /\ Write(doc, c, data) = Write(doc, path, data)
    BY SpellingsAgree
  <1>3. Read(Write(doc, path, data), c) = Read(Write(doc, path, data), path)
    BY SpellingsAgree
  <1> HIDE DEF c
  <1>4. Read(Write(doc, c, data), c) = IF data[<<>>].type = "null" THEN Nil ELSE data
    BY <1>1, <1>2, ReadWrittenCanonical
  <1> QED
    BY <1>2, <1>3, <1>4
=============================================================================
