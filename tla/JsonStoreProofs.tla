--------------------------- MODULE JsonStoreProofs ---------------------------
(***************************************************************************)
(* The document of the data center stays well formed, keeps the shape of   *)
(* the template at its top level, returns what was written last and        *)
(* forgets no listener, for every template, path and data.                 *)
(***************************************************************************)
EXTENDS JsonStore, JsonObjectProofs

\* The document is well formed after every sequence of writes (JsonObject.Write).
THEOREM AlwaysWellFormed == Spec => []DocumentWellFormed
PROOF
  <1>1. Init => DocumentWellFormed
    BY StoreAssumption DEF Init, DocumentWellFormed
  <1>2. DocumentWellFormed /\ [Next]_vars => DocumentWellFormed'
    <2> SUFFICES ASSUME DocumentWellFormed, [Next]_vars PROVE DocumentWellFormed'
      OBVIOUS
    <2>1. ASSUME NEW road \in Road, NEW data \in Data, HandleWrite(road, data)
          PROVE  DocumentWellFormed'
      BY <2>1, StoreAssumption, WriteWellFormed DEF HandleWrite, DocumentWellFormed
    <2>2. CASE UNCHANGED vars
      BY <2>2 DEF vars, DocumentWellFormed
    <2> QED
      BY <2>1, <2>2 DEF Next
  <1> QED
    BY <1>1, <1>2, PTL DEF Spec

-----------------------------------------------------------------------------
\* What the top level of two documents has in common when one write leads from
\* the first to the second.
SameTop(doc, new) ==
  /\ new[<<>>].type = doc[<<>>].type
  /\ doc[<<>>].type = "object" =>
       \A s \in Word :
         /\ <<s>> \in DOMAIN new <=> <<s>> \in DOMAIN doc
         /\ <<s>> \in DOMAIN new => new[<<s>>].type = doc[<<s>>].type

\* A write right below an object keeps the type of the member it replaces.
LEMMA MemberKeepsType ==
  ASSUME NEW doc, IsDocument(doc), NEW path, NEW data,
         WriteOutcome(doc, path, data) = "ok", path # <<>>,
         doc[Find(doc, Father(path))].type = "object"
  PROVE  data[<<>>].type = doc[Target(doc, path)].type
PROOF
  <1> DEFINE at == Find(doc, Father(path))
  <1>1. at # Nil /\ Enters(doc, at, LastNode(path))
    BY WriteOnTarget
  <1>2. ~IsNumber(LastNode(path))
    BY <1>1 DEF Enters
  <1>3. MemberOutcome(doc, path, data) = "ok"
    BY <1>1, <1>2 DEF WriteOutcome
  <1> QED
    BY <1>3 DEF MemberOutcome

\* The root is not replaced, and below it only what lies under the target is.
LEMMA GraftTop ==
  ASSUME NEW doc, IsDocument(doc), NEW data, IsDocument(data),
         NEW p \in DOMAIN doc, p # <<>>,
         Len(p) = 1 => data[<<>>].type = doc[p].type
  PROVE  SameTop(doc, Graft(doc, p, data))
PROOF
  <1> DEFINE new  == Graft(doc, p, data)
             kept == {x \in DOMAIN doc : ~IsPrefix(p, x)}
             put  == {p \o y : y \in DOMAIN data}
  <1>1. /\ p \in Seq(Segment) /\ DOMAIN doc \subseteq Seq(Segment)
        /\ DOMAIN data \subseteq Seq(Segment)
        /\ <<>> \in DOMAIN doc /\ <<>> \in DOMAIN data
        /\ Len(p) \in Nat \ {0}
    BY EmptySeq DEF IsDocument
  <1>2. /\ DOMAIN new = kept \cup put
        /\ \A x \in kept : new[x] = doc[x]
        /\ \A x \in put \ kept : new[x] = data[Suffix(x, p)]
    BY DEF Graft
  <1>3. <<>> \in kept
    BY <1>1 DEF IsPrefix
  <1>4. ASSUME NEW s \in Word
        PROVE  /\ <<s>> \in DOMAIN new <=> <<s>> \in DOMAIN doc
               /\ <<s>> \in DOMAIN new => new[<<s>>].type = doc[<<s>>].type
    <2>1. <<s>> \in Seq(Segment) /\ Len(<<s>>) = 1
      BY DEF Segment
    <2>2. CASE p = <<s>>
      <3>1. p \o <<>> = p /\ p \in put
        BY <1>1, ConcatEmptySeq
      <3>2. IsPrefix(p, p) /\ Suffix(p, p) = <<>>
        <4>1. IsPrefix(p, p \o <<>>) /\ Suffix(p \o <<>>, p) = <<>>
          BY <1>1, ConcatPrefix DEF Suffix
        <4> QED BY <3>1, <4>1
      <3>3. p \in put \ kept
        BY <3>1, <3>2
      <3> QED
        BY <1>2, <2>1, <2>2, <3>2, <3>3
    <2>3. CASE p # <<s>>
      <3>1. ~IsPrefix(p, <<s>>)
        <4>1. ASSUME IsPrefix(p, <<s>>) PROVE FALSE
          <5>2. Len(p) <= Len(<<s>>) /\ \A i \in 1 .. Len(p) : p[i] = <<s>>[i]
            <6>1. \A t \in Seq(Segment) :
                    IsPrefix(p, t) => Len(p) <= Len(t) /\ \A i \in 1 .. Len(p) : p[i] = t[i]
              BY <1>1, PrefixElements
            <6> QED
              BY <2>1, <4>1, <6>1
          <5>1. Len(p) = 1 /\ p[1] = s
            BY <1>1, <2>1, <5>2
          <5> QED
            BY <1>1, <2>1, <2>3, <5>1, SeqEqual
        <4> QED BY <4>1
      <3>2. <<s>> \notin put
        <4>1. ASSUME NEW y \in DOMAIN data, p \o y = <<s>> PROVE FALSE
          BY <1>1, <3>1, <4>1, ConcatPrefix, ZenonT(30)
        <4> QED BY <4>1
      <3> QED
        BY <1>2, <3>1, <3>2
    <2> QED BY <2>2, <2>3
  <1> QED
    BY <1>2, <1>3, <1>4 DEF SameTop

LEMMA WriteTop ==
  ASSUME NEW doc, IsDocument(doc), doc[<<>>].type = "object", NEW path,
         NEW data, IsDocument(data)
  PROVE  SameTop(doc, Write(doc, path, data))
PROOF
  <1> DEFINE p  == Target(doc, path)
             at == Find(doc, Father(path))
  <1>1. CASE WriteOutcome(doc, path, data) = "ok" /\ path # <<>>
    <2>1. p \in DOMAIN doc /\ p # <<>> /\ Enters(doc, at, LastNode(path))
      BY <1>1, WriteOnTarget
    <2>2. ASSUME Len(p) = 1 PROVE data[<<>>].type = doc[p].type
      <3>1. p = Append(at, Canonical(LastNode(path))) /\ at \in Seq(Segment)
        BY <2>1 DEF Target, Enters, IsDocument
      <3>2. at = <<>>
        BY <2>2, <3>1
      <3> QED
        BY <1>1, <3>2, MemberKeepsType
    <2>3. SameTop(doc, Graft(doc, p, data))
      BY <2>1, <2>2, GraftTop
    <2> QED
      BY <1>1, <2>3 DEF Write
  <1>2. CASE ~(WriteOutcome(doc, path, data) = "ok" /\ path # <<>>)
    BY <1>2 DEF Write, SameTop
  <1> QED
    BY <1>1, <1>2

\* A root that is no object keeps its type too.
LEMMA WriteRoot ==
  ASSUME NEW doc, IsDocument(doc), NEW path, NEW data, IsDocument(data)
  PROVE  Write(doc, path, data)[<<>>].type = doc[<<>>].type
PROOF
  <1>1. CASE WriteOutcome(doc, path, data) = "ok" /\ path # <<>>
    <2> DEFINE p == Target(doc, path)
    <2>1. p \in DOMAIN doc /\ p # <<>>
      BY <1>1, WriteOnTarget
    <2>2. p \in Seq(Segment) /\ Len(p) \in Nat \ {0} /\ <<>> \in DOMAIN doc
      BY <2>1, EmptySeq DEF IsDocument
    <2>3. ~IsPrefix(p, <<>>)
      BY <2>2 DEF IsPrefix
    <2> HIDE DEF p
    <2>4. Graft(doc, p, data)[<<>>] = doc[<<>>]
      BY <2>2, <2>3 DEF Graft
    <2> QED
      BY <1>1, <2>4 DEF Write, p
  <1>2. CASE ~(WriteOutcome(doc, path, data) = "ok" /\ path # <<>>)
    BY <1>2 DEF Write
  <1> QED
    BY <1>1, <1>2

\* The template fixes the top level for good (the type test of Write): in every
\* reachable state the members of the root are those of the template, with
\* their types.
THEOREM AlwaysRootShape == Spec => []RootShapeStable
PROOF
  <1> DEFINE Inv == DocumentWellFormed /\ RootShapeStable
  <1>1. Init => Inv
    BY StoreAssumption DEF Init, DocumentWellFormed, RootShapeStable
  <1>2. Inv /\ [Next]_vars => Inv'
    <2> SUFFICES ASSUME Inv, [Next]_vars PROVE Inv'
      OBVIOUS
    <2>1. ASSUME NEW road \in Road, NEW data \in Data, HandleWrite(road, data)
          PROVE  Inv'
      <3> DEFINE path == InputFromString(road)
      <3>1. value' = Write(value, path, data) /\ IsDocument(value) /\ IsDocument(data)
        BY <2>1, StoreAssumption DEF HandleWrite, DocumentWellFormed
      <3>2. DocumentWellFormed'
        BY <3>1, WriteWellFormed DEF DocumentWellFormed
      <3>3. value'[<<>>].type = Template[<<>>].type
        BY <3>1, WriteRoot DEF RootShapeStable
      <3>4. Template[<<>>].type = "object" => SameTop(value, value')
        BY <3>1, WriteTop DEF RootShapeStable
      <3>5. RootShapeStable'
        BY <3>3, <3>4 DEF RootShapeStable, SameTop
      <3> QED
        BY <3>2, <3>5
    <2>2. CASE UNCHANGED vars
      BY <2>2 DEF vars, DocumentWellFormed, RootShapeStable
    <2> QED
      BY <2>1, <2>2 DEF Next
  <1> QED
    BY <1>1, <1>2, PTL DEF Spec

-----------------------------------------------------------------------------
\* Affect forgets no listener, after any number of writes: a write that changes
\* what a path reads has a path whose text contains, or is contained in, that
\* path's (affectboundary.go, Affect and WhetherContain).
THEOREM AlwaysAffectComplete == Spec => AffectComplete
PROOF
  <1> DEFINE Forgets(road) ==
               LET path == InputFromString(road)
               IN  CanonicalPath(path) /\ CanonicalPath(last'.path)
                     /\ Read(value', path) # Read(value, path)
                   => WhetherContain(last'.path, path)
  <1>1. DocumentWellFormed /\ [Next]_vars => [\A road \in Road : Forgets(road)]_vars
    <2> SUFFICES ASSUME DocumentWellFormed, Next, NEW road \in Road PROVE Forgets(road)
      OBVIOUS
    <2>1. PICK written \in Road, data \in Data : HandleWrite(written, data)
      BY DEF Next
    <2> DEFINE path == InputFromString(road)
               target == InputFromString(written)
    <2>2. /\ IsDocument(value) /\ IsDocument(data)
          /\ path \in Seq(Segment) /\ target \in Seq(Segment)
          /\ value' = Write(value, target, data) /\ last'.path = target
      BY <2>1, StoreAssumption DEF HandleWrite, DocumentWellFormed
    <2> HIDE DEF path, target
    <2>3. CanonicalPath(path) /\ CanonicalPath(target)
            /\ Read(value', path) # Read(value, path)
          => WhetherContain(target, path)
      BY <2>2, ReadElsewhere
    <2> QED
      BY <2>2, <2>3 DEF path
  <1>2. Spec => []DocumentWellFormed
    BY AlwaysWellFormed
  <1> QED
    BY <1>1, <1>2, PTL DEF Spec, AffectComplete

-----------------------------------------------------------------------------
\* Whatever was written before, an accepted write is what the next read of the
\* same path returns, under every spelling of the array numbers (component.go,
\* Write and Read): no write lands beside the place that Find walks to.
THEOREM AlwaysReadYourWrite == Spec => ReadYourWrite
PROOF
  <1> DEFINE Reads ==
               last'.outcome = "ok" /\ last'.path # <<>> =>
                 Read(value', last'.path) = (IF last'.data[<<>>].type = "null" THEN Nil
                                             ELSE last'.data)
  <1>1. DocumentWellFormed /\ [Next]_vars => [Reads]_vars
    <2> SUFFICES ASSUME DocumentWellFormed, Next PROVE Reads
      OBVIOUS
    <2>1. PICK road \in Road, data \in Data : HandleWrite(road, data)
      BY DEF Next
    <2> DEFINE path == InputFromString(road)
    <2>2. /\ IsDocument(value) /\ IsDocument(data) /\ path \in Seq(Segment)
          /\ value' = Write(value, path, data)
          /\ last'.path = path /\ last'.data = data
          /\ last'.outcome = WriteOutcome(value, path, data)
      BY <2>1, StoreAssumption DEF HandleWrite, DocumentWellFormed
    <2> HIDE DEF path
    <2>3. WriteOutcome(value, path, data) = "ok" /\ path # <<>> =>
            Read(Write(value, path, data), path)
              = (IF data[<<>>].type = "null" THEN Nil ELSE data)
      BY <2>2, ReadWritten
    <2> QED
      BY <2>2, <2>3
  <1>2. Spec => []DocumentWellFormed
    BY AlwaysWellFormed
  <1> QED
    BY <1>1, <1>2, PTL DEF Spec, ReadYourWrite
=============================================================================
