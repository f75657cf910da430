-------------------------- MODULE PdfRevisionProofs ----------------------------
(***************************************************************************)
(* Proofs about PdfRevision, for any form, any estimates and containers,   *)
(* and any number of revisions.                                            *)
(*                                                                         *)
(* The invariant says that the document is in order (Doc), what an update  *)
(* has appended to it (Building), and that the whole is in order again     *)
(* once the update has its section (Built).  The proofs come in that order:*)
(* what a reader finds in a document; that a document with an update is in *)
(* order (DocAfter); that writing over signatures does no harm             *)
(* (PatchedDoc); that a blank document is in order (BlankDoc); each action;*)
(* the theorems.                                                           *)
(***************************************************************************)
EXTENDS PdfRevision, FiniteSetTheorems, TLAPS

-----------------------------------------------------------------------------
(* Segments, by kind.                                                      *)
FieldVal == [is : {"field"}, name : Names \union {NoName}, parent : Nat, title : Nat, mark : Nat]
SigVal   == [is : {"signature"}, zeros : Nat, by : Nat, gap : Nat, upto : Nat]
CatVal   == [is : {"catalog"}, fields : SUBSET Nat]
PageVal  == [is : {"page"}, annots : SUBSET Nat]
PlainVal == [is : {"plain"}]
XrefVal  == [is : {"xref"}, entries : Seq(Nat \X Nat), prev : Nat, root : Nat, size : Nat]
EndVal   == [is : {"end"}, start : Nat]
Val ==
  FieldVal \union SigVal \union CatVal \union PageVal \union PlainVal \union XrefVal \union EndVal
Segments == [id : Nat, val : Val]

(* What a reader finds.                                                    *)
Table(f) == Reader(f).table
Start(f) == Reader(f).start
Root(f) == Reader(f).root
Found(f, i) == Resolve(f, Reader(f), i)
FormOf(f) == Fields(f, Reader(f))
SigFieldsOf(f) == {i \in FormOf(f) : IsSigField(Found(f, i))}
FieldsOf(f) == {i \in FormOf(f) : Found(f, i).is = "field"}
Top(f) == Max(DOMAIN Table(f))
FieldOf(f, n) == FieldNamed(f, Reader(f), n)

(* A document is in order: it ends with a section and its end, a section    *)
(* points back to an earlier one, ...                                       *)
Shape(f) ==
  /\ f \in Seq(Segments) /\ Len(f) > 1
  /\ f[Len(f)].val.is = "end"
  /\ Start(f) = Len(f) - 1 /\ f[Start(f)].val.is = "xref"
  /\ \A p \in 1 .. Len(f) :
       f[p].val.is = "xref" /\ f[p].val.prev # 0 =>
         f[p].val.prev \in 1 .. p - 1 /\ f[f[p].val.prev].val.is = "xref"

(* ... the sections list the newest version of each object, ...             *)
Tabled(f) ==
  /\ DOMAIN Sections(f)[Start(f)] \subseteq 1 .. Reader(f).size - 1
  /\ \A i \in DOMAIN Table(f) : Table(f)[i] \in 1 .. Len(f) /\ f[Table(f)[i]].id = i
  /\ \A p \in 1 .. Len(f) :
       f[p].id # 0 /\ f[p].val.is # "xref" =>
         f[p].id \in DOMAIN Table(f) /\ Table(f)[f[p].id] >= p

(* ... no object has the number of another, ...                             *)
Numbered(f) ==
  /\ \A p \in 1 .. Len(f) : f[p].id <= Top(f) + 1
  /\ \A p, q \in 1 .. Len(f) :
       p < q /\ f[p].id = f[q].id /\ f[p].id # 0 => Versions(f[p].val, f[q].val)

(* ... there is a catalog and a page, and the catalog leads to all fields,  *)
(* each by its name, ...                                                   *)
Formed(f) ==
  /\ Root(f) \in DOMAIN Table(f) /\ Found(f, Root(f)).is = "catalog"
  /\ 2 \in DOMAIN Table(f) /\ Found(f, 2).is = "page"
  /\ IsFiniteSet(FormOf(f)) /\ FormOf(f) \subseteq DOMAIN Table(f)
  /\ \A p \in 1 .. Len(f) :
       f[p].val.is = "field" => {f[p].id, f[p].val.parent} \intersect FormOf(f) # {}
  /\ \A n \in Names : \E i \in Reached(f, Reader(f)) : Found(f, i).name = n
  /\ \A i, j \in DOMAIN Table(f) :
       /\ Found(f, i).is = "field" /\ Found(f, j).is = "field"
       /\ Found(f, i).name = Found(f, j).name /\ Found(f, i).name \in Names
       => i = j

(* ... and marks differ from those to come, and titles if the form allows.  *)
TitlesApart(f) ==
  /\ \A i \in FieldsOf(f) : Found(f, i).title <= Cardinality(SigFieldsOf(f))
  /\ \A i, j \in FieldsOf(f) :
       Found(f, i).title # 0 /\ Found(f, i).title = Found(f, j).title => i = j
Titled(f) ==
  /\ NumberedByCount => TitlesApart(f)
  /\ \A i \in DOMAIN Table(f) :
       Found(f, i).is = "field" => Found(f, i).mark <= Top(f) + 1

Doc(f) == Shape(f) /\ Tabled(f) /\ Numbered(f) /\ Formed(f) /\ Titled(f)

-----------------------------------------------------------------------------
(* An update that is being built.                                          *)
Contexts == [buf : Seq(Segments), new : Seq(Nat \X Nat), upd : Seq(Nat \X Nat)]
Updated(o) == {o.upd[k][1] : k \in DOMAIN o.upd}

(* What there was comes first.                                             *)
Extends(f, g) == Len(g) >= Len(f) /\ \A p \in 1 .. Len(f) : g[p] = f[p]

(* The context lists what has been appended to the document, at its place.  *)
Core(o) ==
  /\ o \in Contexts
  /\ Extends(file, o.buf)
  /\ \A k \in DOMAIN o.new :
       /\ o.new[k][1] = LastId + k /\ o.new[k][2] \in Len(file) + 1 .. Len(o.buf)
       /\ o.buf[o.new[k][2]].id = LastId + k
  /\ \A k \in DOMAIN o.upd :
       /\ o.upd[k][1] \in DOMAIN rdr.table /\ o.upd[k][2] \in Len(file) + 1 .. Len(o.buf)
       /\ o.buf[o.upd[k][2]].id = o.upd[k][1]
  /\ \A j, k \in DOMAIN o.upd : o.upd[j][1] = o.upd[k][1] => j = k
  /\ \A p \in Len(file) + 1 .. Len(o.buf) :
       \/ \E k \in DOMAIN o.new : o.new[k] = <<o.buf[p].id, p>>
       \/ \E k \in DOMAIN o.upd : o.upd[k] = <<o.buf[p].id, p>>

Here(n) == FieldNamed(file, rdr, n)
Filled(seg, n) ==
  /\ seg.id = Here(n) /\ Resolve(file, rdr, seg.id).mark = 0
  /\ seg.val = [Resolve(file, rdr, seg.id) EXCEPT !.mark = ids.signature]

(* What is appended after the signature.                                   *)
NewKind(seg, w) ==
  \/ seg.id > LastId /\ seg.val = Plain
  \/ seg.id = 2 /\ seg.val \in PageVal
  \/ seg.id = w /\ w > LastId /\ seg.val = Widget(Cardinality(Existing) + 1, ids.signature)
  \/ \E n \in TextFields \union ({job.into} \ {NoName}) : n \in Names /\ Filled(seg, n)
NewKinds(o, w, upto) == \A p \in Len(file) + 2 .. upto : NewKind(o.buf[p], w)

(* The document comes first, then the signature.                           *)
Placed(o) ==
  /\ Extends(file, o.buf) /\ Len(o.buf) > Len(file)
  /\ o.buf[Len(file) + 1] = Object(ids.signature, Signature(maxLength))

HasWidget(o, w) ==
  w # 0 => w > LastId /\ \E p \in Len(file) + 2 .. Len(o.buf) :
    o.buf[p] = Object(w, Widget(Cardinality(Existing) + 1, ids.signature))

Building ==
  /\ Core(out) /\ Placed(out) /\ HasWidget(out, ids.widget)
  /\ ids.signature = LastId + 1
  /\ pc = "field" => /\ Len(out.buf) = Len(file) + 1 /\ out.upd = <<>> /\ ids.widget = 0
                     /\ Len(out.new) = 1
  /\ pc = "font" => \A n \in TextFields : Here(n) \notin Updated(out)
  /\ pc = "fill" => \A n \in left \intersect TextFields : Here(n) \notin Updated(out)
  /\ pc \in {"field", "font", "fill"} => NewKinds(out, ids.widget, Len(out.buf))
  /\ pc = "xref" =>
       /\ NewKinds(out, ids.widget, Len(out.buf) - 1)
       /\ out.buf[Len(out.buf)] = Object(ids.catalog, Catalog(NewFields))
       /\ Len(out.buf) > Len(file) + 1 /\ ids.catalog > LastId

-----------------------------------------------------------------------------
(* An update that has been built.                                          *)
Mark(f, n) == Found(f, FieldOf(f, n)).mark

(* g is f with some fields marked by s.                                     *)
MarksMade(f, g, s) ==
  /\ s > Top(f) + 1
  /\ \A n \in Names : Mark(g, n) # Mark(f, n) =>
       /\ Mark(f, n) = 0 /\ Mark(g, n) = s
       /\ n \in SigFields => n = job.into

Built ==
  /\ Doc(out.buf) /\ MarksMade(file, out.buf, ids.signature)
  /\ Len(out.buf) > Len(file) + 1

(* No signature leaves as many zeros as a later one reserves: what the byte *)
(* ranges depend on (the run revision_zeros is what happens otherwise).     *)
NoOldZeros ==
  \A e, d \in Estimates, c \in Containers : c <= e => e - c < d

(* The byte ranges, when no earlier signature has room to spare.            *)
Ranges(f) ==
  \A p \in 1 .. Len(f) :
    f[p].val.is = "signature" =>
      /\ f[p].val.gap = p /\ f[p].val.by = f[p].id
      /\ f[p].val.upto \in p .. Len(f) /\ f[f[p].val.upto].val.is = "end"
      /\ \A q \in p .. f[p].val.upto - 1 : f[q].val.is # "end"
      /\ \A d \in Estimates : f[p].val.zeros < d

(* The update leaves the document as it is and has one signature, one end.  *)
Appended ==
  /\ \A p \in 1 .. Len(file) : out.buf[p] = file[p]
  /\ \A p \in Len(file) + 1 .. Len(out.buf) - 1 : out.buf[p].val.is # "end"
  /\ \A p \in Len(file) + 2 .. Len(out.buf) : out.buf[p].val.is # "signature"
  /\ LET v == out.buf[Len(file) + 1].val IN
     /\ v \in SigVal /\ out.buf[Len(file) + 1].id = ids.signature
     /\ pc = "range" => v = Signature(maxLength)
     /\ pc \in {"sign", "deliver", "done"} => v.gap = Len(file) + 1 /\ v.upto = Len(out.buf)
     /\ pc = "sign" => gap = Len(file) + 1
     /\ pc \in {"deliver", "done"} =>
          v.by = ids.signature /\ \A d \in Estimates : v.zeros < d

(* Steps after the first write; steps with the document complete.           *)
Started == {"field", "font", "fill", "xref", "range", "sign", "deliver", "done"}
Done == {"range", "sign", "deliver", "done"}

(* What holds after a retry, too.                                           *)
Typed ==
  /\ RevisionTypeOK /\ out \in Contexts
  /\ rdr = Reader(file) /\ Doc(file)
  /\ gap <= Len(file) + 1
  /\ pc = "sign" => gap > 0 /\ out.buf[gap].val.is = "signature"
  /\ pc # "idle" => maxLength > 0 /\ \E d \in Estimates : d <= maxLength
  /\ pc = "idle" => out = Empty /\ gap = 0 /\ ~retried
  /\ pc = "placeholder" /\ ~retried => out = Empty /\ gap = 0
  /\ pc \in Started \/ gap # 0 => Len(out.buf) > Len(file)
  /\ pc \in {"field", "font", "fill", "xref", "range"} => Placed(out)
  /\ pc # "fill" => left = {}
  /\ job.into \in TextFields => pc \in {"idle", "placeholder", "field"}

(* What holds without a retry.                                             *)
Sound ==
  ~retried =>
    /\ depth = 0
    /\ pc # "idle" => maxLength \in Estimates
    /\ pc \in {"idle", "placeholder"} => ids = NoIds
    /\ output = IF pc = "done" THEN out.buf ELSE <<>>
    /\ pc \in {"field", "font", "fill", "xref"} => Building
    /\ pc \in Done => Built

Inv == Typed /\ Sound

(* The invariant of byte ranges, under NoOldZeros.                          *)
RangesInv ==
  /\ Ranges(file)
  /\ ~retried /\ pc \in Done => Appended

-----------------------------------------------------------------------------
(* A set of numbers has a least one, since the order of the naturals is    *)
(* well-founded.                                                           *)
LEMMA Least ==
  ASSUME NEW S \in SUBSET Nat, S # {}
  PROVE  \E m \in S : \A k \in S : m <= k
<1> DEFINE R == OpToRel(<, Nat)
<1>1. IsWellFoundedOn(R, Nat)
  BY NatLessThanWellFounded, Zenon
<1>2. \A x, y \in Nat : x < y => <<x, y>> \in R
  BY DEF OpToRel
<1> HIDE DEF R
<1>3. PICK m \in S : \A k \in S : ~(<<k, m>> \in R)
  BY <1>1, WFMin
<1>4. \A k \in S : ~(k < m)
  BY <1>2, <1>3
<1> QED
  BY <1>4

(* Min and Max are what their names say.                                   *)
LEMMA MinDef ==
  ASSUME NEW S \in SUBSET Nat, S # {}
  PROVE  Min(S) \in S /\ \A k \in S : Min(S) <= k
<1>1. \E m \in S : \A k \in S : m <= k
  BY Least
<1> QED
  BY <1>1 DEF Min

LEMMA MaxDef ==
  ASSUME NEW b \in Nat, NEW S \in SUBSET (0 .. b), S # {}
  PROVE  Max(S) \in S /\ \A k \in S : Max(S) >= k
<1> DEFINE Above == {k \in 0 .. b : \A i \in S : k >= i}
<1>1. Above \in SUBSET Nat /\ b \in Above
  OBVIOUS
<1>2. PICK m \in Above : \A k \in Above : m <= k
  <2> HIDE DEF Above
  <2> QED
    BY <1>1, Least
<1>3. m \in S
  <2> SUFFICES ASSUME m \notin S PROVE FALSE
    OBVIOUS
  <2>1. m > 0
    <3>1. PICK i \in S : TRUE
      OBVIOUS
    <3>2. m >= i /\ i # m /\ i \in Nat
      BY <1>2
    <3> QED
      BY <3>2, <1>2
  <2>2. m - 1 \in Above
    BY <2>1, <1>2
  <2>3. m <= m - 1
    <3> HIDE DEF Above
    <3> QED
      BY <2>2, <1>2
  <2> QED
    BY <2>1, <2>3
<1>4. \A k \in S : m >= k
  BY <1>2
<1> QED
  BY <1>3, <1>4 DEF Max

(* Induction up to n, in terms of sets.                                    *)
LEMMA InductionUpTo ==
  ASSUME NEW n \in Nat, NEW S, 0 \in S, \A i \in 0 .. n - 1 : i \in S => i + 1 \in S
  PROVE  \A i \in 0 .. n : i \in S
<1> DEFINE Others == {i \in 0 .. n : i \notin S}
<1> SUFFICES ASSUME Others # {} PROVE FALSE
  OBVIOUS
<1>1. PICK m \in Others : \A k \in Others : m <= k
  <2>1. Others \in SUBSET Nat
    OBVIOUS
  <2> HIDE DEF Others
  <2> QED
    BY <2>1, Least
<1>2. m # 0 /\ m - 1 \in 0 .. n - 1 /\ m - 1 \notin Others
  BY <1>1
<1> QED
  BY <1>1, <1>2

(* The kind of a segment says which fields it has.                          *)
LEMMA Kinds ==
  ASSUME NEW v \in Val
  PROVE  /\ v.is = "field" => v \in FieldVal
         /\ v.is = "signature" => v \in SigVal
         /\ v.is = "catalog" => v \in CatVal
         /\ v.is = "page" => v \in PageVal
         /\ v.is = "plain" => v \in PlainVal
         /\ v.is = "xref" => v \in XrefVal
         /\ v.is = "end" => v \in EndVal
  BY DEF Val, FieldVal, SigVal, CatVal, PageVal, PlainVal, XrefVal, EndVal

(* A place of a file holds an object with a number and a value.            *)
LEMMA Segment ==
  ASSUME NEW f \in Seq(Segments), NEW p \in 1 .. Len(f)
  PROVE  f[p] \in Segments /\ f[p].id \in Nat /\ f[p].val \in Val
<1>1. f[p] \in Segments
  OBVIOUS
<1> QED
  BY <1>1 DEF Segments

(* What the makers of segments make.                                       *)
LEMMA Makers ==
  /\ \A id \in Nat : \A v \in Val : Object(id, v) \in Segments /\ Object(id, v).id = id
                       /\ Object(id, v).val = v
  /\ \A F \in SUBSET Nat : Catalog(F) \in Val /\ Catalog(F).is = "catalog"
                             /\ Catalog(F).fields = F
  /\ \A A \in SUBSET Nat : Page(A) \in Val /\ Page(A) \in PageVal /\ Page(A).is = "page"
  /\ Plain \in Val /\ Plain.is = "plain"
  /\ \A n \in Names : \A k \in Nat : Field(n, k) \in Val /\ Field(n, k).is = "field"
  /\ \A k, s \in Nat : Widget(k, s) \in Val /\ Widget(k, s).is = "field"
  /\ \A z \in Nat : Signature(z) \in Val /\ Signature(z).is = "signature"
  /\ \A es \in Seq(Nat \X Nat) : \A a, b, c \in Nat :
       Xref(es, a, b, c) \in Val /\ Xref(es, a, b, c).is = "xref"
  /\ \A k \in Nat : End(k) \in Val /\ End(k).is = "end"
<1> USE DEF Val
<1>1. \A id \in Nat : \A v \in Val : Object(id, v) \in Segments /\ Object(id, v).id = id
                       /\ Object(id, v).val = v
  <2> HIDE DEF Val
  <2> QED BY DEF Object, Segments
<1>2. \A F \in SUBSET Nat : Catalog(F) \in CatVal /\ Catalog(F).is = "catalog"
                             /\ Catalog(F).fields = F
  <2> HIDE DEF Val
  <2> QED BY DEF Catalog, CatVal
<1>3. \A A \in SUBSET Nat : Page(A) \in PageVal /\ Page(A).is = "page"
  <2> HIDE DEF Val
  <2> QED BY DEF Page, PageVal
<1>4. Plain \in PlainVal /\ Plain.is = "plain"
  <2> HIDE DEF Val
  <2> QED BY DEF Plain, PlainVal
<1>5. \A n \in Names : \A k \in Nat : Field(n, k) \in FieldVal /\ Field(n, k).is = "field"
  <2> HIDE DEF Val
  <2> QED BY TitleAssumption DEF Field, FieldVal
<1>6. \A k, s \in Nat : Widget(k, s) \in FieldVal /\ Widget(k, s).is = "field"
  <2> HIDE DEF Val
  <2> QED BY DEF Widget, FieldVal
<1>7. \A z \in Nat : Signature(z) \in SigVal /\ Signature(z).is = "signature"
  <2> HIDE DEF Val
  <2> QED BY DEF Signature, SigVal
<1>8. \A es \in Seq(Nat \X Nat) : \A a, b, c \in Nat :
       Xref(es, a, b, c) \in XrefVal /\ Xref(es, a, b, c).is = "xref"
  <2> HIDE DEF Val
  <2> QED BY DEF Xref, XrefVal
<1>9. \A k \in Nat : End(k) \in EndVal /\ End(k).is = "end"
  <2> HIDE DEF Val
  <2> QED BY DEF End, EndVal
<1> QED BY <1>1, <1>2, <1>3, <1>4, <1>5, <1>6, <1>7, <1>8, <1>9

-----------------------------------------------------------------------------
(* The sections of a file.                                                 *)
Step(f, listed, p) ==
  IF f[p].val.prev \in 1 .. p - 1
  THEN Over(Own(f[p].val), listed[f[p].val.prev]) ELSE Own(f[p].val)

(* The look-up through the chain of sections exists: it satisfies its      *)
(* recursive equation.                                                     *)
LEMMA SectionsDef ==
  ASSUME NEW f, Len(f) \in Nat
  PROVE  \A p \in 1 .. Len(f) : Sections(f)[p] = Step(f, Sections(f), p)
<1> DEFINE N == Len(f)
           To(c, k) == /\ c = [p \in 1 .. k |-> c[p]]
                       /\ \A p \in 1 .. k : c[p] = Step(f, c, p)
           Built0 == {k \in 0 .. N : \E c : To(c, k)}
<1>1. 0 \in Built0
  <2> DEFINE e == [p \in 1 .. 0 |-> p]
  <2>1. To(e, 0)
    OBVIOUS
  <2>2. 0 \in 0 .. N
    OBVIOUS
  <2> HIDE DEF e, To
  <2> QED
    BY <2>1, <2>2
<1>2. \A k \in 0 .. N - 1 : k \in Built0 => k + 1 \in Built0
  <2> SUFFICES ASSUME NEW k \in 0 .. N - 1, NEW c, To(c, k) PROVE k + 1 \in Built0
    OBVIOUS
  <2> DEFINE d == [p \in 1 .. k + 1 |-> IF p <= k THEN c[p] ELSE Step(f, c, k + 1)]
  <2>1. \A p \in 1 .. k + 1 : Step(f, d, p) = Step(f, c, p)
    BY DEF Step
  <2>2. \A p \in 1 .. k + 1 : d[p] = Step(f, c, p)
    OBVIOUS
  <2>3. d = [p \in 1 .. k + 1 |-> d[p]]
    OBVIOUS
  <2> HIDE DEF d
  <2>4. To(d, k + 1)
    BY <2>1, <2>2, <2>3
  <2> QED
    BY <2>4
<1>3. \A k \in 0 .. N : k \in Built0
  <2> HIDE DEF Built0
  <2> QED
    BY <1>1, <1>2, InductionUpTo
<1>4. PICK c : To(c, N)
  BY <1>3
<1> DEFINE chain == CHOOSE chain : chain = [p \in 1 .. N |->
                 IF f[p].val.prev \in 1 .. p - 1
                 THEN Over(Own(f[p].val), chain[f[p].val.prev]) ELSE Own(f[p].val)]
<1>5. c = [p \in 1 .. N |->
                 IF f[p].val.prev \in 1 .. p - 1
                 THEN Over(Own(f[p].val), c[f[p].val.prev]) ELSE Own(f[p].val)]
  <2>1. c = [p \in 1 .. N |-> Step(f, c, p)]
    BY <1>4
  <2> QED
    BY <2>1, Zenon DEF Step
<1>6. chain = [p \in 1 .. N |->
                 IF f[p].val.prev \in 1 .. p - 1
                 THEN Over(Own(f[p].val), chain[f[p].val.prev]) ELSE Own(f[p].val)]
  BY <1>5, Zenon
<1>7. Sections(f) = chain
  BY Zenon DEF Sections
<1> HIDE DEF chain
<1>8. \A p \in 1 .. N : chain[p] = Step(f, chain, p)
  BY <1>6, Zenon DEF Step
<1> QED
  BY <1>7, <1>8, Zenon

(* The sections of a file depend on its sections alone: what is appended,   *)
(* and what is written into a signature, does not matter to them.           *)
Chained(f) ==
  \A p \in 1 .. Len(f) :
    f[p].val.is = "xref" /\ f[p].val.prev # 0 =>
      f[p].val.prev \in 1 .. p - 1 /\ f[f[p].val.prev].val.is = "xref"

(* What is appended to a file leaves the sections that are there as they   *)
(* were.                                                                   *)
LEMMA SectionsKept ==
  ASSUME NEW f, NEW g, Len(f) \in Nat, Len(g) \in Nat, Len(f) <= Len(g), Chained(f),
         \A p \in 1 .. Len(f) : f[p].val.is = "xref" => g[p].val = f[p].val
  PROVE  \A p \in 1 .. Len(f) : f[p].val.is = "xref" => Sections(g)[p] = Sections(f)[p]
<1> DEFINE S == Sections(f)  R == Sections(g)
           Same == {k \in 0 .. Len(f) :
                      \A p \in 1 .. k : f[p].val.is = "xref" => R[p] = S[p]}
<1>1. \A p \in 1 .. Len(f) : S[p] = Step(f, S, p)
  BY SectionsDef
<1>2. \A p \in 1 .. Len(f) : R[p] = Step(g, R, p)
  BY SectionsDef
<1> HIDE DEF S, R
<1>3. \A k \in 0 .. Len(f) - 1 : k \in Same => k + 1 \in Same
  <2> SUFFICES ASSUME NEW k \in 0 .. Len(f) - 1, k \in Same, f[k + 1].val.is = "xref"
               PROVE  R[k + 1] = S[k + 1]
    OBVIOUS
  <2>1. k + 1 \in 1 .. Len(f) /\ g[k + 1].val = f[k + 1].val
    OBVIOUS
  <2>2. R[k + 1] = Step(g, R, k + 1) /\ S[k + 1] = Step(f, S, k + 1)
    BY <1>1, <1>2, <2>1
  <2>3. CASE f[k + 1].val.prev \in 1 .. k
    <3>1. f[f[k + 1].val.prev].val.is = "xref"
      BY <2>1, <2>3 DEF Chained
    <3>2. R[f[k + 1].val.prev] = S[f[k + 1].val.prev]
      BY <3>1, <2>3
    <3> QED
      BY <2>1, <2>2, <3>2 DEF Step
  <2>4. CASE f[k + 1].val.prev \notin 1 .. k
    BY <2>1, <2>2, <2>4 DEF Step
  <2> QED
    BY <2>3, <2>4
<1>4. 0 \in Same
  OBVIOUS
<1>5. \A k \in 0 .. Len(f) : k \in Same
  <2> HIDE DEF Same
  <2> QED
    BY <1>3, <1>4, InductionUpTo
<1> QED
  BY <1>5 DEF S, R

(* A section whose entries are all of different numbers.                    *)
Numbers(es) == {es[k][1] : k \in DOMAIN es}
Follows(t, es) == \A k \in DOMAIN es : t[es[k][1]] = es[k][2]
Distinct(es) == \A j, k \in DOMAIN es : es[j][1] = es[k][1] => j = k

(* What a section lists itself; what two of them list together.            *)
LEMMA OwnAt ==
  ASSUME NEW x, NEW es, es \in Seq(Nat \X Nat), x.entries = es, Distinct(es)
  PROVE  /\ DOMAIN Own(x) = Numbers(es)
         /\ Follows(Own(x), es)
<1>1. {e[1] : e \in Range(x.entries)} = {es[k][1] : k \in DOMAIN es}
  BY DEF Range
<1>2. DOMAIN Own(x) = {es[k][1] : k \in DOMAIN es}
  BY <1>1 DEF Own
<1>3. ASSUME NEW k \in DOMAIN es PROVE Own(x)[es[k][1]] = es[k][2]
  <2> DEFINE K == {j \in 1 .. Len(x.entries) : x.entries[j][1] = es[k][1]}
  <2>1. K = {k}
    BY DEF Distinct
  <2>2. Min(K) = k
    <3>1. K \in SUBSET Nat /\ K # {}
      BY <2>1
    <3>2. Min(K) \in K
      BY <3>1, MinDef
    <3> QED
      BY <2>1, <3>2
  <2>3. Own(x)[es[k][1]] = x.entries[Min(K)][2]
    BY <1>2 DEF Own
  <2> QED
    BY <2>2, <2>3
<1> QED
  BY <1>2, <1>3 DEF Numbers, Follows

LEMMA OverAt ==
  ASSUME NEW new, NEW old
  PROVE  /\ DOMAIN Over(new, old) = DOMAIN new \union DOMAIN old
         /\ \A i \in DOMAIN new : Over(new, old)[i] = new[i]
         /\ \A i \in DOMAIN old \ DOMAIN new : Over(new, old)[i] = old[i]
  BY DEF Over

(* The parts of a reader.                                                  *)
LEMMA ReaderIs ==
  ASSUME NEW f
  PROVE  /\ Start(f) = f[Len(f)].val.start
         /\ Root(f) = f[Start(f)].val.root
         /\ Reader(f).size = f[Start(f)].val.size
         /\ DOMAIN Table(f) = {j \in DOMAIN Sections(f)[Start(f)] : j < Reader(f).size}
         /\ \A i \in DOMAIN Table(f) : Table(f)[i] = Sections(f)[Start(f)][i]
  BY DEF Start, Root, Table, Reader

-----------------------------------------------------------------------------
(* What a document in order gives.                                         *)
LEMMA DocReader ==
  ASSUME NEW f, Doc(f)
  PROVE  /\ f \in Seq(Segments) /\ Len(f) \in Nat /\ Len(f) > 1
         /\ Start(f) \in 1 .. Len(f) /\ f[Start(f)].val \in XrefVal
         /\ Reader(f).size \in Nat /\ Root(f) \in Nat /\ Start(f) \in Nat
         /\ Table(f) = Reader(f).table
         /\ DOMAIN Table(f) = DOMAIN Sections(f)[Start(f)]
         /\ \A i \in DOMAIN Table(f) : Table(f)[i] = Sections(f)[Start(f)][i]
         /\ DOMAIN Table(f) \subseteq 1 .. Reader(f).size - 1
         /\ Top(f) \in DOMAIN Table(f) /\ Top(f) \in Nat /\ Top(f) > 0 /\ Top(f) < Reader(f).size
         /\ \A i \in DOMAIN Table(f) : i <= Top(f)
<1> USE DEF Doc
<1>1. f \in Seq(Segments) /\ Len(f) \in Nat /\ Len(f) > 1
  BY DEF Shape
<1>2. Start(f) \in 1 .. Len(f) /\ f[Start(f)].val.is = "xref" /\ Start(f) \in Nat
  BY <1>1 DEF Shape
<1>3. f[Start(f)].val \in XrefVal
  BY <1>1, <1>2, Segment, Kinds
<1>4. Reader(f).size \in Nat /\ Root(f) \in Nat
  BY <1>3, ReaderIs DEF XrefVal
<1>5. /\ DOMAIN Table(f) = DOMAIN Sections(f)[Start(f)]
      /\ \A i \in DOMAIN Table(f) : Table(f)[i] = Sections(f)[Start(f)][i]
      /\ DOMAIN Table(f) \subseteq 1 .. Reader(f).size - 1
  <2>1. DOMAIN Sections(f)[Start(f)] \subseteq 1 .. Reader(f).size - 1
    BY DEF Tabled
  <2>2. DOMAIN Table(f) = {j \in DOMAIN Sections(f)[Start(f)] : j < Reader(f).size}
    BY ReaderIs
  <2>3. \A i \in DOMAIN Table(f) : Table(f)[i] = Sections(f)[Start(f)][i]
    BY ReaderIs
  <2>4. \A j \in DOMAIN Sections(f)[Start(f)] : j < Reader(f).size
    BY <1>4, <2>1
  <2> QED
    BY <2>1, <2>2, <2>3, <2>4
<1>6. /\ Top(f) \in DOMAIN Table(f) /\ Top(f) \in Nat /\ Top(f) > 0 /\ Top(f) < Reader(f).size
      /\ \A i \in DOMAIN Table(f) : i <= Top(f)
  <2>1. 2 \in DOMAIN Table(f)
    BY DEF Formed
  <2>2. DOMAIN Table(f) \in SUBSET (0 .. Reader(f).size) /\ DOMAIN Table(f) # {}
    BY <1>4, <1>5, <2>1
  <2>3. Top(f) \in DOMAIN Table(f) /\ \A i \in DOMAIN Table(f) : Top(f) >= i
    BY <2>2, <1>4, MaxDef DEF Top
  <2> QED
    BY <1>4, <1>5, <2>3
<1>7. Table(f) = Reader(f).table
  BY DEF Table
<1> QED
  BY <1>1, <1>2, <1>3, <1>4, <1>5, <1>6, <1>7

(* Found and the form, by their definitions.                               *)
LEMMA FoundIs ==
  ASSUME NEW f, NEW i
  PROVE  Found(f, i) = f[Table(f)[i]].val
  BY DEF Found, Resolve, Table

LEMMA FormIs ==
  ASSUME NEW f
  PROVE  /\ FormOf(f) = Found(f, Root(f)).fields
         /\ Reached(f, Reader(f)) =
              {i \in DOMAIN Table(f) : /\ Found(f, i).is = "field"
                                       /\ {i, Found(f, i).parent} \intersect FormOf(f) # {}}
  BY DEF FormOf, Fields, Found, Root, Reached, Table

(* Whatever the table lists is there, under its number.                    *)
LEMMA DocFound ==
  ASSUME NEW f, Doc(f), NEW i \in DOMAIN Table(f)
  PROVE  /\ i \in Nat /\ i > 0 /\ Table(f)[i] \in 1 .. Len(f) /\ f[Table(f)[i]].id = i
         /\ Found(f, i) \in Val /\ f[Table(f)[i]].val = Found(f, i)
<1>1. Table(f)[i] \in 1 .. Len(f) /\ f[Table(f)[i]].id = i
  BY DEF Doc, Tabled
<1> QED
  BY <1>1, DocReader, FoundIs, Segment

(* All versions of an object are alike.                                    *)
LEMMA DocVersions ==
  ASSUME NEW f, Doc(f), NEW i \in DOMAIN Table(f), NEW p \in 1 .. Len(f), f[p].id = i
  PROVE  f[p].val = Found(f, i) \/ Versions(f[p].val, Found(f, i)) \/ Versions(Found(f, i), f[p].val)
<1> DEFINE q == Table(f)[i]
<1>1. q \in 1 .. Len(f) /\ f[q].id = i /\ f[q].val = Found(f, i) /\ i > 0 /\ i \in Nat
  BY DocFound
<1> HIDE DEF q
<1>2. Len(f) \in Nat
  BY DocReader
<1>3. \A r, s \in 1 .. Len(f) : r < s /\ f[r].id = f[s].id /\ f[r].id # 0 =>
         Versions(f[r].val, f[s].val)
  BY DEF Doc, Numbered
<1>4. CASE p = q
  BY <1>1, <1>4
<1>5. CASE p < q
  BY <1>1, <1>3, <1>5
<1>6. CASE q < p
  BY <1>1, <1>3, <1>6
<1> QED
  BY <1>1, <1>2, <1>4, <1>5, <1>6

(* Each name of the form is that of one field, which the look-up by name   *)
(* finds.                                                                  *)
LEMMA DocField ==
  ASSUME NEW f, Doc(f), NEW n \in Names
  PROVE  /\ FieldOf(f, n) \in Reached(f, Reader(f))
         /\ FieldOf(f, n) \in DOMAIN Table(f) /\ FieldOf(f, n) \in Nat /\ FieldOf(f, n) # 2
         /\ Found(f, FieldOf(f, n)) \in FieldVal /\ Found(f, FieldOf(f, n)).is = "field"
         /\ Found(f, FieldOf(f, n)).name = n
         /\ Mark(f, n) = Found(f, FieldOf(f, n)).mark /\ Mark(f, n) \in Nat
         /\ Mark(f, n) <= Top(f) + 1
         /\ {FieldOf(f, n), Found(f, FieldOf(f, n)).parent} \intersect FormOf(f) # {}
         /\ \A i \in DOMAIN Table(f) : Found(f, i).is = "field" /\ Found(f, i).name = n =>
              i = FieldOf(f, n)
<1> DEFINE c == FieldOf(f, n)
<1>1. \E i \in Reached(f, Reader(f)) : Found(f, i).name = n
  BY DEF Doc, Formed
<1>2. c \in Reached(f, Reader(f)) /\ Found(f, c).name = n
  BY <1>1 DEF FieldOf, FieldNamed, Found
<1> HIDE DEF c
<1>3. /\ c \in DOMAIN Table(f) /\ Found(f, c).is = "field"
      /\ {c, Found(f, c).parent} \intersect FormOf(f) # {}
  BY <1>2, FormIs
<1>4. Found(f, c) \in FieldVal
  BY <1>3, DocFound, Kinds
<1>5. Mark(f, n) = Found(f, c).mark /\ Mark(f, n) \in Nat
  BY <1>4 DEF FieldVal, Mark, c
<1>6. Found(f, c).mark <= Top(f) + 1
  BY <1>3 DEF Doc, Titled
<1>7. \A i \in DOMAIN Table(f) : Found(f, i).is = "field" /\ Found(f, i).name = n => i = c
  BY <1>2, <1>3 DEF Doc, Formed
<1>8. c # 2
  BY <1>3 DEF Doc, Formed
<1>9. c \in Nat
  BY <1>3, DocFound
<1> QED
  BY <1>2, <1>3, <1>4, <1>5, <1>6, <1>7, <1>8, <1>9 DEF c

(* The catalog, the page and the fields of a document.                     *)
LEMMA DocForm ==
  ASSUME NEW f, Doc(f)
  PROVE  /\ FormOf(f) \subseteq DOMAIN Table(f) /\ FormOf(f) \subseteq Nat /\ IsFiniteSet(FormOf(f))
         /\ SigFieldsOf(f) \subseteq FormOf(f) /\ IsFiniteSet(SigFieldsOf(f))
         /\ Cardinality(SigFieldsOf(f)) \in Nat
         /\ 2 \in DOMAIN Table(f) /\ Found(f, 2) \in PageVal /\ Found(f, 2).is = "page"
         /\ Root(f) \in DOMAIN Table(f)
         /\ Found(f, Root(f)) \in CatVal
<1>1. FormOf(f) \subseteq DOMAIN Table(f) /\ IsFiniteSet(FormOf(f))
  BY DEF Doc, Formed
<1>2. FormOf(f) \subseteq Nat
  BY <1>1, DocFound
<1>3. SigFieldsOf(f) \subseteq FormOf(f)
  BY DEF SigFieldsOf
<1>4. IsFiniteSet(SigFieldsOf(f)) /\ Cardinality(SigFieldsOf(f)) \in Nat
  BY <1>1, <1>3, FS_Subset, FS_CardinalityType
<1>5. 2 \in DOMAIN Table(f) /\ Found(f, 2).is = "page"
  BY DEF Doc, Formed
<1>6. Root(f) \in DOMAIN Table(f) /\ Found(f, Root(f)).is = "catalog"
  BY DEF Doc, Formed
<1> QED
  BY <1>1, <1>2, <1>3, <1>4, <1>5, <1>6, DocFound, Kinds

-----------------------------------------------------------------------------
(* The section that ends an update lists what has been appended, at its     *)
(* place, and what was listed before.                                       *)
LEMMA LastIdIs ==
  ASSUME rdr = Reader(file), Doc(file)
  PROVE  LastId = Top(file) + 1 /\ LastId \in Nat /\ rdr.table = Table(file)
         /\ rdr.start = Start(file) /\ rdr.size = Reader(file).size /\ LastId <= rdr.size
<1>1. rdr.table = Table(file) /\ rdr.start = Start(file) /\ LastId = Top(file) + 1
  BY DEF Table, Start, LastId, Top
<1> QED
  BY <1>1, DocReader

(* The elements of two sequences in a row.                                 *)
LEMMA Concat ==
  ASSUME NEW T, NEW a \in Seq(T), NEW b \in Seq(T)
  PROVE  /\ a \o b \in Seq(T) /\ Len(a \o b) = Len(a) + Len(b)
         /\ DOMAIN (a \o b) = 1 .. Len(a) + Len(b)
         /\ \A k \in 1 .. Len(a) : (a \o b)[k] = a[k]
         /\ \A k \in 1 .. Len(b) : (a \o b)[Len(a) + k] = b[k]
         /\ \A k \in Len(a) + 1 .. Len(a) + Len(b) : (a \o b)[k] = b[k - Len(a)]
<1>1. /\ a \o b \in Seq(T) /\ Len(a \o b) = Len(a) + Len(b)
      /\ DOMAIN (a \o b) = 1 .. Len(a) + Len(b)
  OBVIOUS
<1>2. \A k \in 1 .. Len(a) : (a \o b)[k] = a[k]
  OBVIOUS
<1>3. \A k \in 1 .. Len(b) : (a \o b)[Len(a) + k] = b[k]
  OBVIOUS
<1>4. \A k \in Len(a) + 1 .. Len(a) + Len(b) : (a \o b)[k] = b[k - Len(a)]
  OBVIOUS
<1> QED
  BY <1>1, <1>2, <1>3, <1>4

(* The section of an update lists each object of it once, at its place.    *)
LEMMA ListedIs ==
  ASSUME rdr = Reader(file), Doc(file), Core(out)
  PROVE  /\ Listed \in Seq(Nat \X Nat)
         /\ DOMAIN Listed = 1 .. Len(out.upd) + Len(out.new)
         /\ Numbers(Listed) = Updated(out) \union LastId + 1 .. LastId + Len(out.new)
         /\ Distinct(Listed)
         /\ \A k \in DOMAIN Listed : Listed[k][2] \in Len(file) + 1 .. Len(out.buf)
                                     /\ out.buf[Listed[k][2]].id = Listed[k][1]
         /\ \A p \in Len(file) + 1 .. Len(out.buf) :
              \E k \in DOMAIN Listed : Listed[k] = <<out.buf[p].id, p>>
<1> DEFINE U == Len(out.upd)  N == Len(out.new)
<1>1. LastId \in Nat /\ \A i \in DOMAIN rdr.table : i < LastId /\ i \in Nat
  BY LastIdIs, DocReader, DocFound
<1>2. /\ out.upd \in Seq(Nat \X Nat) /\ out.new \in Seq(Nat \X Nat) /\ out.buf \in Seq(Segments)
      /\ DOMAIN out.upd = 1 .. U /\ DOMAIN out.new = 1 .. N /\ U \in Nat /\ N \in Nat
  BY DEF Core, Contexts
<1> DEFINE M == [k \in 1 .. N |-> <<LastId + k, out.new[k][2]>>]
<1>3. M \in Seq(Nat \X Nat) /\ Len(M) = N /\ Listed = out.upd \o M
  <2>1. \A k \in 1 .. N : out.new[k] \in Nat \X Nat
    BY <1>2
  <2>2. \A k \in 1 .. N : <<LastId + k, out.new[k][2]>> \in Nat \X Nat
    BY <1>1, <2>1
  <2>3. M \in [1 .. N -> Nat \X Nat]
    BY <2>2
  <2>4. Listed = out.upd \o M
    BY DEF Listed
  <2> HIDE DEF M, N
  <2> QED
    BY <1>2, <2>3, <2>4
<1> HIDE DEF U, N
<1>4. \A k \in 1 .. N : M[k] = out.new[k]
  <2> TAKE k \in 1 .. N
  <2>1. out.new[k] \in Nat \X Nat
    BY <1>2
  <2>2. out.new[k][1] = LastId + k
    BY <1>2 DEF Core
  <2> QED
    BY <2>1, <2>2
<1> HIDE DEF M
<1>5. /\ Listed \in Seq(Nat \X Nat) /\ Len(Listed) = U + N /\ DOMAIN Listed = 1 .. U + N
      /\ \A k \in 1 .. U : Listed[k] = out.upd[k]
      /\ \A k \in 1 .. N : Listed[U + k] = out.new[k]
      /\ \A k \in U + 1 .. U + N : Listed[k] = out.new[k - U]
  <2>1. out.upd \in Seq(Nat \X Nat) /\ M \in Seq(Nat \X Nat) /\ Len(out.upd) = U /\ Len(M) = N
    BY <1>2, <1>3 DEF U
  <2> HIDE DEF U
  <2> QED
    <3>1. /\ Listed \in Seq(Nat \X Nat) /\ Len(Listed) = U + N /\ DOMAIN Listed = 1 .. U + N
          /\ \A k \in 1 .. U : Listed[k] = out.upd[k]
          /\ \A k \in 1 .. N : Listed[U + k] = M[k]
          /\ \A k \in U + 1 .. U + N : Listed[k] = M[k - U]
      <4> DEFINE a == out.upd
                 P == Nat \X Nat
      <4>1. a \in Seq(P) /\ M \in Seq(P)
        BY <2>1
      <4> HIDE DEF a, P
      <4>2. /\ a \o M \in Seq(P) /\ Len(a \o M) = Len(a) + Len(M)
            /\ DOMAIN (a \o M) = 1 .. Len(a) + Len(M)
            /\ \A k \in 1 .. Len(a) : (a \o M)[k] = a[k]
            /\ \A k \in 1 .. Len(M) : (a \o M)[Len(a) + k] = M[k]
            /\ \A k \in Len(a) + 1 .. Len(a) + Len(M) : (a \o M)[k] = M[k - Len(a)]
        BY ONLY <4>1, Concat
      <4>3. Len(a) = U /\ Len(M) = N /\ Listed = a \o M
        BY <2>1, <1>3 DEF a
      <4>4. /\ Listed \in Seq(P) /\ Len(Listed) = U + N /\ DOMAIN Listed = 1 .. U + N
            /\ \A k \in 1 .. U : Listed[k] = a[k]
            /\ \A k \in 1 .. N : Listed[U + k] = M[k]
            /\ \A k \in U + 1 .. U + N : Listed[k] = M[k - U]
        BY ONLY <4>2, <4>3, Zenon
      <4> QED
        BY <4>4 DEF a, P
    <3>2. \A k \in U + 1 .. U + N : k - U \in 1 .. N
      BY <1>2
    <3> QED
      BY ONLY <3>1, <3>2, <1>4
<1>6. \A k \in 1 .. U : /\ Listed[k][1] \in DOMAIN rdr.table
                        /\ Listed[k][2] \in Len(file) + 1 .. Len(out.buf)
                        /\ out.buf[Listed[k][2]].id = Listed[k][1]
  BY <1>2, <1>5 DEF Core
<1>7. \A k \in U + 1 .. U + N : /\ Listed[k][1] = LastId + (k - U)
                                /\ Listed[k][2] \in Len(file) + 1 .. Len(out.buf)
                                /\ out.buf[Listed[k][2]].id = Listed[k][1]
  <2> TAKE k \in U + 1 .. U + N
  <2>1. k - U \in DOMAIN out.new /\ Listed[k] = out.new[k - U]
    BY <1>2, <1>5
  <2> QED
    BY <2>1 DEF Core
<1>8. {Listed[k][1] : k \in DOMAIN Listed} = Updated(out) \union LastId + 1 .. LastId + N
  <2>1. \A k \in 1 .. U : Listed[k][1] \in Updated(out)
    BY <1>2, <1>5 DEF Updated
  <2>2. \A i \in Updated(out) : \E k \in 1 .. U : i = Listed[k][1]
    <3> TAKE i \in Updated(out)
    <3>1. PICK k \in DOMAIN out.upd : i = out.upd[k][1]
      BY DEF Updated
    <3>2. k \in 1 .. U
      BY <1>2
    <3> QED
      BY <1>5, <3>1, <3>2
  <2>3. \A i \in LastId + 1 .. LastId + N : \E k \in U + 1 .. U + N : i = Listed[k][1]
    <3> TAKE i \in LastId + 1 .. LastId + N
    <3> DEFINE k == i - LastId + U
    <3>1. k \in U + 1 .. U + N /\ i = LastId + (k - U)
      <4>1. LastId \in Nat /\ U \in Nat /\ N \in Nat
        BY <1>1, <1>2
      <4> QED
        BY ONLY <4>1, i \in LastId + 1 .. LastId + N
    <3> HIDE DEF k
    <3>2. Listed[k][1] = LastId + (k - U)
      BY <1>7, <3>1
    <3> QED
      BY <3>1, <3>2
  <2>4. \A k \in U + 1 .. U + N : Listed[k][1] \in LastId + 1 .. LastId + N
    BY <1>1, <1>2, <1>7
  <2>5. \A k \in DOMAIN Listed : k \in 1 .. U \/ k \in U + 1 .. U + N
    BY <1>2, <1>5
  <2>6. \A k : k \in 1 .. U \/ k \in U + 1 .. U + N => k \in DOMAIN Listed
    BY <1>2, <1>5
  <2> QED
    BY <2>1, <2>2, <2>3, <2>4, <2>5, <2>6
<1>9. \A j, k \in DOMAIN Listed : Listed[j][1] = Listed[k][1] => j = k
  <2> SUFFICES ASSUME NEW j \in 1 .. U + N, NEW k \in 1 .. U + N, Listed[j][1] = Listed[k][1]
               PROVE  j = k
    BY <1>5
  <2>1. CASE j \in 1 .. U /\ k \in 1 .. U
    <3>1. \A a, b \in DOMAIN out.upd : out.upd[a][1] = out.upd[b][1] => a = b
      BY DEF Core
    <3>2. j \in DOMAIN out.upd /\ k \in DOMAIN out.upd
      BY <1>2, <2>1
    <3>3. Listed[j] = out.upd[j] /\ Listed[k] = out.upd[k]
      BY <1>5, <2>1
    <3> QED
      BY <3>1, <3>2, <3>3
  <2>2. CASE j \in 1 .. U /\ k \in U + 1 .. U + N
    <3>1. Listed[j][1] < LastId /\ Listed[j][1] \in Nat
      BY <1>1, <1>6, <2>2
    <3>2. Listed[k][1] > LastId
      <4>1. Listed[k][1] = LastId + (k - U)
        BY <1>7, <2>2
      <4> QED
        BY <1>1, <1>2, <2>2, <4>1
    <3> QED
      BY <1>1, <3>1, <3>2
  <2>3. CASE k \in 1 .. U /\ j \in U + 1 .. U + N
    <3>1. Listed[k][1] < LastId /\ Listed[k][1] \in Nat
      BY <1>1, <1>6, <2>3
    <3>2. Listed[j][1] > LastId
      <4>1. Listed[j][1] = LastId + (j - U)
        BY <1>7, <2>3
      <4> QED
        BY <1>1, <1>2, <2>3, <4>1
    <3> QED
      BY <1>1, <3>1, <3>2
  <2>4. CASE j \in U + 1 .. U + N /\ k \in U + 1 .. U + N
    BY <1>1, <1>2, <1>7, <2>4
  <2> QED
    BY <1>2, <2>1, <2>2, <2>3, <2>4
<1>10. \A p \in Len(file) + 1 .. Len(out.buf) :
         \E k \in DOMAIN Listed : Listed[k] = <<out.buf[p].id, p>>
  <2> TAKE p \in Len(file) + 1 .. Len(out.buf)
  <2>1. CASE \E k \in DOMAIN out.new : out.new[k] = <<out.buf[p].id, p>>
    <3>1. PICK k \in 1 .. N : out.new[k] = <<out.buf[p].id, p>>
      BY <1>2, <2>1
    <3>2. U + k \in 1 .. U + N
      BY <1>2
    <3>3. U + k \in DOMAIN Listed /\ Listed[U + k] = out.new[k]
      BY ONLY <1>5, <3>2, k \in 1 .. N
    <3> QED
      BY <3>1, <3>3
  <2>2. CASE \E k \in DOMAIN out.upd : out.upd[k] = <<out.buf[p].id, p>>
    <3>1. PICK k \in 1 .. U : out.upd[k] = <<out.buf[p].id, p>>
      BY <1>2, <2>2
    <3>2. k \in DOMAIN Listed /\ Listed[k] = out.upd[k]
      BY <1>2, <1>5
    <3> QED
      BY <3>1, <3>2
  <2> QED
    BY <2>1, <2>2 DEF Core
<1>11. \A k \in DOMAIN Listed : Listed[k][2] \in Len(file) + 1 .. Len(out.buf)
                                     /\ out.buf[Listed[k][2]].id = Listed[k][1]
  <2> TAKE k \in DOMAIN Listed
  <2>1. k \in 1 .. U \/ k \in U + 1 .. U + N
    BY <1>2, <1>5
  <2> QED
    BY <1>6, <1>7, <2>1
<1> QED
  BY <1>5, <1>8, <1>9, <1>10, <1>11 DEF U, N, Distinct, Numbers

-----------------------------------------------------------------------------
(* The document with its new section.                                      *)
NewSection == Xref(Listed, rdr.start, ids.catalog, NewSize)
WithSection(sid) ==
  Append(Append(out.buf, Object(sid, NewSection)), Object(0, End(Len(out.buf) + 1)))

(* The update ends with its section, which points back to the one before.  *)
LEMMA WrittenShape ==
  ASSUME rdr = Reader(file), Doc(file), Core(out), ids.catalog \in Nat,
         NEW sid \in Nat, NEW g, g = WithSection(sid)
  PROVE  /\ g \in Seq(Segments) /\ Len(g) = Len(out.buf) + 2 /\ Len(g) \in Nat
         /\ Len(out.buf) \in Nat /\ Len(out.buf) >= Len(file)
         /\ Extends(out.buf, g) /\ Extends(file, g)
         /\ g[Len(out.buf) + 1] = Object(sid, NewSection)
         /\ g[Len(out.buf) + 2] = Object(0, End(Len(out.buf) + 1))
         /\ NewSection \in Val /\ NewSection.is = "xref"
         /\ Start(g) = Len(out.buf) + 1 /\ g[Start(g)].val = NewSection
         /\ Root(g) = ids.catalog /\ Reader(g).size = NewSize /\ NewSize \in Nat
<1>1. rdr.size \in Nat /\ rdr.start \in Nat
  BY DocReader, LastIdIs
<1>2. /\ out.buf \in Seq(Segments) /\ Len(out.buf) \in Nat /\ Len(file) \in Nat
      /\ out.new \in Seq(Nat \X Nat)
      /\ Len(out.buf) >= Len(file) /\ \A p \in 1 .. Len(file) : out.buf[p] = file[p]
  BY DocReader DEF Core, Contexts, Extends
<1>3. NewSize \in Nat
  BY <1>1, <1>2 DEF NewSize
<1>4. NewSection \in Val /\ NewSection.is = "xref"
  <2>1. Listed \in Seq(Nat \X Nat)
    BY ListedIs, Zenon
  <2> QED
    <3>1. \A es \in Seq(Nat \X Nat) : \A a, b, c \in Nat :
            Xref(es, a, b, c) \in Val /\ Xref(es, a, b, c).is = "xref"
      BY Makers
    <3> QED
      BY <1>1, <1>3, <2>1, <3>1, Zenon DEF NewSection
<1> DEFINE m == Len(out.buf)
           a == Object(sid, NewSection)
           b == Object(0, End(m + 1))
<1>5. a \in Segments /\ b \in Segments /\ a.val = NewSection /\ b.val.start = m + 1
  <2>1. End(m + 1) \in Val /\ End(m + 1).start = m + 1
    BY <1>2, Makers DEF End
  <2> QED
    BY <1>4, <2>1, Makers DEF Object
<1> HIDE DEF a, b
<1>6. g = Append(Append(out.buf, a), b)
  BY DEF a, b, WithSection
<1> HIDE DEF m
<1>7. /\ g \in Seq(Segments) /\ Len(g) = m + 2 /\ \A p \in 1 .. m : g[p] = out.buf[p]
      /\ g[m + 1] = a /\ g[m + 2] = b
  BY ONLY <1>2, <1>5, <1>6 DEF m
<1>8. m \in Nat /\ m >= Len(file)
  BY <1>2 DEF m
<1>9. \A p \in 1 .. Len(file) : g[p] = file[p]
  BY <1>2, <1>7, <1>8
<1>10. Start(g) = m + 1 /\ g[Start(g)].val = NewSection
  BY <1>5, <1>7, ReaderIs
<1>11. Root(g) = ids.catalog /\ Reader(g).size = NewSize
  <2>1. NewSection.root = ids.catalog /\ NewSection.size = NewSize
    BY DEF NewSection, Xref
  <2>2. Root(g) = g[Start(g)].val.root /\ Reader(g).size = g[Start(g)].val.size
    BY ReaderIs, Zenon
  <2> QED
    BY <1>10, <2>1, <2>2
<1>12. Extends(out.buf, g)
  <2>1. Len(g) >= m /\ \A p \in 1 .. m : g[p] = out.buf[p]
    BY <1>7, <1>8
  <2> QED
    BY <2>1 DEF Extends, m
<1>13. Extends(file, g)
  <2>1. Len(g) >= Len(file) /\ \A p \in 1 .. Len(file) : g[p] = file[p]
    BY <1>2, <1>7, <1>8, <1>9
  <2> QED
    BY <2>1 DEF Extends
<1> QED
  BY <1>3, <1>4, <1>7, <1>8, <1>10, <1>11, <1>12, <1>13 DEF m, a, b

ListsNew(t) ==
  \A p \in Len(file) + 1 .. Len(out.buf) : out.buf[p].id \in DOMAIN t /\ t[out.buf[p].id] = p
OldOrNew(t) ==
  \A i \in DOMAIN t :
    \/ i \in DOMAIN Table(file) /\ t[i] = Table(file)[i]
    \/ t[i] \in Len(file) + 1 .. Len(out.buf) /\ out.buf[t[i]].id = i

(* The reader of the new document finds the objects of the update, and the *)
(* others where they were.                                                 *)
LEMMA WrittenTable ==
  ASSUME rdr = Reader(file), Doc(file), Core(out), ids.catalog \in Nat, Len(out.new) > 0,
         \A p \in Len(file) + 1 .. Len(out.buf) : out.buf[p].val.is # "xref",
         NEW sid \in Nat, NEW g, g = WithSection(sid)
  PROVE  /\ Shape(g)
         /\ DOMAIN Sections(g)[Start(g)] =
              DOMAIN Table(file) \union LastId + 1 .. LastId + Len(out.new)
         /\ DOMAIN Table(g) = DOMAIN Sections(g)[Start(g)]
         /\ DOMAIN Table(g) \subseteq 1 .. NewSize - 1
         /\ Top(g) = LastId + Len(out.new)
         /\ ListsNew(Table(g)) /\ OldOrNew(Table(g))
<1> DEFINE m == Len(out.buf)  N == Len(out.new)  st == m + 1
           old == Sections(file)[Start(file)]
           own == Own(NewSection)
<1>1. /\ g \in Seq(Segments) /\ Len(g) = m + 2 /\ Len(g) \in Nat /\ m \in Nat /\ m >= Len(file)
      /\ \A p \in 1 .. Len(file) : g[p] = file[p]
      /\ \A p \in 1 .. m : g[p] = out.buf[p]
      /\ g[m + 1] = Object(sid, NewSection) /\ g[m + 2] = Object(0, End(m + 1))
      /\ Start(g) = st /\ g[st].val = NewSection /\ NewSection.is = "xref"
  <2>1. /\ g \in Seq(Segments) /\ Len(g) = m + 2 /\ Len(g) \in Nat /\ m \in Nat /\ m >= Len(file)
    BY WrittenShape, Zenon
  <2>2. \A p \in 1 .. m : g[p] = out.buf[p]
    <3>1. Extends(out.buf, g)
      BY WrittenShape, Zenon
    <3> QED
      BY <3>1 DEF Extends
  <2>3. \A p \in 1 .. Len(file) : g[p] = file[p]
    <3>1. Extends(file, g)
      BY WrittenShape, Zenon
    <3> QED
      BY <3>1 DEF Extends
  <2>4. g[m + 1] = Object(sid, NewSection) /\ g[m + 2] = Object(0, End(m + 1))
    BY WrittenShape, Zenon
  <2>5. Start(g) = st /\ g[Start(g)].val = NewSection /\ NewSection.is = "xref"
    BY WrittenShape, Zenon
  <2> HIDE DEF m, st
  <2> QED
    BY ONLY <2>1, <2>3, <2>4, <2>5, <2>2, Zenon
<1>2. /\ Len(file) \in Nat /\ Start(file) \in 1 .. Len(file) /\ rdr.start = Start(file)
      /\ file[Start(file)].val.is = "xref" /\ Chained(file)
      /\ LastId \in Nat /\ LastId = Top(file) + 1 /\ LastId <= rdr.size /\ rdr.size \in Nat
      /\ rdr.table = Table(file)
  BY DocReader, LastIdIs DEF Doc, Shape, Chained
<1>3. N \in Nat /\ N > 0
  BY DEF Core, Contexts
<1>4. NewSection.prev = Start(file) /\ NewSection.entries = Listed
  BY <1>2 DEF NewSection, Xref
<1>5. \A p \in 1 .. m : file[p].val.is = "xref" /\ p <= Len(file) => g[p].val = file[p].val
  BY <1>1, <1>2
<1>6. Sections(g)[Start(file)] = old
  <2>1. \A p \in 1 .. Len(file) : file[p].val.is = "xref" => g[p].val = file[p].val
    BY <1>1
  <2>2. \A p \in 1 .. Len(file) : file[p].val.is = "xref" => Sections(g)[p] = Sections(file)[p]
    <3>1. Len(file) <= Len(g)
      BY <1>1, <1>2
    <3> QED
      BY ONLY <1>1, <1>2, <2>1, <3>1, SectionsKept
  <2> QED
    BY <1>2, <2>2
<1>7. Sections(g)[st] = Over(own, old)
  <2>1. st \in 1 .. Len(g) /\ Start(file) \in 1 .. st - 1
    BY <1>1, <1>2
  <2>2. Sections(g)[st] = Step(g, Sections(g), st)
    BY <1>1, <2>1, SectionsDef
  <2>3. g[st].val.prev = Start(file)
    BY <1>1, <1>4
  <2> QED
    BY <1>1, <1>6, <2>1, <2>2, <2>3 DEF Step
<1>8. /\ DOMAIN own = Numbers(Listed)
      /\ Follows(own, Listed)
  <2>1. Listed \in Seq(Nat \X Nat)
        /\ Distinct(Listed)
    BY ListedIs
  <2> QED
    BY <1>4, <2>1, OwnAt, Zenon
<1>9. DOMAIN old = DOMAIN Table(file) /\ \A i \in DOMAIN old : Table(file)[i] = old[i]
  BY DocReader
<1>10. DOMAIN own = Updated(out) \union LastId + 1 .. LastId + N
  BY <1>8, ListedIs
<1>11. Updated(out) \subseteq DOMAIN Table(file)
  BY <1>2 DEF Updated, Core
<1> HIDE DEF own, old
<1>12. /\ DOMAIN Over(own, old) = DOMAIN Table(file) \union LastId + 1 .. LastId + N
       /\ \A i \in DOMAIN own : Over(own, old)[i] = own[i]
       /\ \A i \in DOMAIN old \ DOMAIN own : Over(own, old)[i] = old[i]
  <2>1. /\ DOMAIN Over(own, old) = DOMAIN own \union DOMAIN old
        /\ \A i \in DOMAIN own : Over(own, old)[i] = own[i]
        /\ \A i \in DOMAIN old \ DOMAIN own : Over(own, old)[i] = old[i]
    BY OverAt, Zenon
  <2>2. DOMAIN own \union DOMAIN old = DOMAIN Table(file) \union LastId + 1 .. LastId + N
    BY <1>9, <1>10, <1>11, Zenon
  <2> QED
    BY <2>1, <2>2, Zenon
<1>13. DOMAIN Over(own, old) \subseteq 1 .. NewSize - 1
  <2>1. \A i \in DOMAIN Table(file) : i \in 1 .. rdr.size - 1
    BY <1>2, DocReader
  <2>2. \A i \in DOMAIN Table(file) : i \in 1 .. NewSize - 1
    BY <1>2, <1>3, <2>1 DEF NewSize
  <2>3. \A i \in LastId + 1 .. LastId + N : i \in 1 .. NewSize - 1
    BY <1>2, <1>3 DEF NewSize
  <2> QED
    BY <1>12, <2>2, <2>3
<1>14. /\ DOMAIN Table(g) = DOMAIN Over(own, old)
       /\ \A i \in DOMAIN Table(g) : Table(g)[i] = Over(own, old)[i]
  <2>1. Reader(g).size = NewSize /\ NewSize \in Nat
    BY WrittenShape
  <2>2. \A i \in DOMAIN Over(own, old) : i < NewSize
    BY <1>13, <2>1
  <2>3. /\ DOMAIN Table(g) = {j \in DOMAIN Over(own, old) : j < NewSize}
        /\ \A i \in DOMAIN Table(g) : Table(g)[i] = Over(own, old)[i]
    <3>1. /\ DOMAIN Table(g) = {j \in DOMAIN Sections(g)[Start(g)] : j < Reader(g).size}
          /\ \A i \in DOMAIN Table(g) : Table(g)[i] = Sections(g)[Start(g)][i]
      BY ReaderIs, Zenon
    <3>2. Sections(g)[Start(g)] = Over(own, old)
      BY <1>1, <1>7, Zenon
    <3> QED
      BY <2>1, <3>1, <3>2, Zenon
  <2> QED
    BY <2>2, <2>3
<1>15. Shape(g)
  <2>1. g[Len(g)].val.is = "end" /\ Len(g) > 1 /\ Start(g) = Len(g) - 1 /\ g[Start(g)].val.is = "xref"
    <3>1. g[Len(g)].val = End(m + 1)
      BY <1>1 DEF Object
    <3>2. End(m + 1).is = "end"
      BY DEF End
    <3>3. g[Start(g)].val.is = "xref"
      BY <1>1, Zenon
    <3> QED
      BY <1>1, <3>1, <3>2, <3>3
  <2>2. ASSUME NEW p \in 1 .. Len(g), g[p].val.is = "xref", g[p].val.prev # 0
        PROVE  g[p].val.prev \in 1 .. p - 1 /\ g[g[p].val.prev].val.is = "xref"
    <3>1. CASE p <= Len(file)
      <4>1. g[p] = file[p] /\ p \in 1 .. Len(file)
        BY <1>1, <1>2, <3>1
      <4>2. file[p].val.prev \in 1 .. p - 1 /\ file[file[p].val.prev].val.is = "xref"
        BY <1>2, <2>2, <4>1 DEF Chained
      <4>3. file[p].val.prev \in 1 .. Len(file)
        BY <4>1, <4>2, <1>2
      <4> QED
        BY <1>1, <4>1, <4>2, <4>3
    <3>2. CASE p > Len(file) /\ p <= m
      <4>1. p \in Len(file) + 1 .. m /\ g[p] = out.buf[p]
        BY <1>1, <1>2, <3>2
      <4> QED
        BY <2>2, <4>1
    <3>3. CASE p = m + 1
      <4>1. g[p].val = NewSection
        BY <1>1, <3>3, Zenon
      <4>2. g[p].val.prev = Start(file)
        BY <4>1, <1>4
      <4>3. g[Start(file)] = file[Start(file)]
        BY <1>1, <1>2, Zenon
      <4> QED
        <5>1. Start(file) \in 1 .. p - 1
          BY <1>1, <1>2, <3>3
        <5> QED
          BY ONLY <5>1, <1>2, <4>2, <4>3, Zenon
    <3>4. CASE p = m + 2
      BY <1>1, <2>2, <3>4, Makers DEF Object
    <3>5. p <= Len(file) \/ (p > Len(file) /\ p <= m) \/ p = m + 1 \/ p = m + 2
      <4>1. p \in Nat /\ p <= m + 2 /\ m \in Nat /\ Len(file) \in Nat
        BY <1>1, <1>2
      <4> QED
        BY ONLY <4>1, SMT
    <3> QED
      BY ONLY <3>1, <3>2, <3>3, <3>4, <3>5, Zenon
  <2> QED
    BY <1>1, <2>1, <2>2 DEF Shape
<1>16. ASSUME NEW p \in Len(file) + 1 .. m
       PROVE  out.buf[p].id \in DOMAIN Table(g) /\ Table(g)[out.buf[p].id] = p
  <2>1. PICK k \in DOMAIN Listed : Listed[k] = <<out.buf[p].id, p>>
    BY ListedIs
  <2>2. Listed[k][1] = out.buf[p].id /\ Listed[k][2] = p
    BY <2>1
  <2>3. out.buf[p].id \in DOMAIN own /\ own[out.buf[p].id] = p
    BY <1>8, <2>2 DEF Numbers, Follows
  <2> QED
    BY <1>10, <1>11, <1>12, <1>14, <2>3
<1>17. ASSUME NEW i \in DOMAIN Table(g)
       PROVE  \/ /\ i \in DOMAIN Table(file) /\ Table(g)[i] = Table(file)[i]
                 /\ i \notin Updated(out)
              \/ Table(g)[i] \in Len(file) + 1 .. m /\ out.buf[Table(g)[i]].id = i
  <2>1. CASE i \in DOMAIN own
    <3>1. PICK k \in DOMAIN Listed : i = Listed[k][1]
      BY <1>8, <2>1 DEF Numbers
    <3>2. Listed[k][2] \in Len(file) + 1 .. m /\ out.buf[Listed[k][2]].id = i
      BY <3>1, ListedIs
    <3>3. Table(g)[i] = Listed[k][2]
      BY <1>8, <1>12, <1>14, <2>1, <3>1 DEF Follows
    <3> QED
      BY <3>2, <3>3
  <2>2. CASE i \notin DOMAIN own
    <3>1. i \in DOMAIN old \ DOMAIN own /\ i \in DOMAIN Table(file) /\ i \notin Updated(out)
      BY <1>9, <1>10, <1>12, <1>14, <2>2
    <3> QED
      BY <1>9, <1>12, <1>14, <3>1
  <2> QED
    BY <2>1, <2>2
<1>18. Top(g) = LastId + N
  <2>1. LastId + N \in DOMAIN Table(g)
    BY <1>2, <1>3, <1>12, <1>14
  <2>2. \A i \in DOMAIN Table(g) : i <= LastId + N
    <3>1. \A i \in DOMAIN Table(file) : i \in Nat /\ i <= LastId
      BY <1>2, DocReader
    <3> QED
      BY <1>2, <1>3, <1>12, <1>14, <3>1
  <2>3. DOMAIN Table(g) \in SUBSET (0 .. NewSize) /\ DOMAIN Table(g) # {} /\ NewSize \in Nat
    <3>1. NewSize \in Nat
      BY WrittenShape, Zenon
    <3>2. \A i \in 1 .. NewSize - 1 : i \in 0 .. NewSize
      BY <3>1
    <3> QED
      BY <1>13, <1>14, <2>1, <3>1, <3>2
  <2>4. Top(g) \in DOMAIN Table(g) /\ \A i \in DOMAIN Table(g) : Top(g) >= i
    BY <2>3, MaxDef DEF Top
  <2>5. Top(g) \in Nat
    BY <2>3, <2>4
  <2> QED
    <3>1. LastId + N \in Nat /\ Top(g) >= LastId + N /\ Top(g) <= LastId + N
      BY <1>2, <1>3, <2>1, <2>2, <2>4
    <3> QED
      BY <2>5, <3>1
<1>19. DOMAIN Sections(g)[Start(g)] = DOMAIN Over(own, old)
  BY <1>1, <1>7
<1> QED
  BY <1>12, <1>13, <1>14, <1>15, <1>16, <1>17, <1>18, <1>19 DEF ListsNew, OldOrNew

-----------------------------------------------------------------------------
(* All that an update writes before its section.                           *)
Complete ==
  /\ rdr = Reader(file) /\ Doc(file)
  /\ ids \in [{"signature", "widget", "catalog"} -> Nat] /\ maxLength \in Nat
  /\ job.into \in Names \union {NoName}
  /\ Core(out) /\ Placed(out) /\ HasWidget(out, ids.widget)
  /\ ids.signature = LastId + 1 /\ ids.catalog > LastId
  /\ NewKinds(out, ids.widget, Len(out.buf) - 1)
  /\ Len(out.buf) > Len(file) + 1
  /\ out.buf[Len(out.buf)] = Object(ids.catalog, Catalog(NewFields))

NewWidget == Widget(Cardinality(Existing) + 1, ids.signature)
Fillable == TextFields \union ({job.into} \ {NoName})

(* An object under a new number; a new version of an object.                *)
Fresh(i, v) ==
  \/ v \in {Plain, Signature(maxLength), Catalog(NewFields)}
  \/ i = ids.widget /\ v = NewWidget
Alike(i, v, w) ==
  /\ w.is = v.is
  /\ v.is = "field" =>
       /\ w \in FieldVal /\ w.name = v.name /\ w.parent = v.parent /\ w.title = v.title
       /\ w.mark # v.mark =>
            v.mark = 0 /\ w.mark = ids.signature /\ \E n \in Fillable : n \in Names /\ i = Here(n)

(* What the actions look up is what a reader of the file finds.            *)
LEMMA StateNames ==
  ASSUME rdr = Reader(file)
  PROVE  /\ \A i : Resolve(file, rdr, i) = Found(file, i)
         /\ Fields(file, rdr) = FormOf(file)
         /\ Existing = SigFieldsOf(file)
         /\ \A n : Here(n) = FieldOf(file, n)
<1>1. \A i : Resolve(file, rdr, i) = Found(file, i)
  BY DEF Found
<1>2. Fields(file, rdr) = FormOf(file)
  BY DEF FormOf
<1>3. \A n : Here(n) = FieldOf(file, n)
  BY DEF Here, FieldOf
<1>4. Existing = SigFieldsOf(file)
  BY <1>1, <1>2 DEF Existing, SigFieldsOf
<1> QED
  BY <1>1, <1>2, <1>3, <1>4

(* The widget and the fields of the new catalog.                           *)
LEMMA StateTypes ==
  ASSUME rdr = Reader(file), Doc(file), ids \in [{"signature", "widget", "catalog"} -> Nat]
  PROVE  /\ Cardinality(Existing) + 1 \in Nat /\ ids.signature \in Nat /\ ids.widget \in Nat
         /\ NewWidget \in FieldVal /\ NewWidget.is = "field" /\ NewWidget.name = NoName
         /\ NewWidget.mark = ids.signature /\ NewWidget.title = Cardinality(Existing) + 1
         /\ NewFields \subseteq Nat
<1>1. Cardinality(Existing) + 1 \in Nat /\ ids.signature \in Nat /\ ids.widget \in Nat
  BY StateNames, DocForm
<1>2. NewFields \subseteq Nat
  BY <1>1, StateNames, DocForm DEF NewFields
<1> QED
  BY <1>1, <1>2 DEF NewWidget, Widget, FieldVal

(* An object is a version of itself.                                       *)
LEMMA AlikeItself ==
  ASSUME Doc(file), NEW i \in DOMAIN Table(file)
  PROVE  Alike(i, Found(file, i), Found(file, i))
  BY DocFound, Kinds DEF Alike

(* Each object of an update is new, or a version of one of the document.   *)
LEMMA AppendedKinds ==
  ASSUME Complete, NEW p \in Len(file) + 1 .. Len(out.buf)
  PROVE  /\ out.buf[p].val.is \notin {"xref", "end"}
         /\ \/ out.buf[p].id > LastId /\ Fresh(out.buf[p].id, out.buf[p].val)
            \/ /\ out.buf[p].id \in DOMAIN Table(file)
               /\ out.buf[p].val.is \in {"page", "field"}
               /\ Alike(out.buf[p].id, Found(file, out.buf[p].id), out.buf[p].val)
<1> DEFINE seg == out.buf[p]
<1> USE DEF Complete
<1>1. Len(out.buf) \in Nat /\ Len(file) \in Nat /\ LastId \in Nat
  BY LastIdIs, DocReader DEF Core, Contexts
<1>2. CASE p = Len(file) + 1
  <2>1. seg.id = ids.signature /\ seg.val = Signature(maxLength)
    BY <1>2 DEF Placed, Object
  <2>2. seg.val.is = "signature"
    BY <2>1, Makers
  <2> QED
    BY <1>1, <2>1, <2>2 DEF Fresh
<1>3. CASE p = Len(out.buf)
  <2>1. seg.id = ids.catalog /\ seg.val = Catalog(NewFields)
    BY <1>3 DEF Object
  <2>2. seg.val.is = "catalog"
    BY <2>1 DEF Catalog
  <2> QED
    BY <1>1, <2>1, <2>2 DEF Fresh
<1>4. CASE p \in Len(file) + 2 .. Len(out.buf) - 1
  <2>1. NewKind(seg, ids.widget)
    BY <1>4 DEF NewKinds
  <2>2. CASE seg.id > LastId /\ seg.val = Plain
    BY <2>2, Makers DEF Fresh
  <2>3. CASE seg.id = 2 /\ seg.val \in PageVal
    <3>1. 2 \in DOMAIN Table(file) /\ Found(file, 2).is = "page"
      BY DocForm
    <3>2. seg.val.is = "page"
      BY <2>3 DEF PageVal
    <3> QED
      BY <2>3, <3>1, <3>2 DEF Alike
  <2>4. CASE seg.id = ids.widget /\ ids.widget > LastId /\ seg.val = NewWidget
    <3>1. seg.val.is = "field"
      BY <2>4, StateTypes
    <3> QED
      BY <2>4, <3>1 DEF Fresh
  <2>5. CASE \E n \in Fillable : n \in Names /\ Filled(seg, n)
    <3>1. PICK n \in Fillable : n \in Names /\ Filled(seg, n)
      BY <2>5
    <3>2. /\ seg.id = Here(n) /\ Found(file, seg.id).mark = 0
          /\ seg.val = [Found(file, seg.id) EXCEPT !.mark = ids.signature]
      BY <3>1, StateNames DEF Filled
    <3>3. /\ seg.id \in DOMAIN Table(file) /\ Found(file, seg.id) \in FieldVal
          /\ Found(file, seg.id).is = "field"
      BY <3>1, <3>2, StateNames, DocField
    <3> DEFINE v == Found(file, seg.id)
    <3> HIDE DEF v
    <3>4. /\ seg.val \in FieldVal /\ seg.val.is = "field" /\ seg.val.name = v.name
          /\ seg.val.parent = v.parent /\ seg.val.title = v.title /\ seg.val.mark = ids.signature
      <4>1. v \in FieldVal /\ ids.signature \in Nat /\ seg.val = [v EXCEPT !.mark = ids.signature]
        BY <3>2, <3>3 DEF v
      <4> HIDE DEF seg
      <4> QED
        BY ONLY <4>1 DEF FieldVal
    <3> QED
      BY <3>1, <3>2, <3>3, <3>4 DEF Alike, v
  <2> QED
    BY <2>1, <2>2, <2>3, <2>4, <2>5 DEF NewKind, NewWidget, Fillable
<1> QED
  BY <1>1, <1>2, <1>3, <1>4

-----------------------------------------------------------------------------
(* What a reader finds in the document with its new section.               *)
LEMMA CompleteWritten ==
  ASSUME Complete
  PROVE  /\ rdr = Reader(file) /\ Doc(file) /\ Core(out) /\ ids.catalog \in Nat
         /\ Len(out.new) > 0 /\ Len(out.new) \in Nat
         /\ \A p \in Len(file) + 1 .. Len(out.buf) : out.buf[p].val.is # "xref"
         /\ LastId \in Nat /\ LastId = Top(file) + 1 /\ rdr.table = Table(file)
         /\ Len(file) \in Nat /\ Len(out.buf) \in Nat /\ Len(out.buf) > Len(file) + 1
<1> USE DEF Complete
<1>1. /\ LastId \in Nat /\ LastId = Top(file) + 1 /\ rdr.table = Table(file) /\ Len(file) \in Nat
      /\ Top(file) \in Nat /\ \A i \in DOMAIN Table(file) : i <= Top(file)
  BY LastIdIs, DocReader
<1>2. \A p \in Len(file) + 1 .. Len(out.buf) : out.buf[p].val.is # "xref"
  BY AppendedKinds, Zenon
<1>3. Len(out.new) \in Nat /\ DOMAIN out.new = 1 .. Len(out.new) /\ Len(out.buf) \in Nat
  BY DEF Core, Contexts
<1>4. Len(out.new) > 0
  <2>1. out.buf[Len(file) + 1].id = LastId + 1
    BY DEF Placed, Object
  <2>2. Len(file) + 1 \in Len(file) + 1 .. Len(out.buf)
    BY <1>1, <1>3
  <2>3. \/ \E k \in DOMAIN out.new : out.new[k] = <<LastId + 1, Len(file) + 1>>
        \/ \E k \in DOMAIN out.upd : out.upd[k] = <<LastId + 1, Len(file) + 1>>
    BY <2>1, <2>2 DEF Core
  <2>4. ASSUME NEW k \in DOMAIN out.upd, out.upd[k] = <<LastId + 1, Len(file) + 1>> PROVE FALSE
    <3>1. LastId + 1 \in DOMAIN Table(file)
      BY <1>1, <2>4 DEF Core
    <3>2. LastId + 1 <= Top(file)
      BY <1>1, <3>1
    <3> QED
      BY <1>1, <3>2
  <2>5. PICK k \in DOMAIN out.new : TRUE
    BY <2>3, <2>4
  <2> QED
    BY <1>3, <2>5
<1> QED
  BY <1>1, <1>2, <1>3, <1>4

(* What was in the document is found as it was or in its new version; what *)
(* is new is found too.                                                    *)
LEMMA WrittenFound ==
  ASSUME Complete, NEW sid \in Nat, NEW g, g = WithSection(sid)
  PROVE  /\ \A i \in DOMAIN Table(file) :
              i \in DOMAIN Table(g) /\ Alike(i, Found(file, i), Found(g, i))
         /\ \A i \in DOMAIN Table(g) \ DOMAIN Table(file) : i > LastId /\ Fresh(i, Found(g, i))
         /\ Root(g) \in DOMAIN Table(g) /\ Found(g, Root(g)) = Catalog(NewFields)
         /\ FormOf(g) = NewFields
         /\ ids.widget # 0 => /\ ids.widget > LastId /\ ids.widget \in DOMAIN Table(g)
                              /\ Found(g, ids.widget) = NewWidget
<1> DEFINE m == Len(out.buf)
<1>1. /\ rdr = Reader(file) /\ Doc(file) /\ LastId \in Nat /\ LastId = Top(file) + 1
      /\ Len(file) \in Nat /\ m \in Nat /\ m > Len(file) + 1
  BY CompleteWritten
<1>2. /\ ids.catalog \in Nat /\ Len(out.new) > 0 /\ Core(out)
      /\ \A p \in Len(file) + 1 .. Len(out.buf) : out.buf[p].val.is # "xref"
  BY CompleteWritten
<1>3. Extends(out.buf, g) /\ Extends(file, g)
  BY CompleteWritten, WrittenShape, Zenon
<1>4. \A p \in 1 .. m : g[p] = out.buf[p]
  BY <1>3 DEF Extends
<1>5. \A p \in 1 .. Len(file) : g[p] = file[p]
  BY <1>3 DEF Extends
<1>6. /\ DOMAIN Table(g) = DOMAIN Sections(g)[Start(g)]
      /\ DOMAIN Sections(g)[Start(g)] =
           DOMAIN Table(file) \union LastId + 1 .. LastId + Len(out.new)
  BY ONLY <1>1, <1>2, sid \in Nat, g = WithSection(sid), WrittenTable, Zenon
<1>7. ListsNew(Table(g)) /\ OldOrNew(Table(g))
  BY ONLY <1>1, <1>2, sid \in Nat, g = WithSection(sid), WrittenTable, Zenon
<1>8. \A p \in Len(file) + 1 .. m :
        out.buf[p].id \in DOMAIN Table(g) /\ Table(g)[out.buf[p].id] = p
  BY <1>7 DEF ListsNew
<1>9. ASSUME NEW i \in DOMAIN Table(g)
      PROVE  \/ /\ i \in DOMAIN Table(file) /\ Table(g)[i] = Table(file)[i]
             \/ Table(g)[i] \in Len(file) + 1 .. m /\ out.buf[Table(g)[i]].id = i
  BY <1>7 DEF OldOrNew
<1>10. \A i \in DOMAIN Table(file) : i \in Nat /\ i <= Top(file) /\ Table(file)[i] \in 1 .. Len(file)
  BY <1>1, DocReader, DocFound
<1>11. \A p \in Len(file) + 1 .. m :
         \/ out.buf[p].id > LastId /\ Fresh(out.buf[p].id, out.buf[p].val)
         \/ /\ out.buf[p].id \in DOMAIN Table(file)
            /\ Alike(out.buf[p].id, Found(file, out.buf[p].id), out.buf[p].val)
  BY AppendedKinds
<1>12. \A p \in Len(file) + 1 .. m : p \in 1 .. m
  BY <1>1
<1> HIDE DEF m
<1>13. ASSUME NEW i \in DOMAIN Table(file)
       PROVE  i \in DOMAIN Table(g) /\ Alike(i, Found(file, i), Found(g, i))
  <2>1. i \in DOMAIN Table(g)
    BY <1>6
  <2>2. CASE Table(g)[i] = Table(file)[i]
    <3>1. Found(g, i) = Found(file, i)
      BY <1>5, <1>10, <2>2, FoundIs
    <3> QED
      BY <1>1, <2>1, <3>1, AlikeItself
  <2>3. CASE Table(g)[i] \in Len(file) + 1 .. m /\ out.buf[Table(g)[i]].id = i
    <3> DEFINE p == Table(g)[i]
    <3>1. Found(g, i) = out.buf[p].val /\ out.buf[p].id = i /\ p \in Len(file) + 1 .. m
      BY <1>4, <1>12, <2>3, FoundIs
    <3> HIDE DEF p
    <3>2. ~(i > LastId)
      BY <1>1, <1>10, DocReader
    <3> QED
      BY <1>11, <2>1, <3>1, <3>2
  <2> QED
    BY <1>9, <2>1, <2>2, <2>3
<1>14. ASSUME NEW i \in DOMAIN Table(g) \ DOMAIN Table(file)
       PROVE  i > LastId /\ Fresh(i, Found(g, i))
  <2> DEFINE p == Table(g)[i]
  <2>1. p \in Len(file) + 1 .. m /\ out.buf[p].id = i
    BY <1>9
  <2>2. Found(g, i) = out.buf[p].val
    BY <1>4, <1>12, <2>1, FoundIs
  <2> HIDE DEF p
  <2> QED
    BY <1>11, <2>1, <2>2
<1>15. \A p \in Len(file) + 1 .. m : Found(g, out.buf[p].id) = out.buf[p].val
  BY <1>4, <1>8, <1>12, FoundIs
<1>16. Root(g) \in DOMAIN Table(g) /\ Found(g, Root(g)) = Catalog(NewFields)
  <2>1. Root(g) = ids.catalog
    BY CompleteWritten, WrittenShape, Zenon
  <2>2. out.buf[m].id = ids.catalog /\ out.buf[m].val = Catalog(NewFields)
    BY DEF Complete, Object, m
  <2>3. m \in Len(file) + 1 .. m
    BY <1>1
  <2> QED
    BY <1>8, <1>15, <2>1, <2>2, <2>3
<1>17. FormOf(g) = NewFields
  BY <1>16, FormIs DEF Catalog
<1>18. ASSUME ids.widget # 0
       PROVE  /\ ids.widget > LastId /\ ids.widget \in DOMAIN Table(g)
              /\ Found(g, ids.widget) = NewWidget
  <2>1. PICK p \in Len(file) + 2 .. m : out.buf[p] = Object(ids.widget, NewWidget)
    BY <1>18 DEF Complete, HasWidget, NewWidget, m
  <2>2. p \in Len(file) + 1 .. m /\ out.buf[p].id = ids.widget /\ out.buf[p].val = NewWidget
    BY <1>1, <2>1 DEF Object
  <2>3. ids.widget > LastId
    BY <1>18 DEF Complete, HasWidget
  <2> QED
    BY <1>8, <1>15, <2>2, <2>3
<1> QED
  BY <1>13, <1>14, <1>16, <1>17, <1>18

-----------------------------------------------------------------------------
(* The document with its new section is in order.                          *)
Written(sid, g) ==
  /\ Complete /\ sid \in Nat /\ sid \in {0, LastId + Len(out.new) + 1}
  /\ g = WithSection(sid)

(* The facts about the written document in one place.                      *)
LEMMA WrittenFacts ==
  ASSUME NEW sid, NEW g, Written(sid, g)
  PROVE  /\ rdr = Reader(file) /\ Doc(file) /\ Len(file) \in Nat /\ Len(out.buf) \in Nat
         /\ Len(out.buf) > Len(file) + 1 /\ Len(out.new) \in Nat /\ Len(out.new) > 0
         /\ LastId \in Nat /\ LastId = Top(file) + 1 /\ Top(file) \in Nat
         /\ g \in Seq(Segments) /\ Len(g) = Len(out.buf) + 2 /\ Len(g) \in Nat
         /\ Extends(file, g) /\ Extends(out.buf, g)
         /\ g[Len(out.buf) + 1].id = sid /\ g[Len(out.buf) + 1].val = NewSection
         /\ NewSection.is = "xref"
         /\ g[Len(out.buf) + 2].id = 0 /\ g[Len(out.buf) + 2].val.is = "end"
         /\ Shape(g) /\ Reader(g).size = NewSize
         /\ DOMAIN Sections(g)[Start(g)] = DOMAIN Table(g)
         /\ DOMAIN Table(g) = DOMAIN Table(file) \union LastId + 1 .. LastId + Len(out.new)
         /\ DOMAIN Table(g) \subseteq 1 .. NewSize - 1
         /\ Top(g) = LastId + Len(out.new) /\ Top(g) \in Nat
         /\ ListsNew(Table(g)) /\ OldOrNew(Table(g))
<1> USE DEF Written
<1>1. /\ rdr = Reader(file) /\ Doc(file) /\ Core(out) /\ ids.catalog \in Nat
      /\ Len(out.new) > 0 /\ Len(out.new) \in Nat
      /\ \A p \in Len(file) + 1 .. Len(out.buf) : out.buf[p].val.is # "xref"
      /\ LastId \in Nat /\ LastId = Top(file) + 1 /\ rdr.table = Table(file)
      /\ Len(file) \in Nat /\ Len(out.buf) \in Nat /\ Len(out.buf) > Len(file) + 1
  BY CompleteWritten
<1>2. sid \in Nat /\ g = WithSection(sid)
  OBVIOUS
<1>3. /\ g \in Seq(Segments) /\ Len(g) = Len(out.buf) + 2 /\ Len(g) \in Nat
      /\ Extends(file, g) /\ Extends(out.buf, g)
      /\ g[Len(out.buf) + 1] = Object(sid, NewSection)
      /\ g[Len(out.buf) + 2] = Object(0, End(Len(out.buf) + 1))
      /\ NewSection.is = "xref" /\ Reader(g).size = NewSize
  BY ONLY <1>1, <1>2, WrittenShape, Zenon
<1>4. /\ Shape(g)
      /\ DOMAIN Sections(g)[Start(g)] =
              DOMAIN Table(file) \union LastId + 1 .. LastId + Len(out.new)
      /\ DOMAIN Table(g) = DOMAIN Sections(g)[Start(g)]
      /\ DOMAIN Table(g) \subseteq 1 .. NewSize - 1
      /\ Top(g) = LastId + Len(out.new)
      /\ ListsNew(Table(g)) /\ OldOrNew(Table(g))
  BY ONLY <1>1, <1>2, WrittenTable, Zenon
<1>5. g[Len(out.buf) + 1].id = sid /\ g[Len(out.buf) + 1].val = NewSection
      /\ g[Len(out.buf) + 2].id = 0 /\ g[Len(out.buf) + 2].val.is = "end"
  BY <1>3 DEF Object, End
<1>6. Top(file) \in Nat /\ Top(g) \in Nat
  BY <1>1, <1>4, DocReader
<1> QED
  BY <1>1, <1>3, <1>4, <1>5, <1>6, Zenon

LEMMA WrittenFoundFacts ==
  ASSUME NEW sid, NEW g, Written(sid, g)
  PROVE  /\ \A i \in DOMAIN Table(file) :
              i \in DOMAIN Table(g) /\ Alike(i, Found(file, i), Found(g, i))
         /\ \A i \in DOMAIN Table(g) \ DOMAIN Table(file) : i > LastId /\ Fresh(i, Found(g, i))
         /\ Root(g) \in DOMAIN Table(g) /\ Found(g, Root(g)) = Catalog(NewFields)
         /\ FormOf(g) = NewFields
         /\ ids.widget # 0 => /\ ids.widget > LastId /\ ids.widget \in DOMAIN Table(g)
                              /\ Found(g, ids.widget) = NewWidget
  BY WrittenFound, Zenon DEF Written

(* The segments of the update, by place.                                   *)
LEMMA WrittenPlaces ==
  ASSUME NEW sid, NEW g, Written(sid, g), NEW p \in 1 .. Len(g)
  PROVE  \/ p \in 1 .. Len(file) /\ g[p] = file[p]
         \/ /\ p \in Len(file) + 1 .. Len(out.buf) /\ g[p] = out.buf[p]
            /\ g[p].id \in DOMAIN Table(g) /\ Table(g)[g[p].id] = p
            /\ g[p].val.is \notin {"xref", "end"}
            /\ \/ g[p].id > LastId /\ Fresh(g[p].id, g[p].val)
               \/ /\ g[p].id \in DOMAIN Table(file) /\ g[p].val.is \in {"page", "field"}
                  /\ Alike(g[p].id, Found(file, g[p].id), g[p].val)
         \/ p = Len(out.buf) + 1 /\ g[p].id = sid /\ g[p].val.is = "xref"
         \/ p = Len(out.buf) + 2 /\ g[p].id = 0 /\ g[p].val.is = "end"
<1>1. /\ Len(file) \in Nat /\ Len(out.buf) \in Nat /\ Len(out.buf) > Len(file) + 1
      /\ Len(g) = Len(out.buf) + 2
      /\ Extends(file, g) /\ Extends(out.buf, g)
      /\ g[Len(out.buf) + 1].id = sid /\ g[Len(out.buf) + 1].val = NewSection
      /\ NewSection.is = "xref"
      /\ g[Len(out.buf) + 2].id = 0 /\ g[Len(out.buf) + 2].val.is = "end"
      /\ ListsNew(Table(g))
  BY WrittenFacts, Zenon
<1>2. CASE p \in 1 .. Len(file)
  BY <1>1, <1>2 DEF Extends
<1>3. CASE p \in Len(file) + 1 .. Len(out.buf)
  <2>1. g[p] = out.buf[p]
    BY <1>1, <1>3 DEF Extends
  <2>2. g[p].id \in DOMAIN Table(g) /\ Table(g)[g[p].id] = p
    BY <1>1, <1>3, <2>1 DEF ListsNew
  <2>3. Complete
    BY DEF Written
  <2>4. /\ out.buf[p].val.is \notin {"xref", "end"}
        /\ \/ out.buf[p].id > LastId /\ Fresh(out.buf[p].id, out.buf[p].val)
           \/ /\ out.buf[p].id \in DOMAIN Table(file)
              /\ out.buf[p].val.is \in {"page", "field"}
              /\ Alike(out.buf[p].id, Found(file, out.buf[p].id), out.buf[p].val)
    BY <1>3, <2>3, AppendedKinds, Zenon
  <2> QED
    BY <1>3, <2>1, <2>2, <2>4
<1>4. CASE p = Len(out.buf) + 1
  BY <1>1, <1>4
<1>5. CASE p = Len(out.buf) + 2
  BY <1>1, <1>5
<1> QED
  BY <1>1, <1>2, <1>3, <1>4, <1>5

(* The sections list the newest version of each object again, and ...      *)
LEMMA TabledAfter ==
  ASSUME NEW sid, NEW g, Written(sid, g)
  PROVE  Tabled(g)
<1>1. /\ Len(file) \in Nat /\ Len(out.buf) \in Nat /\ Len(out.buf) > Len(file) + 1
      /\ Len(g) = Len(out.buf) + 2 /\ Reader(g).size = NewSize /\ Doc(file)
      /\ DOMAIN Sections(g)[Start(g)] = DOMAIN Table(g)
      /\ DOMAIN Table(g) \subseteq 1 .. NewSize - 1
      /\ ListsNew(Table(g)) /\ OldOrNew(Table(g))
      /\ LastId \in Nat /\ LastId = Top(file) + 1
  BY WrittenFacts, Zenon
<1>2. \A q \in 1 .. Len(file) : g[q] = file[q]
  <2>1. Extends(file, g)
    BY WrittenFacts, Zenon
  <2> QED
    BY <2>1 DEF Extends
<1>3. \A q \in 1 .. Len(out.buf) : g[q] = out.buf[q]
  <2>1. Extends(out.buf, g)
    BY WrittenFacts, Zenon
  <2> QED
    BY <2>1 DEF Extends
<1>4. ASSUME NEW i \in DOMAIN Table(g)
      PROVE  Table(g)[i] \in 1 .. Len(g) /\ g[Table(g)[i]].id = i
  <2>1. CASE i \in DOMAIN Table(file) /\ Table(g)[i] = Table(file)[i]
    <3>1. Table(file)[i] \in 1 .. Len(file) /\ file[Table(file)[i]].id = i
      BY <1>1, <2>1, DocFound
    <3> QED
      BY <1>1, <1>2, <2>1, <3>1
  <2>2. CASE Table(g)[i] \in Len(file) + 1 .. Len(out.buf) /\ out.buf[Table(g)[i]].id = i
    BY <1>1, <1>3, <2>2
  <2> QED
    BY <1>1, <2>1, <2>2 DEF OldOrNew
<1>5. ASSUME NEW p \in 1 .. Len(g), g[p].id # 0, g[p].val.is # "xref"
      PROVE  g[p].id \in DOMAIN Table(g) /\ Table(g)[g[p].id] >= p
  <2>1. CASE p \in 1 .. Len(file) /\ g[p] = file[p]
    <3>1. file[p].id \in DOMAIN Table(file) /\ Table(file)[file[p].id] >= p
      BY <1>1, <1>5, <2>1 DEF Doc, Tabled
    <3>2. file[p].id \in DOMAIN Table(g)
      BY <3>1, WrittenFoundFacts
    <3>3. \/ Table(g)[file[p].id] = Table(file)[file[p].id]
          \/ Table(g)[file[p].id] \in Len(file) + 1 .. Len(out.buf)
      BY <1>1, <3>2 DEF OldOrNew
    <3> QED
      BY <1>1, <2>1, <3>1, <3>2, <3>3
  <2>2. CASE g[p].id \in DOMAIN Table(g) /\ Table(g)[g[p].id] = p
    BY <2>2
  <2> QED
    BY <1>5, <2>1, <2>2, WrittenPlaces
<1>6. DOMAIN Sections(g)[Start(g)] \subseteq 1 .. Reader(g).size - 1
  BY <1>1
<1> QED
  BY <1>4, <1>5, <1>6 DEF Tabled

(* ... no object has the number of another.                                *)
LEMMA NumberedAfter ==
  ASSUME NEW sid, NEW g, Written(sid, g)
  PROVE  Numbered(g)
<1>1. /\ Len(file) \in Nat /\ Len(out.buf) \in Nat /\ Len(out.buf) > Len(file) + 1
      /\ Len(g) = Len(out.buf) + 2 /\ Doc(file) /\ g \in Seq(Segments)
      /\ LastId \in Nat /\ LastId = Top(file) + 1 /\ Top(g) = LastId + Len(out.new)
      /\ Len(out.new) \in Nat /\ Len(out.new) > 0 /\ Top(g) \in Nat /\ Top(file) \in Nat
  BY WrittenFacts, Zenon
<1>2. sid \in {0, Top(g) + 1} /\ sid \in Nat
  BY <1>1 DEF Written
<1>3. \A i \in DOMAIN Table(g) : i \in Nat /\ i <= Top(g)
  <2>1. DOMAIN Table(g) = DOMAIN Table(file) \union LastId + 1 .. LastId + Len(out.new)
    BY WrittenFacts, Zenon
  <2>2. \A i \in DOMAIN Table(file) : i \in Nat /\ i <= Top(file)
    BY <1>1, DocReader, DocFound
  <2> QED
    BY <1>1, <2>1, <2>2
<1>4. \A p \in 1 .. Len(file) : file[p].id <= LastId /\ file[p].id \in Nat
  BY <1>1, Segment, DocReader DEF Doc, Numbered
<1>5. ASSUME NEW p \in 1 .. Len(g)
      PROVE  /\ g[p].id \in Nat /\ g[p].id <= Top(g) + 1
             /\ p <= Len(out.buf) => g[p].id <= Top(g)
  <2>1. CASE p \in 1 .. Len(file) /\ g[p] = file[p]
    BY <1>1, <1>4, <2>1
  <2>2. CASE p \in Len(file) + 1 .. Len(out.buf) /\ g[p].id \in DOMAIN Table(g)
    BY <1>1, <1>3, <2>2
  <2>3. CASE p = Len(out.buf) + 1 /\ g[p].id = sid
    BY <1>1, <1>2, <2>3
  <2>4. CASE p = Len(out.buf) + 2 /\ g[p].id = 0
    BY <1>1, <2>4
  <2> QED
    BY <2>1, <2>2, <2>3, <2>4, WrittenPlaces
<1>6. ASSUME NEW p \in 1 .. Len(g), NEW q \in 1 .. Len(g), p < q, g[p].id = g[q].id, g[p].id # 0
      PROVE  Versions(g[p].val, g[q].val)
  <2>1. CASE q \in 1 .. Len(file) /\ g[q] = file[q]
    <3>1. p \in 1 .. Len(file) /\ g[p] = file[p]
      <4>1. p \in 1 .. Len(file)
        BY <1>1, <1>6, <2>1
      <4>2. Extends(file, g)
        BY WrittenFacts, Zenon
      <4> QED
        BY <4>1, <4>2 DEF Extends
    <3> QED
      BY <1>1, <1>6, <2>1, <3>1 DEF Doc, Numbered
  <2>2. CASE /\ q \in Len(file) + 1 .. Len(out.buf)
             /\ g[q].id \in DOMAIN Table(g) /\ Table(g)[g[q].id] = q
             /\ \/ g[q].id > LastId /\ Fresh(g[q].id, g[q].val)
                \/ /\ g[q].id \in DOMAIN Table(file) /\ g[q].val.is \in {"page", "field"}
                   /\ Alike(g[q].id, Found(file, g[q].id), g[q].val)
    <3>1. ~(p \in Len(file) + 1 .. Len(out.buf) /\ Table(g)[g[p].id] = p)
      BY <1>1, <1>6, <2>2
    <3>2. p # Len(out.buf) + 1 /\ p # Len(out.buf) + 2
      BY <1>1, <1>6, <2>2
    <3>3. p \in 1 .. Len(file) /\ g[p] = file[p]
      BY <3>1, <3>2, WrittenPlaces
    <3>4. g[p].id <= LastId /\ g[p].id \in Nat
      BY <1>4, <3>3
    <3>5. /\ g[q].id \in DOMAIN Table(file) /\ g[q].val.is \in {"page", "field"}
          /\ Alike(g[q].id, Found(file, g[q].id), g[q].val)
      BY <1>1, <1>6, <2>2, <3>4
    <3> DEFINE i == g[q].id  v == Found(file, i)
    <3>6. i \in DOMAIN Table(file) /\ file[p].id = i /\ Alike(i, v, g[q].val)
      BY <1>6, <3>3, <3>5
    <3>7. \/ g[p].val = v \/ Versions(g[p].val, v) \/ Versions(v, g[p].val)
      BY <1>1, <3>3, <3>6, DocVersions
    <3>8. v.is \in {"page", "field"}
      BY <3>5 DEF Alike
    <3> HIDE DEF i, v
    <3> QED
      BY <3>6, <3>7, <3>8 DEF Alike, Versions
  <2>3. CASE q = Len(out.buf) + 1 /\ g[q].id = sid
    <3>1. p <= Len(out.buf) /\ g[p].id <= Top(g) /\ g[p].id \in Nat
      <4>1. p <= Len(out.buf)
        BY <1>1, <1>6, <2>3
      <4> QED
        BY <1>5, <4>1
    <3>2. g[p].id \in {0, Top(g) + 1}
      BY <1>2, <1>6, <2>3
    <3> QED
      BY <1>1, <1>6, <3>1, <3>2
  <2>4. CASE q = Len(out.buf) + 2 /\ g[q].id = 0
    BY <1>6, <2>4
  <2> QED
    BY <2>1, <2>2, <2>3, <2>4, WrittenPlaces
<1> QED
  BY <1>5, <1>6 DEF Numbered

-----------------------------------------------------------------------------
(* The only new field is the widget.                                       *)
LEMMA FreshField ==
  ASSUME Complete, NEW i, NEW v, Fresh(i, v), v.is = "field"
  PROVE  i = ids.widget /\ v = NewWidget /\ v.name = NoName /\ NoName \notin Names
         /\ v.mark = ids.signature /\ v.title = Cardinality(Existing) + 1
<1>1. v # Plain /\ v # Signature(maxLength) /\ v # Catalog(NewFields)
  BY DEF Plain, Signature, Catalog
<1> QED
  BY <1>1, StateTypes, RevisionAssumption DEF Fresh, Complete

(* The catalog leads to all fields again.                                  *)
LEMMA FormedAfter ==
  ASSUME NEW sid, NEW g, Written(sid, g)
  PROVE  Formed(g)
<1>1. Complete /\ rdr = Reader(file) /\ Doc(file) /\ LastId \in Nat
  BY WrittenFacts DEF Written
<1>2. \A i \in DOMAIN Table(file) :
        i \in DOMAIN Table(g) /\ Alike(i, Found(file, i), Found(g, i))
  BY WrittenFoundFacts
<1>3. \A i \in DOMAIN Table(g) \ DOMAIN Table(file) : i > LastId /\ Fresh(i, Found(g, i))
  BY WrittenFoundFacts
<1>4. /\ Root(g) \in DOMAIN Table(g) /\ Found(g, Root(g)) = Catalog(NewFields)
      /\ FormOf(g) = NewFields
      /\ ids.widget # 0 => ids.widget \in DOMAIN Table(g)
  BY WrittenFoundFacts
<1>5. NewFields = FormOf(file) \union ({ids.widget} \ {0})
  BY <1>1, StateNames DEF NewFields
<1>6. Found(g, Root(g)).is = "catalog"
  BY <1>4 DEF Catalog
<1>7. 2 \in DOMAIN Table(g) /\ Found(g, 2).is = "page"
  BY <1>1, <1>2, DocForm DEF Alike
<1>8. IsFiniteSet(NewFields)
  <2>1. IsFiniteSet({ids.widget} \ {0})
    BY FS_EmptySet, FS_AddElement, FS_Subset, FS_Singleton
  <2> QED
    BY <1>1, <1>5, <2>1, DocForm, FS_Union
<1>9. NewFields \subseteq DOMAIN Table(g)
  BY <1>1, <1>2, <1>4, <1>5, DocForm
<1>10. ASSUME NEW p \in 1 .. Len(g), g[p].val.is = "field"
       PROVE  {g[p].id, g[p].val.parent} \intersect NewFields # {}
  <2>1. CASE p \in 1 .. Len(file) /\ g[p] = file[p]
    <3>1. {file[p].id, file[p].val.parent} \intersect FormOf(file) # {}
      BY <1>1, <1>10, <2>1 DEF Doc, Formed
    <3> QED
      BY <1>5, <2>1, <3>1
  <2>2. CASE g[p].id > LastId /\ Fresh(g[p].id, g[p].val)
    <3>1. g[p].id = ids.widget
      BY <1>1, <1>10, <2>2, FreshField
    <3>2. ids.widget # 0
      BY <1>1, <2>2, <3>1
    <3> QED
      BY <1>5, <3>1, <3>2
  <2>3. CASE g[p].id \in DOMAIN Table(file) /\ Alike(g[p].id, Found(file, g[p].id), g[p].val)
    <3> DEFINE i == g[p].id  q == Table(file)[i]
    <3>1. q \in 1 .. Len(file) /\ file[q].id = i /\ file[q].val = Found(file, i)
      BY <1>1, <2>3, DocFound
    <3>2. Found(file, i).is = "field" /\ g[p].val.parent = Found(file, i).parent
      BY <1>10, <2>3 DEF Alike
    <3> HIDE DEF q
    <3>3. {file[q].id, file[q].val.parent} \intersect FormOf(file) # {}
      BY <1>1, <3>1, <3>2 DEF Doc, Formed
    <3> QED
      BY <1>5, <3>1, <3>2, <3>3
  <2>4. CASE g[p].val.is = "xref" \/ g[p].val.is = "end"
    BY <1>10, <2>4
  <2> QED
    BY <2>1, <2>2, <2>3, <2>4, WrittenPlaces
<1>11. ASSUME NEW n \in Names PROVE \E i \in Reached(g, Reader(g)) : Found(g, i).name = n
  <2> DEFINE c == FieldOf(file, n)
  <2>1. /\ c \in DOMAIN Table(file) /\ Found(file, c).is = "field" /\ Found(file, c).name = n
        /\ {c, Found(file, c).parent} \intersect FormOf(file) # {}
    BY <1>1, DocField
  <2> HIDE DEF c
  <2>2. /\ c \in DOMAIN Table(g) /\ Found(g, c).is = "field" /\ Found(g, c).name = n
        /\ Found(g, c).parent = Found(file, c).parent
    BY <1>2, <2>1 DEF Alike
  <2>3. {c, Found(g, c).parent} \intersect FormOf(g) # {}
    BY <1>4, <1>5, <2>1, <2>2
  <2> QED
    BY <2>2, <2>3, FormIs
<1>12. ASSUME NEW i \in DOMAIN Table(g), Found(g, i).is = "field", Found(g, i).name \in Names
       PROVE  /\ i \in DOMAIN Table(file) /\ Found(file, i).is = "field"
              /\ Found(file, i).name = Found(g, i).name
  <2>1. i \in DOMAIN Table(file)
    BY <1>1, <1>3, <1>12, FreshField
  <2> QED
    BY <1>2, <1>12, <2>1 DEF Alike
<1>13. ASSUME NEW i \in DOMAIN Table(g), NEW j \in DOMAIN Table(g),
              Found(g, i).is = "field", Found(g, j).is = "field",
              Found(g, i).name = Found(g, j).name, Found(g, i).name \in Names
       PROVE  i = j
  <2>1. /\ i \in DOMAIN Table(file) /\ Found(file, i).is = "field"
        /\ Found(file, i).name = Found(g, i).name
    BY <1>12, <1>13
  <2>2. /\ j \in DOMAIN Table(file) /\ Found(file, j).is = "field"
        /\ Found(file, j).name = Found(g, j).name
    BY <1>12, <1>13
  <2> QED
    BY <1>1, <1>13, <2>1, <2>2 DEF Doc, Formed
<1> QED
  BY <1>4, <1>6, <1>7, <1>8, <1>9, <1>10, <1>11, <1>13 DEF Formed

(* The fields, and the signature fields among them, are those there were,   *)
(* and the new one.                                                         *)
LEMMA SigFieldsAfter ==
  ASSUME NEW sid, NEW g, Written(sid, g)
  PROVE  /\ SigFieldsOf(g) = SigFieldsOf(file) \union ({ids.widget} \ {0})
         /\ FieldsOf(g) = FieldsOf(file) \union ({ids.widget} \ {0})
         /\ \A i \in FieldsOf(file) : Found(g, i).title = Found(file, i).title
         /\ ids.widget # 0 => /\ ids.widget \notin FieldsOf(file) \union SigFieldsOf(file)
                              /\ Found(g, ids.widget).title = Cardinality(SigFieldsOf(file)) + 1
<1>1. Complete /\ rdr = Reader(file) /\ Doc(file) /\ LastId \in Nat /\ LastId = Top(file) + 1
  BY WrittenFacts DEF Written
<1>2. \A i \in DOMAIN Table(file) : Alike(i, Found(file, i), Found(g, i))
  BY WrittenFoundFacts
<1>3. FormOf(g) = FormOf(file) \union ({ids.widget} \ {0})
  BY <1>1, StateNames, WrittenFoundFacts DEF NewFields
<1>4. ids.widget # 0 => ids.widget > LastId /\ Found(g, ids.widget) = NewWidget
  BY WrittenFoundFacts
<1>5. ids.widget # 0 => ids.widget \notin DOMAIN Table(file)
  BY <1>1, <1>4, DocReader
<1>6. \A i \in FormOf(file) : i \in DOMAIN Table(file)
  BY <1>1, DocForm
<1>7. \A i \in FormOf(file) : /\ IsSigField(Found(g, i)) <=> IsSigField(Found(file, i))
                              /\ Found(g, i).is = "field" <=> Found(file, i).is = "field"
                              /\ Found(g, i).is = "field" => Found(g, i).title = Found(file, i).title
  BY <1>2, <1>6 DEF IsSigField, Alike
<1>8. ids.widget # 0 => IsSigField(Found(g, ids.widget)) /\ Found(g, ids.widget).is = "field"
  <2>1. NoName \notin TextFields
    BY RevisionAssumption DEF Names
  <2> QED
    BY <1>1, <1>4, <2>1, StateTypes DEF IsSigField, Complete
<1>9. SigFieldsOf(g) = SigFieldsOf(file) \union ({ids.widget} \ {0})
  BY <1>3, <1>7, <1>8 DEF SigFieldsOf
<1>10. FieldsOf(g) = FieldsOf(file) \union ({ids.widget} \ {0})
  BY <1>3, <1>7, <1>8 DEF FieldsOf
<1>11. \A i \in FieldsOf(file) : Found(g, i).title = Found(file, i).title
  BY <1>7 DEF FieldsOf
<1>12. ids.widget # 0 => /\ ids.widget \notin FieldsOf(file) \union SigFieldsOf(file)
                         /\ Found(g, ids.widget).title = Cardinality(SigFieldsOf(file)) + 1
  BY <1>1, <1>4, <1>5, <1>6, StateNames, StateTypes DEF SigFieldsOf, FieldsOf, Complete
<1> QED
  BY <1>9, <1>10, <1>11, <1>12

(* Titles and marks still differ from those to come.                       *)
LEMMA TitledAfter ==
  ASSUME NEW sid, NEW g, Written(sid, g)
  PROVE  Titled(g)
<1>1. /\ Complete /\ rdr = Reader(file) /\ Doc(file) /\ LastId \in Nat /\ LastId = Top(file) + 1
      /\ Top(file) \in Nat /\ Top(g) \in Nat /\ Top(g) > LastId
  BY WrittenFacts DEF Written
<1> DEFINE S == SigFieldsOf(file)  R == SigFieldsOf(g)  w == ids.widget
           A == FieldsOf(file)  B == FieldsOf(g)
<1>2. /\ R = S \union ({w} \ {0}) /\ B = A \union ({w} \ {0})
      /\ \A i \in A : Found(g, i).title = Found(file, i).title
      /\ w # 0 => w \notin A /\ w \notin S /\ Found(g, w).title = Cardinality(S) + 1
  BY SigFieldsAfter
<1>3. IsFiniteSet(S) /\ Cardinality(S) \in Nat
  BY <1>1, DocForm
<1>4. \A i \in A : Found(file, i).title \in Nat
  <2> TAKE i \in A
  <2>1. i \in DOMAIN Table(file) /\ Found(file, i).is = "field"
    BY <1>1, DocForm DEF FieldsOf
  <2>2. Found(file, i) \in FieldVal
    BY <1>1, <2>1, DocFound, Kinds
  <2> QED
    BY <2>2 DEF FieldVal
<1>5. NumberedByCount =>
        /\ \A i \in A : Found(file, i).title <= Cardinality(S)
        /\ \A i, j \in A :
             Found(file, i).title # 0 /\ Found(file, i).title = Found(file, j).title => i = j
  BY <1>1 DEF Doc, Titled, TitlesApart
<1> HIDE DEF S, R, A, B
<1>6. Cardinality(R) = Cardinality(S) + IF w # 0 THEN 1 ELSE 0
  <2>1. CASE w = 0
    <3>1. R = S
      BY <1>2, <2>1
    <3> QED
      BY <1>3, <2>1, <3>1
  <2>2. CASE w # 0
    <3>1. R = S \union {w} /\ w \notin S
      BY <1>2, <2>2
    <3> QED
      BY <1>3, <2>2, <3>1, FS_AddElement
  <2> QED
    BY <2>1, <2>2
<1>7. NumberedByCount => TitlesApart(g)
  <2> SUFFICES ASSUME NumberedByCount PROVE TitlesApart(g)
    OBVIOUS
  <2>1. \A i \in B : Found(g, i).title <= Cardinality(R)
    BY <1>2, <1>3, <1>4, <1>5, <1>6
  <2>2. \A i, j \in B : Found(g, i).title # 0 /\ Found(g, i).title = Found(g, j).title => i = j
    BY <1>2, <1>3, <1>4, <1>5
  <2> QED
    BY <2>1, <2>2 DEF TitlesApart, R, B
<1>8. ASSUME NEW i \in DOMAIN Table(g), Found(g, i).is = "field"
      PROVE  Found(g, i).mark <= Top(g) + 1
  <2>1. ids.signature = LastId + 1
    BY <1>1 DEF Complete
  <2>2. CASE i \in DOMAIN Table(file)
    <3>1. Alike(i, Found(file, i), Found(g, i))
      BY <2>2, WrittenFoundFacts
    <3>2. Found(file, i).is = "field"
      BY <1>8, <3>1 DEF Alike
    <3>3. Found(file, i).mark <= Top(file) + 1
      BY <1>1, <2>2, <3>2 DEF Doc, Titled
    <3>4. Found(file, i) \in FieldVal
      BY <1>1, <2>2, <3>2, DocFound, Kinds
    <3>5. Found(file, i).mark \in Nat
      BY <3>4 DEF FieldVal
    <3>6. Found(g, i).mark = Found(file, i).mark \/ Found(g, i).mark = ids.signature
      BY <3>1, <3>2 DEF Alike
    <3> QED
      BY <1>1, <2>1, <3>3, <3>5, <3>6
  <2>3. CASE i \notin DOMAIN Table(file)
    <3>1. Fresh(i, Found(g, i))
      BY <1>8, <2>3, WrittenFoundFacts
    <3>2. Found(g, i).mark = ids.signature
      BY <1>1, <1>8, <3>1, FreshField
    <3> QED
      BY <1>1, <2>1, <3>2
  <2> QED
    BY <2>2, <2>3
<1> QED
  BY <1>7, <1>8 DEF Titled

(* An update leaves the document in order, ...                             *)
LEMMA DocAfter ==
  ASSUME NEW sid, NEW g, Written(sid, g)
  PROVE  Doc(g)
<1>1. Shape(g)
  BY WrittenFacts
<1> QED
  BY <1>1, TabledAfter, NumberedAfter, FormedAfter, TitledAfter DEF Doc

(* ... and has marked the fields it was to mark, which were empty.         *)
LEMMA MarksAfter ==
  ASSUME NEW sid, NEW g, Written(sid, g)
  PROVE  MarksMade(file, g, ids.signature)
<1>1. Complete /\ rdr = Reader(file) /\ Doc(file) /\ LastId \in Nat /\ LastId = Top(file) + 1
  BY WrittenFacts DEF Written
<1>2. Doc(g)
  BY DocAfter
<1>3. ids.signature > Top(file) + 1
  BY <1>1 DEF Complete
<1>4. ASSUME NEW n \in Names, Mark(g, n) # Mark(file, n)
      PROVE  Mark(file, n) = 0 /\ Mark(g, n) = ids.signature /\ (n \in SigFields => n = job.into)
  <2> DEFINE c == FieldOf(file, n)
  <2>1. /\ c \in DOMAIN Table(file) /\ Found(file, c).is = "field" /\ Found(file, c).name = n
        /\ Mark(file, n) = Found(file, c).mark
    BY <1>1, DocField
  <2>2. c \in DOMAIN Table(g) /\ Alike(c, Found(file, c), Found(g, c))
    BY <2>1, WrittenFoundFacts
  <2>3. c = FieldOf(g, n)
    BY <1>2, <2>1, <2>2, DocField DEF Alike
  <2>4. Mark(g, n) = Found(g, c).mark
    BY <2>3 DEF Mark
  <2>5. /\ Found(file, c).mark = 0 /\ Found(g, c).mark = ids.signature
        /\ \E m \in Fillable : m \in Names /\ c = Here(m)
    BY <1>4, <2>1, <2>2, <2>4 DEF Alike
  <2>6. PICK m \in Fillable : m \in Names /\ c = Here(m)
    BY <2>5
  <2>7. m = n
    BY <1>1, <2>1, <2>6, StateNames, DocField
  <2>8. n \in SigFields => n \notin TextFields
    BY RevisionAssumption
  <2> QED
    BY <2>1, <2>4, <2>5, <2>6, <2>7, <2>8 DEF Fillable
<1> QED
  BY <1>3, <1>4 DEF MarksMade

-----------------------------------------------------------------------------
(* What is written over a signature changes nothing that a reader finds.    *)
SameBut(v, w) == w = v \/ (v.is = "signature" /\ w.is = "signature")
Patched(f, g) ==
  /\ g \in Seq(Segments) /\ Len(g) = Len(f)
  /\ \A p \in 1 .. Len(f) : g[p].id = f[p].id /\ SameBut(f[p].val, g[p].val)

(* Writing over signatures changes nothing a reader looks up, ...          *)
LEMMA PatchedFound ==
  ASSUME NEW f, NEW g, Doc(f), Patched(f, g)
  PROVE  /\ Reader(g) = Reader(f)
         /\ Start(g) = Start(f) /\ Table(g) = Table(f) /\ Root(g) = Root(f) /\ Top(g) = Top(f)
         /\ Sections(g)[Start(g)] = Sections(f)[Start(f)]
         /\ \A i \in DOMAIN Table(f) : SameBut(Found(f, i), Found(g, i))
         /\ FormOf(g) = FormOf(f)
         /\ SigFieldsOf(g) = SigFieldsOf(f)
         /\ Reached(g, Reader(g)) = Reached(f, Reader(f))
<1>1. /\ f \in Seq(Segments) /\ Len(f) \in Nat /\ Len(f) > 1 /\ Start(f) \in 1 .. Len(f)
      /\ f[Len(f)].val.is = "end" /\ f[Start(f)].val.is = "xref" /\ Chained(f)
  BY DocReader DEF Doc, Shape, Chained
<1>2. /\ g \in Seq(Segments) /\ Len(g) = Len(f)
      /\ \A p \in 1 .. Len(f) : g[p].id = f[p].id /\ SameBut(f[p].val, g[p].val)
  BY DEF Patched
<1>3. \A p \in 1 .. Len(f) : f[p].val.is # "signature" => g[p].val = f[p].val
  BY <1>2 DEF SameBut
<1>4. f[Len(f)].val.start = g[Len(g)].val.start
  BY <1>1, <1>2, <1>3
<1>5. Start(g) = Start(f) /\ g[Start(g)].val = f[Start(f)].val
  BY <1>1, <1>3, <1>4, ReaderIs
<1>6. \A p \in 1 .. Len(f) : f[p].val.is = "xref" => Sections(g)[p] = Sections(f)[p]
  <2>1. \A p \in 1 .. Len(f) : f[p].val.is = "xref" => g[p].val = f[p].val
    BY <1>3
  <2>2. Len(f) <= Len(g) /\ Len(g) \in Nat
    BY <1>1, <1>2
  <2> QED
    BY <1>1, <2>1, <2>2, SectionsKept
<1>7. Sections(g)[Start(g)] = Sections(f)[Start(f)]
  BY <1>1, <1>5, <1>6
<1>8. Reader(g) = Reader(f)
  <2>1. g[Len(g)].val.start = Start(f) /\ f[Len(f)].val.start = Start(f)
    BY <1>4, ReaderIs
  <2>2. g[Start(f)].val = f[Start(f)].val /\ Sections(g)[Start(f)] = Sections(f)[Start(f)]
    BY <1>5, <1>7
  <2> QED
    BY <2>1, <2>2, Zenon DEF Reader
<1>9. Table(g) = Table(f) /\ Root(g) = Root(f) /\ Top(g) = Top(f)
  BY <1>8 DEF Table, Root, Top
<1>10. \A i \in DOMAIN Table(f) : SameBut(Found(f, i), Found(g, i))
  BY <1>2, <1>9, DocFound, FoundIs
<1>11. FormOf(g) = FormOf(f)
  <2>1. Root(f) \in DOMAIN Table(f) /\ Found(f, Root(f)).is = "catalog"
    BY DEF Doc, Formed
  <2>2. Found(g, Root(g)) = Found(f, Root(f))
    BY <1>9, <1>10, <2>1 DEF SameBut
  <2> QED
    BY <2>2, FormIs
<1>12. SigFieldsOf(g) = SigFieldsOf(f)
  <2>1. \A i \in FormOf(f) : i \in DOMAIN Table(f)
    BY DocForm
  <2>2. \A i \in FormOf(f) : IsSigField(Found(g, i)) <=> IsSigField(Found(f, i))
    BY <1>10, <2>1 DEF SameBut, IsSigField
  <2> QED
    BY <1>11, <2>2 DEF SigFieldsOf
<1>13. Reached(g, Reader(g)) = Reached(f, Reader(f))
  <2>1. \A i \in DOMAIN Table(f) :
          Found(g, i).is = "field" \/ Found(f, i).is = "field" => Found(g, i) = Found(f, i)
    BY <1>10 DEF SameBut
  <2> QED
    BY <1>9, <1>11, <2>1, FormIs
<1> QED
  BY <1>5, <1>7, <1>8, <1>9, <1>10, <1>11, <1>12, <1>13

(* ... leaves the document in order, ...                                   *)
LEMMA PatchedDoc ==
  ASSUME NEW f, NEW g, Doc(f), Patched(f, g)
  PROVE  Doc(g)
<1>1. /\ f \in Seq(Segments) /\ Len(f) \in Nat /\ Len(f) > 1 /\ Start(f) \in 1 .. Len(f)
      /\ f[Len(f)].val.is = "end" /\ f[Start(f)].val.is = "xref" /\ Chained(f)
      /\ Start(f) = Len(f) - 1
  BY DocReader DEF Doc, Shape, Chained
<1>2. /\ g \in Seq(Segments) /\ Len(g) = Len(f)
      /\ \A p \in 1 .. Len(f) : g[p].id = f[p].id /\ SameBut(f[p].val, g[p].val)
  BY DEF Patched
<1>3. \A p \in 1 .. Len(f) : /\ g[p].val.is = f[p].val.is
                             /\ f[p].val.is # "signature" => g[p].val = f[p].val
  BY <1>2 DEF SameBut
<1>4. /\ Reader(g) = Reader(f)
      /\ Start(g) = Start(f) /\ Table(g) = Table(f) /\ Root(g) = Root(f) /\ Top(g) = Top(f)
      /\ Sections(g)[Start(g)] = Sections(f)[Start(f)]
      /\ FormOf(g) = FormOf(f) /\ SigFieldsOf(g) = SigFieldsOf(f)
      /\ Reached(g, Reader(g)) = Reached(f, Reader(f))
  BY PatchedFound, Zenon
<1>5. \A i \in DOMAIN Table(f) :
        /\ Found(g, i).is = Found(f, i).is
        /\ Found(f, i).is # "signature" => Found(g, i) = Found(f, i)
  BY PatchedFound DEF SameBut
<1>6. Shape(g)
  <2>1. ASSUME NEW p \in 1 .. Len(g), g[p].val.is = "xref", g[p].val.prev # 0
        PROVE  g[p].val.prev \in 1 .. p - 1 /\ g[g[p].val.prev].val.is = "xref"
    <3>1. p \in 1 .. Len(f) /\ g[p].val = f[p].val
      BY <1>2, <1>3, <2>1
    <3>2. f[p].val.prev \in 1 .. p - 1 /\ f[f[p].val.prev].val.is = "xref"
      BY <2>1, <3>1, <1>1 DEF Chained
    <3>3. f[p].val.prev \in 1 .. Len(f)
      BY <1>1, <3>1, <3>2
    <3> QED
      BY <1>3, <3>1, <3>2, <3>3
  <2> QED
    BY <1>1, <1>2, <1>3, <1>4, <2>1 DEF Shape
<1>7. Tabled(g)
  <2>1. Tabled(f)
    BY DEF Doc
  <2>2. \A i \in DOMAIN Table(g) : Table(g)[i] \in 1 .. Len(g) /\ g[Table(g)[i]].id = i
    BY <1>2, <1>4, <2>1 DEF Tabled
  <2>3. \A p \in 1 .. Len(g) : g[p].id # 0 /\ g[p].val.is # "xref" =>
          g[p].id \in DOMAIN Table(g) /\ Table(g)[g[p].id] >= p
    BY <1>2, <1>3, <1>4, <2>1 DEF Tabled
  <2>4. DOMAIN Sections(g)[Start(g)] \subseteq 1 .. Reader(g).size - 1
    BY <1>4, <2>1 DEF Tabled
  <2> QED
    BY <2>2, <2>3, <2>4 DEF Tabled
<1>8. Numbered(g)
  <2>1. Numbered(f)
    BY DEF Doc
  <2>2. ASSUME NEW p \in 1 .. Len(g), NEW q \in 1 .. Len(g), p < q, g[p].id = g[q].id, g[p].id # 0
        PROVE  Versions(g[p].val, g[q].val)
    <3>1. Versions(f[p].val, f[q].val)
      BY <1>2, <2>1, <2>2 DEF Numbered
    <3>2. g[p].val = f[p].val /\ g[q].val = f[q].val
      BY <1>2, <1>3, <3>1 DEF Versions
    <3> QED
      BY <3>1, <3>2
  <2>3. \A p \in 1 .. Len(g) : g[p].id <= Top(g) + 1
    BY <1>2, <1>4, <2>1 DEF Numbered
  <2> QED
    BY <2>2, <2>3 DEF Numbered
<1>9. Formed(g)
  <2>1. Formed(f)
    BY DEF Doc
  <2>2. /\ Root(g) \in DOMAIN Table(g) /\ Found(g, Root(g)).is = "catalog"
        /\ 2 \in DOMAIN Table(g) /\ Found(g, 2).is = "page"
        /\ IsFiniteSet(FormOf(g)) /\ FormOf(g) \subseteq DOMAIN Table(g)
    BY <1>4, <1>5, <2>1 DEF Formed
  <2>3. \A p \in 1 .. Len(g) : g[p].val.is = "field" =>
          {g[p].id, g[p].val.parent} \intersect FormOf(g) # {}
    BY <1>2, <1>3, <1>4, <2>1 DEF Formed
  <2>4. ASSUME NEW n \in Names PROVE \E i \in Reached(g, Reader(g)) : Found(g, i).name = n
    <3>1. PICK i \in Reached(f, Reader(f)) : Found(f, i).name = n
      BY <2>1 DEF Formed
    <3>2. i \in DOMAIN Table(f) /\ Found(f, i).is = "field"
      BY FormIs
    <3>3. Found(g, i) = Found(f, i)
      BY <1>5, <3>2
    <3> QED
      BY <1>4, <3>1, <3>3
  <2>5. ASSUME NEW i \in DOMAIN Table(g), NEW j \in DOMAIN Table(g),
               Found(g, i).is = "field", Found(g, j).is = "field",
               Found(g, i).name = Found(g, j).name, Found(g, i).name \in Names
        PROVE  i = j
    <3>1. Found(g, i) = Found(f, i) /\ Found(g, j) = Found(f, j)
      BY <1>4, <1>5, <2>5
    <3> QED
      BY <1>4, <2>1, <2>5, <3>1 DEF Formed
  <2> QED
    BY <2>2, <2>3, <2>4, <2>5 DEF Formed
<1>10. Titled(g)
  <2>1. Titled(f)
    BY DEF Doc
  <2>2. FieldsOf(g) = FieldsOf(f) /\ \A i \in FieldsOf(f) : Found(g, i) = Found(f, i)
    <3>1. \A i \in FormOf(f) : i \in DOMAIN Table(f)
      BY DocForm
    <3>2. \A i \in FormOf(f) : Found(g, i).is = "field" <=> Found(f, i).is = "field"
      BY <1>5, <3>1
    <3> QED
      BY <1>4, <1>5, <3>1, <3>2 DEF FieldsOf
  <2>3. NumberedByCount => TitlesApart(g)
    BY <1>4, <2>1, <2>2 DEF Titled, TitlesApart
  <2>4. \A i \in DOMAIN Table(g) : Found(g, i).is = "field" => Found(g, i).mark <= Top(g) + 1
    BY <1>4, <1>5, <2>1 DEF Titled
  <2> QED
    BY <2>3, <2>4 DEF Titled
<1> QED
  BY <1>6, <1>7, <1>8, <1>9, <1>10 DEF Doc

(* ... and leaves every mark.                                              *)
LEMMA PatchedMark ==
  ASSUME NEW f, NEW g, Doc(f), Patched(f, g), NEW n \in Names
  PROVE  Mark(g, n) = Mark(f, n)
<1> DEFINE c == FieldOf(f, n)
<1>1. c \in DOMAIN Table(f) /\ Found(f, c).is = "field" /\ Found(f, c).name = n
      /\ Mark(f, n) = Found(f, c).mark
  BY DocField
<1>2. Found(g, c) = Found(f, c)
  <2>1. SameBut(Found(f, c), Found(g, c))
    BY <1>1, PatchedFound
  <2> QED
    BY <1>1, <2>1 DEF SameBut
<1>3. c \in DOMAIN Table(g)
  BY <1>1, PatchedFound
<1>4. c = FieldOf(g, n)
  BY <1>1, <1>2, <1>3, PatchedDoc, DocField
<1> QED
  BY <1>1, <1>2, <1>4 DEF Mark

-----------------------------------------------------------------------------
(* Adding and updating objects.                                            *)
LEMMA Appends ==
  ASSUME NEW T, NEW s \in Seq(T), NEW e \in T
  PROVE  /\ Append(s, e) \in Seq(T) /\ Len(Append(s, e)) = Len(s) + 1
         /\ \A k \in 1 .. Len(s) : Append(s, e)[k] = s[k]
         /\ Append(s, e)[Len(s) + 1] = e
         /\ Extends(s, Append(s, e))
<1>1. /\ Append(s, e) \in Seq(T) /\ Len(Append(s, e)) = Len(s) + 1
      /\ \A k \in 1 .. Len(s) : Append(s, e)[k] = s[k]
      /\ Append(s, e)[Len(s) + 1] = e
  OBVIOUS
<1> QED
  BY <1>1 DEF Extends

Pairs == Nat \X Nat

(* The parts of a context, and how they change one by one.                 *)
LEMMA ContextTypes ==
  ASSUME NEW o \in Contexts
  PROVE  /\ o.buf \in Seq(Segments) /\ o.new \in Seq(Pairs) /\ o.upd \in Seq(Pairs)
         /\ Len(o.buf) \in Nat /\ Len(o.new) \in Nat /\ Len(o.upd) \in Nat
         /\ DOMAIN o.new = 1 .. Len(o.new) /\ DOMAIN o.upd = 1 .. Len(o.upd)
<1> DEFINE B == Seq(Segments)
           P == Seq(Pairs)
<1>1. o \in [buf : B, new : P, upd : P]
  BY DEF Contexts, Pairs
<1> HIDE DEF B, P
<1>2. o.buf \in B /\ o.new \in P /\ o.upd \in P
  BY <1>1
<1>3. o.buf \in Seq(Segments) /\ o.new \in Seq(Pairs) /\ o.upd \in Seq(Pairs)
  BY <1>2 DEF B, P
<1> QED
  BY ONLY <1>3

LEMMA ContextChanges ==
  ASSUME NEW o \in Contexts, NEW b, NEW n
  PROVE  /\ [o EXCEPT !.buf = b, !.new = n] = [buf |-> b, new |-> n, upd |-> o.upd]
         /\ [o EXCEPT !.buf = b, !.upd = n] = [buf |-> b, new |-> o.new, upd |-> n]
         /\ [o EXCEPT !.buf = b] = [buf |-> b, new |-> o.new, upd |-> o.upd]
<1> DEFINE B == Seq(Segments)
           P == Seq(Pairs)
<1>1. o \in [buf : B, new : P, upd : P]
  BY DEF Contexts, Pairs
<1> HIDE DEF B, P
<1>2. [o EXCEPT !.buf = b] = [buf |-> b, new |-> o.new, upd |-> o.upd]
  BY ONLY <1>1
<1>3. [o EXCEPT !.buf = b, !.new = n] = [buf |-> b, new |-> n, upd |-> o.upd]
  <2>1. [o EXCEPT !.buf = b, !.new = n] = [[o EXCEPT !.buf = b] EXCEPT !.new = n]
    BY ONLY <1>1
  <2>2. [[buf |-> b, new |-> o.new, upd |-> o.upd] EXCEPT !.new = n]
          = [buf |-> b, new |-> n, upd |-> o.upd]
    OBVIOUS
  <2> QED
    BY ONLY <1>2, <2>1, <2>2, Zenon
<1>4. [o EXCEPT !.buf = b, !.upd = n] = [buf |-> b, new |-> o.new, upd |-> n]
  <2>1. [o EXCEPT !.buf = b, !.upd = n] = [[o EXCEPT !.buf = b] EXCEPT !.upd = n]
    BY ONLY <1>1
  <2>2. [[buf |-> b, new |-> o.new, upd |-> o.upd] EXCEPT !.upd = n]
          = [buf |-> b, new |-> o.new, upd |-> n]
    OBVIOUS
  <2> QED
    BY ONLY <1>2, <2>1, <2>2, Zenon
<1> QED
  BY <1>2, <1>3, <1>4

(* A new object, a new version of one: the context keeps its type and grows*)
(* by one segment.                                                         *)
LEMMA AddType ==
  ASSUME NEW o \in Contexts, NEW v \in Val, LastId \in Nat
  PROVE  /\ NextId(o) \in Nat /\ NextId(o) = LastId + Len(o.new) + 1 /\ Len(o.buf) \in Nat
         /\ AddObject(o, v) \in Contexts
         /\ AddObject(o, v).buf = Append(o.buf, Object(NextId(o), v))
         /\ AddObject(o, v).new = Append(o.new, <<NextId(o), Len(o.buf) + 1>>)
         /\ AddObject(o, v).upd = o.upd
         /\ Len(AddObject(o, v).buf) = Len(o.buf) + 1
         /\ Extends(o.buf, AddObject(o, v).buf)
         /\ AddObject(o, v).buf[Len(o.buf) + 1] = Object(NextId(o), v)
<1>1. o.buf \in Seq(Segments) /\ o.new \in Seq(Pairs) /\ o.upd \in Seq(Pairs)
      /\ Len(o.buf) \in Nat /\ Len(o.new) \in Nat
  BY ContextTypes
<1>2. NextId(o) \in Nat /\ NextId(o) = LastId + Len(o.new) + 1
  BY <1>1 DEF NextId
<1>3. Object(NextId(o), v) \in Segments
  BY <1>2, Makers
<1>4. <<NextId(o), Len(o.buf) + 1>> \in Pairs
  BY <1>1, <1>2 DEF Pairs
<1>5. /\ AddObject(o, v).buf = Append(o.buf, Object(NextId(o), v))
      /\ AddObject(o, v).new = Append(o.new, <<NextId(o), Len(o.buf) + 1>>)
      /\ AddObject(o, v).upd = o.upd
      /\ AddObject(o, v) = [buf |-> AddObject(o, v).buf, new |-> AddObject(o, v).new,
                            upd |-> AddObject(o, v).upd]
  <2>1. AddObject(o, v) = [buf |-> Append(o.buf, Object(NextId(o), v)),
                           new |-> Append(o.new, <<NextId(o), Len(o.buf) + 1>>), upd |-> o.upd]
    <3> DEFINE b == Append(o.buf, Object(NextId(o), v))
               n == Append(o.new, <<NextId(o), Len(o.buf) + 1>>)
    <3>1. AddObject(o, v) = [o EXCEPT !.buf = b, !.new = n]
      BY DEF AddObject
    <3> HIDE DEF b, n
    <3>2. AddObject(o, v) = [buf |-> b, new |-> n, upd |-> o.upd]
      BY <3>1, ContextChanges, Zenon
    <3> QED
      BY <3>2 DEF b, n
  <2> QED
    BY ONLY <2>1
<1>6. AddObject(o, v).buf \in Seq(Segments) /\ AddObject(o, v).new \in Seq(Pairs)
  BY <1>1, <1>3, <1>4, <1>5, Appends
<1>7. AddObject(o, v) \in Contexts
  BY <1>1, <1>5, <1>6 DEF Contexts, Pairs
<1>8. /\ Len(AddObject(o, v).buf) = Len(o.buf) + 1
      /\ Extends(o.buf, AddObject(o, v).buf)
      /\ AddObject(o, v).buf[Len(o.buf) + 1] = Object(NextId(o), v)
  BY <1>1, <1>3, <1>5, Appends
<1> QED
  BY <1>1, <1>2, <1>5, <1>7, <1>8

LEMMA UpdateType ==
  ASSUME NEW o \in Contexts, NEW v \in Val, NEW i \in Nat
  PROVE  /\ Len(o.buf) \in Nat
         /\ UpdateObject(o, i, v) \in Contexts
         /\ UpdateObject(o, i, v).buf = Append(o.buf, Object(i, v))
         /\ UpdateObject(o, i, v).new = o.new
         /\ UpdateObject(o, i, v).upd = Append(o.upd, <<i, Len(o.buf) + 1>>)
         /\ Len(UpdateObject(o, i, v).buf) = Len(o.buf) + 1
         /\ Extends(o.buf, UpdateObject(o, i, v).buf)
         /\ UpdateObject(o, i, v).buf[Len(o.buf) + 1] = Object(i, v)
<1>1. o.buf \in Seq(Segments) /\ o.new \in Seq(Pairs) /\ o.upd \in Seq(Pairs)
      /\ Len(o.buf) \in Nat
  BY ContextTypes
<1>2. Object(i, v) \in Segments
  BY Makers
<1>3. <<i, Len(o.buf) + 1>> \in Pairs
  BY <1>1 DEF Pairs
<1>4. /\ UpdateObject(o, i, v).buf = Append(o.buf, Object(i, v))
      /\ UpdateObject(o, i, v).upd = Append(o.upd, <<i, Len(o.buf) + 1>>)
      /\ UpdateObject(o, i, v).new = o.new
      /\ UpdateObject(o, i, v) =
           [buf |-> UpdateObject(o, i, v).buf, new |-> UpdateObject(o, i, v).new,
            upd |-> UpdateObject(o, i, v).upd]
  <2>1. UpdateObject(o, i, v) = [buf |-> Append(o.buf, Object(i, v)), new |-> o.new,
                                 upd |-> Append(o.upd, <<i, Len(o.buf) + 1>>)]
    <3> DEFINE b == Append(o.buf, Object(i, v))
               n == Append(o.upd, <<i, Len(o.buf) + 1>>)
    <3>1. UpdateObject(o, i, v) = [o EXCEPT !.buf = b, !.upd = n]
      BY DEF UpdateObject
    <3> HIDE DEF b, n
    <3>2. UpdateObject(o, i, v) = [buf |-> b, new |-> o.new, upd |-> n]
      BY <3>1, ContextChanges, Zenon
    <3> QED
      BY <3>2 DEF b, n
  <2> QED
    BY ONLY <2>1
<1>5. UpdateObject(o, i, v).buf \in Seq(Segments) /\ UpdateObject(o, i, v).upd \in Seq(Pairs)
  BY <1>1, <1>2, <1>3, <1>4, Appends
<1>6. UpdateObject(o, i, v) \in Contexts
  BY <1>1, <1>4, <1>5 DEF Contexts, Pairs
<1>7. /\ Len(UpdateObject(o, i, v).buf) = Len(o.buf) + 1
      /\ Extends(o.buf, UpdateObject(o, i, v).buf)
      /\ UpdateObject(o, i, v).buf[Len(o.buf) + 1] = Object(i, v)
  BY <1>1, <1>2, <1>4, Appends
<1> QED
  BY <1>1, <1>4, <1>6, <1>7

(* What extends an extension extends the first.                            *)
LEMMA ExtendsOn ==
  ASSUME NEW f, NEW g, NEW h, Extends(f, g), Extends(g, h),
         Len(f) \in Nat, Len(g) \in Nat, Len(h) \in Nat
  PROVE  Extends(f, h)
  BY DEF Extends

(* The entries of a context are those of its buffer.                       *)
LEMMA AddCore ==
  ASSUME NEW o, Core(o), NEW v \in Val, LastId \in Nat, Len(file) \in Nat
  PROVE  Core(AddObject(o, v)) /\ Updated(AddObject(o, v)) = Updated(o)
<1> DEFINE a == AddObject(o, v)  m == Len(o.buf)  n == Len(o.new)  id == NextId(o)
<1>1. /\ o \in Contexts /\ m \in Nat /\ n \in Nat /\ id = LastId + n + 1 /\ a \in Contexts
      /\ a.new = Append(o.new, <<id, m + 1>>) /\ a.upd = o.upd
      /\ Len(a.buf) = m + 1 /\ Extends(o.buf, a.buf)
      /\ a.buf[m + 1] = Object(id, v)
  <2>1. o \in Contexts
    BY DEF Core
  <2>2. n \in Nat
    BY <2>1, ContextTypes
  <2> QED
    BY <2>1, <2>2, AddType, Zenon
<1>2. Extends(file, a.buf) /\ m >= Len(file)
  BY <1>1, ExtendsOn DEF Core, Extends
<1>3. /\ o.new \in Seq(Pairs) /\ DOMAIN o.new = 1 .. n /\ <<id, m + 1>> \in Pairs
  <2>1. <<id, m + 1>> \in Nat \X Nat
    BY <1>1
  <2> QED
    BY <1>1, <2>1, ContextTypes DEF Pairs
<1>4. /\ DOMAIN a.new = 1 .. n + 1 /\ a.new[n + 1] = <<id, m + 1>>
      /\ \A k \in 1 .. n : a.new[k] = o.new[k]
  BY <1>1, <1>3, Appends
<1>5. a.buf[m + 1].id = id
  BY <1>1 DEF Object
<1> HIDE DEF a, m, n, id
<1>6. \A p \in 1 .. m : a.buf[p] = o.buf[p]
  BY <1>1 DEF Extends, m
<1>7. /\ m \in Nat /\ n \in Nat /\ m >= Len(file) /\ Len(a.buf) = m + 1
      /\ a.upd = o.upd /\ id = LastId + n + 1
  BY <1>1, <1>2
<1>8. ASSUME NEW k \in DOMAIN a.new
      PROVE  /\ a.new[k][1] = LastId + k /\ a.new[k][2] \in Len(file) + 1 .. Len(a.buf)
             /\ a.buf[a.new[k][2]].id = LastId + k
  <2>1. CASE k = n + 1
    <3>1. a.new[k][1] = LastId + k /\ a.new[k][2] = m + 1 /\ id = LastId + k
      BY <1>7, <1>4, <2>1
    <3>2. m + 1 \in Len(file) + 1 .. Len(a.buf)
      BY <1>7
    <3> QED
      BY <1>5, <3>1, <3>2
  <2>2. CASE k \in 1 .. n
    <3>1. /\ o.new[k][1] = LastId + k /\ o.new[k][2] \in Len(file) + 1 .. m
          /\ o.buf[o.new[k][2]].id = LastId + k
      BY <1>3, <2>2 DEF Core, m
    <3>2. a.new[k] = o.new[k]
      BY <1>4, <2>2
    <3> DEFINE p == o.new[k][2]
    <3>3. p \in 1 .. m /\ p \in Len(file) + 1 .. Len(a.buf)
      BY <1>7, <3>1
    <3>4. a.buf[p] = o.buf[p]
      BY <1>6, <3>3
    <3> QED
      BY <3>1, <3>2, <3>3, <3>4
  <2> QED
    BY <1>7, <1>4, <2>1, <2>2
<1>9. ASSUME NEW k \in DOMAIN a.upd
      PROVE  /\ a.upd[k][1] \in DOMAIN rdr.table /\ a.upd[k][2] \in Len(file) + 1 .. Len(a.buf)
             /\ a.buf[a.upd[k][2]].id = a.upd[k][1]
  <2>1. /\ o.upd[k][1] \in DOMAIN rdr.table /\ o.upd[k][2] \in Len(file) + 1 .. m
        /\ o.buf[o.upd[k][2]].id = o.upd[k][1]
    BY <1>1 DEF Core, m
  <2> DEFINE p == o.upd[k][2]
  <2>2. p \in 1 .. m /\ p \in Len(file) + 1 .. Len(a.buf)
    BY <1>7, <2>1
  <2>3. a.buf[p] = o.buf[p] /\ a.upd[k] = o.upd[k]
    BY <1>7, <1>6, <2>2
  <2> QED
    BY <2>1, <2>2, <2>3
<1>10. \A j, k \in DOMAIN a.upd : a.upd[j][1] = a.upd[k][1] => j = k
  BY <1>1 DEF Core
<1>11. ASSUME NEW p \in Len(file) + 1 .. Len(a.buf)
       PROVE  \/ \E k \in DOMAIN a.new : a.new[k] = <<a.buf[p].id, p>>
              \/ \E k \in DOMAIN a.upd : a.upd[k] = <<a.buf[p].id, p>>
  <2>1. CASE p = m + 1
    <3>1. n + 1 \in DOMAIN a.new
      BY <1>7, <1>4
    <3> QED
      BY <1>4, <1>5, <2>1, <3>1
  <2>2. CASE p \in Len(file) + 1 .. m
    <3>1. a.buf[p] = o.buf[p]
      BY <1>2, <1>6, <2>2
    <3>2. \/ \E k \in DOMAIN o.new : o.new[k] = <<o.buf[p].id, p>>
          \/ \E k \in DOMAIN o.upd : o.upd[k] = <<o.buf[p].id, p>>
      BY <2>2 DEF Core, m
    <3>3. \A k \in DOMAIN o.new : k \in DOMAIN a.new /\ a.new[k] = o.new[k]
      BY <1>7, <1>3, <1>4
    <3> QED
      BY <1>7, <3>1, <3>2, <3>3
  <2> QED
    BY <1>7, <2>1, <2>2
<1>12. Core(a)
  BY <1>1, <1>2, <1>8, <1>9, <1>10, <1>11 DEF Core
<1>13. Updated(a) = Updated(o)
  BY <1>1 DEF Updated
<1> QED
  BY <1>12, <1>13 DEF a

(* So does a new version of an object that has none in this update yet.    *)
LEMMA UpdateCore ==
  ASSUME NEW o, Core(o), NEW v \in Val, NEW i \in Nat, i \in DOMAIN rdr.table, i \notin Updated(o),
         LastId \in Nat, Len(file) \in Nat
  PROVE  Core(UpdateObject(o, i, v)) /\ Updated(UpdateObject(o, i, v)) = Updated(o) \union {i}
<1> DEFINE a == UpdateObject(o, i, v)  m == Len(o.buf)  n == Len(o.upd)
<1>1. /\ o \in Contexts /\ m \in Nat /\ n \in Nat /\ a \in Contexts
      /\ a.upd = Append(o.upd, <<i, m + 1>>) /\ a.new = o.new
      /\ Len(a.buf) = m + 1 /\ Extends(o.buf, a.buf)
      /\ a.buf[m + 1] = Object(i, v)
  <2>1. o \in Contexts
    BY DEF Core
  <2>2. n \in Nat
    BY <2>1, ContextTypes
  <2> QED
    BY <2>1, <2>2, UpdateType, Zenon
<1>2. Extends(file, a.buf) /\ m >= Len(file)
  <2>1. Extends(file, o.buf) /\ Extends(o.buf, a.buf)
    BY <1>1 DEF Core
  <2>2. m >= Len(file) /\ Len(a.buf) \in Nat
    BY <1>1, <2>1 DEF Extends
  <2>3. Extends(file, a.buf)
    BY <1>1, <2>1, <2>2, ExtendsOn
  <2> QED
    BY <2>2, <2>3
<1>3. /\ o.upd \in Seq(Pairs) /\ DOMAIN o.upd = 1 .. n /\ <<i, m + 1>> \in Pairs
  <2>1. <<i, m + 1>> \in Nat \X Nat
    BY <1>1
  <2> QED
    BY <1>1, <2>1, ContextTypes DEF Pairs
<1>4. /\ DOMAIN a.upd = 1 .. n + 1 /\ a.upd[n + 1] = <<i, m + 1>>
      /\ \A k \in 1 .. n : a.upd[k] = o.upd[k]
  BY <1>1, <1>3, Appends
<1>5. a.buf[m + 1].id = i
  BY <1>1 DEF Object
<1> HIDE DEF a, m, n
<1>6. \A p \in 1 .. m : a.buf[p] = o.buf[p]
  BY <1>1 DEF Extends, m
<1>7. /\ m \in Nat /\ n \in Nat /\ m >= Len(file) /\ Len(a.buf) = m + 1
      /\ a.new = o.new
  BY <1>1, <1>2
<1>8. ASSUME NEW k \in DOMAIN a.new
      PROVE  /\ a.new[k][1] = LastId + k /\ a.new[k][2] \in Len(file) + 1 .. Len(a.buf)
             /\ a.buf[a.new[k][2]].id = LastId + k
  <2>1. /\ o.new[k][1] = LastId + k /\ o.new[k][2] \in Len(file) + 1 .. m
        /\ o.buf[o.new[k][2]].id = LastId + k
    BY <1>1 DEF Core, m
  <2> QED
    BY <1>7, <1>6, <2>1
<1>9. ASSUME NEW k \in DOMAIN a.upd
      PROVE  /\ a.upd[k][1] \in DOMAIN rdr.table /\ a.upd[k][2] \in Len(file) + 1 .. Len(a.buf)
             /\ a.buf[a.upd[k][2]].id = a.upd[k][1]
  <2>1. CASE k = n + 1
    BY <1>7, <1>4, <1>5, <2>1
  <2>2. CASE k \in 1 .. n
    <3>1. /\ o.upd[k][1] \in DOMAIN rdr.table /\ o.upd[k][2] \in Len(file) + 1 .. m
          /\ o.buf[o.upd[k][2]].id = o.upd[k][1]
      BY <1>3, <2>2 DEF Core, m
    <3>2. a.upd[k] = o.upd[k]
      BY <1>4, <2>2
    <3> DEFINE p == o.upd[k][2]
    <3>3. p \in 1 .. m /\ p \in Len(file) + 1 .. Len(a.buf)
      BY <1>7, <3>1
    <3>4. a.buf[p] = o.buf[p]
      BY <1>6, <3>3
    <3> QED
      BY <3>1, <3>2, <3>3, <3>4
  <2> QED
    BY <1>7, <1>4, <2>1, <2>2
<1>10. \A j, k \in DOMAIN a.upd : a.upd[j][1] = a.upd[k][1] => j = k
  <2>1. \A j, k \in 1 .. n : o.upd[j][1] = o.upd[k][1] => j = k
    BY <1>3 DEF Core
  <2>2. \A k \in 1 .. n : o.upd[k][1] # i
    BY <1>3 DEF Updated
  <2> SUFFICES ASSUME NEW j \in 1 .. n + 1, NEW k \in 1 .. n + 1, a.upd[j][1] = a.upd[k][1]
               PROVE  j = k
    BY <1>4
  <2>3. a.upd[n + 1][1] = i
    BY <1>4
  <2>4. CASE j \in 1 .. n /\ k \in 1 .. n
    BY <1>4, <2>1, <2>4
  <2>5. CASE j \in 1 .. n /\ k = n + 1
    BY <1>4, <2>2, <2>3, <2>5
  <2>6. CASE j = n + 1 /\ k \in 1 .. n
    BY <1>4, <2>2, <2>3, <2>6
  <2> QED
    BY <1>7, <2>4, <2>5, <2>6
<1>11. ASSUME NEW p \in Len(file) + 1 .. Len(a.buf)
       PROVE  \/ \E k \in DOMAIN a.new : a.new[k] = <<a.buf[p].id, p>>
              \/ \E k \in DOMAIN a.upd : a.upd[k] = <<a.buf[p].id, p>>
  <2>1. CASE p = m + 1
    <3>1. n + 1 \in DOMAIN a.upd
      BY <1>7, <1>4
    <3> QED
      BY <1>4, <1>5, <2>1, <3>1
  <2>2. CASE p \in Len(file) + 1 .. m
    <3>1. a.buf[p] = o.buf[p]
      BY <1>2, <1>6, <2>2
    <3>2. \/ \E k \in DOMAIN o.new : o.new[k] = <<o.buf[p].id, p>>
          \/ \E k \in DOMAIN o.upd : o.upd[k] = <<o.buf[p].id, p>>
      BY <2>2 DEF Core, m
    <3>3. \A k \in DOMAIN o.upd : k \in DOMAIN a.upd /\ a.upd[k] = o.upd[k]
      BY <1>7, <1>3, <1>4
    <3> QED
      BY <1>7, <3>1, <3>2, <3>3
  <2> QED
    BY <1>7, <2>1, <2>2
<1>12. Core(a)
  BY <1>1, <1>2, <1>8, <1>9, <1>10, <1>11 DEF Core
<1>13. Updated(a) = Updated(o) \union {i}
  <2>1. \A k \in DOMAIN a.upd : a.upd[k][1] \in Updated(o) \union {i}
    BY <1>1, <1>3, <1>4 DEF Updated
  <2>2. \A k \in DOMAIN o.upd : k \in DOMAIN a.upd /\ o.upd[k][1] = a.upd[k][1]
    BY <1>1, <1>3, <1>4
  <2>3. n + 1 \in DOMAIN a.upd /\ a.upd[n + 1][1] = i
    BY <1>1, <1>4
  <2> QED
    BY <2>1, <2>2, <2>3 DEF Updated
<1> QED
  BY <1>12, <1>13 DEF a

-----------------------------------------------------------------------------
(* A document nobody has signed is in order.                               *)
Leads(n, order) == {k + 3 : k \in {j \in 1 .. n : order[j] \notin Nested}} \union {3}
Lists(last) == [k \in 1 .. last |-> <<k, k>>]
BlankField(order, k) == Field(order[k], IF order[k] \in Nested THEN 3 ELSE 0)

Arranged(n, order) ==
  /\ n \in Nat /\ order \in [1 .. n -> Names]
  /\ \A x \in Names : \E k \in 1 .. n : order[k] = x
  /\ \A j, k \in 1 .. n : order[j] = order[k] => j = k

BlankFile(f, n, order, last, spare) ==
  /\ Arranged(n, order) /\ spare \in Nat /\ last \in {n + 3, n + 4}
  /\ f \in Seq(Segments) /\ Len(f) = n + 5
  /\ f[1] = Object(1, Catalog(Leads(n, order))) /\ f[2] = Object(2, Page({}))
  /\ f[3] = Object(3, Plain)
  /\ \A k \in 1 .. n : f[k + 3] = Object(k + 3, BlankField(order, k))
  /\ f[n + 4] = Object(IF last = n + 4 THEN last ELSE 0, Xref(Lists(last), 0, 1, last + 1 + spare))
  /\ f[n + 5] = Object(0, End(n + 4))

(* SetToSeq puts each name of the form in one place.                       *)
LEMMA Arrangement ==
  /\ Arranged(Len(SetToSeq(Names)), SetToSeq(Names))
  /\ SetToSeq(Names) \in [1 .. Len(SetToSeq(Names)) -> Names]
<1> DEFINE c == Cardinality(Names)  F == SetToSeq(Names)
<1>1. IsFiniteSet(Names)
  BY RevisionAssumption
<1>2. c \in Nat /\ ExistsBijection(1 .. c, Names)
  BY <1>1, FS_CardinalityType
<1>3. \E h \in [1 .. c -> Names] : IsInjective(h)
  BY <1>2 DEF ExistsBijection, Bijection, Injection
<1>4. F \in [1 .. c -> Names] /\ IsInjective(F)
  BY <1>3 DEF SetToSeq
<1> HIDE DEF F, c
<1>5. F \in Injection(1 .. c, Names)
  BY <1>4 DEF Injection
<1>6. Cardinality(1 .. c) = c
  BY <1>2, FS_Interval
<1>7. F \in Surjection(1 .. c, Names)
  BY <1>1, <1>5, <1>6, FS_Injection DEF c
<1>8. \A x \in Names : \E k \in 1 .. c : F[k] = x
  BY <1>7 DEF Surjection
<1>9. \A j, k \in 1 .. c : F[j] = F[k] => j = k
  BY <1>4 DEF IsInjective
<1>10. Len(F) = c
  BY <1>2, <1>4
<1> QED
  BY <1>2, <1>4, <1>8, <1>9, <1>10 DEF Arranged, F

(* The fields of a blank document.                                         *)
LEMMA BlankFieldIs ==
  ASSUME NEW n, NEW order, Arranged(n, order), NEW k \in 1 .. n
  PROVE  /\ BlankField(order, k) \in Val /\ BlankField(order, k).is = "field"
         /\ BlankField(order, k).name = order[k] /\ order[k] \in Names
         /\ BlankField(order, k).title = OwnTitle[order[k]] /\ BlankField(order, k).mark = 0
         /\ k + 3 \in Leads(n, order) \/ BlankField(order, k).parent = 3
<1>1. order[k] \in Names /\ n \in Nat
  BY DEF Arranged
<1>2. BlankField(order, k) \in Val /\ BlankField(order, k).is = "field"
  BY <1>1, Makers DEF BlankField
<1>3. order[k] \notin Nested => k + 3 \in Leads(n, order)
  BY DEF Leads
<1> QED
  BY <1>1, <1>2, <1>3 DEF BlankField, Field

(* Unsigned makes a blank document.                                        *)
LEMMA UnsignedIs ==
  ASSUME NEW type \in XrefTypes, NEW spare \in 0 .. 1
  PROVE  \E n, order, last : BlankFile(Unsigned(type, spare), n, order, last, spare)
<1> DEFINE order == SetToSeq(Names)
           n == Len(order)
           form == [k \in 1 .. n |-> Object(k + 3, BlankField(order, k))]
           top == Leads(n, order)
           head == <<Object(1, Catalog(top)), Object(2, Page({})), Object(3, Plain)>>
           body == head \o form
           last == Len(body) + IF type = "stream" THEN 1 ELSE 0
           section == Xref(Lists(last), 0, 1, last + 1 + spare)
           start == Len(body) + 1
           tail == <<Object(IF type = "stream" THEN last ELSE 0, section), Object(0, End(start))>>
           f == body \o tail
<1>1. Unsigned(type, spare) = f
  BY DEF Unsigned, BlankField, Leads, Lists
<1>2. Arranged(n, order) /\ n \in Nat
  BY Arrangement DEF Arranged
<1>3. head \in Seq(Segments) /\ Len(head) = 3 /\ head[1] = Object(1, Catalog(top))
      /\ head[2] = Object(2, Page({})) /\ head[3] = Object(3, Plain)
  <2>1. top \in SUBSET Nat
    BY <1>2 DEF Leads
  <2>2. /\ Object(1, Catalog(top)) \in Segments /\ Object(2, Page({})) \in Segments
        /\ Object(3, Plain) \in Segments
    <3> HIDE DEF top
    <3> QED BY <2>1, Makers
  <2> HIDE DEF top
  <2> QED
    BY <2>2
<1>4. form \in Seq(Segments) /\ Len(form) = n
  <2>1. \A k \in 1 .. n : Object(k + 3, BlankField(order, k)) \in Segments
    <3> TAKE k \in 1 .. n
    <3>1. BlankField(order, k) \in Val /\ k + 3 \in Nat
      BY <1>2, BlankFieldIs
    <3> QED
      BY <3>1, Makers
  <2>2. form \in [1 .. n -> Segments]
    BY <2>1
  <2> HIDE DEF n, form
  <2> QED
    BY <1>2, <2>2
<1>5. \A k \in 1 .. n : form[k] = Object(k + 3, BlankField(order, k))
  OBVIOUS
<1> HIDE DEF form, head, top, n, order
<1>6. /\ body \in Seq(Segments) /\ Len(body) = n + 3
      /\ \A k \in 1 .. 3 : body[k] = head[k]
      /\ \A k \in 1 .. n : body[3 + k] = form[k]
  <2>1. head \in Seq(Segments) /\ form \in Seq(Segments)
    BY <1>3, <1>4
  <2>2. /\ body \in Seq(Segments) /\ Len(body) = Len(head) + Len(form)
        /\ \A k \in 1 .. Len(head) : body[k] = head[k]
        /\ \A k \in 1 .. Len(form) : body[Len(head) + k] = form[k]
    BY ONLY <2>1, Concat
  <2> HIDE DEF body
  <2>3. Len(head) = 3 /\ Len(form) = n /\ n \in Nat
    BY <1>2, <1>3, <1>4
  <2> QED
    BY ONLY <2>2, <2>3
<1> HIDE DEF body
<1>7. last \in {n + 3, n + 4} /\ last \in Nat /\ start = n + 4 /\ (last = n + 4 <=> type = "stream")
  BY <1>2, <1>6
<1> HIDE DEF last
<1>8. section \in Val
  <2>1. Lists(last) \in Seq(Nat \X Nat)
    <3>1. \A k \in 1 .. last : <<k, k>> \in Nat \X Nat
      BY <1>7
    <3>2. Lists(last) \in [1 .. last -> Nat \X Nat]
      BY <3>1 DEF Lists
    <3> QED
      BY <1>7, <3>2
  <2>2. last + 1 + spare \in Nat
    BY <1>7
  <2>3. \A es \in Seq(Nat \X Nat) : \A a, b, c \in Nat : Xref(es, a, b, c) \in Val
    BY Makers
  <2> QED
    BY <2>1, <2>2, <2>3
<1> HIDE DEF section
<1>9. tail \in Seq(Segments) /\ Len(tail) = 2
      /\ tail[1] = Object(IF last = n + 4 THEN last ELSE 0, section)
      /\ tail[2] = Object(0, End(start))
  <2>1. Object(IF type = "stream" THEN last ELSE 0, section) \in Segments
    BY <1>7, <1>8, Makers
  <2>2. Object(0, End(start)) \in Segments
    <3>1. start \in Nat
      BY <1>2, <1>7
    <3> HIDE DEF start
    <3> QED BY <3>1, Makers
  <2> QED
    BY <1>7, <2>1, <2>2
<1> HIDE DEF tail, start
<1>10. /\ f \in Seq(Segments) /\ Len(f) = n + 5
       /\ \A k \in 1 .. n + 3 : f[k] = body[k]
       /\ f[n + 3 + 1] = tail[1] /\ f[n + 3 + 2] = tail[2]
  <2>1. /\ f \in Seq(Segments) /\ Len(f) = Len(body) + Len(tail)
        /\ \A k \in 1 .. Len(body) : f[k] = body[k]
        /\ \A k \in 1 .. Len(tail) : f[Len(body) + k] = tail[k]
    <3>1. body \in Seq(Segments) /\ tail \in Seq(Segments)
      BY <1>6, <1>9
    <3> QED
      BY ONLY <3>1, Concat
  <2>2. f[Len(body) + 1] = tail[1] /\ f[Len(body) + 2] = tail[2]
    BY <1>9, <2>1
  <2> HIDE DEF f
  <2>3. Len(body) = n + 3 /\ Len(tail) = 2 /\ n \in Nat
    BY <1>2, <1>6, <1>9
  <2>4. n + 3 + 2 = n + 5
    BY <2>3
  <2> QED
    BY ONLY <2>1, <2>2, <2>3, <2>4
<1> HIDE DEF f
<1>11. f[1] = head[1] /\ f[2] = head[2] /\ f[3] = head[3]
  <2>1. \A k \in 1 .. 3 : k \in 1 .. n + 3
    BY <1>2
  <2> QED
    BY <1>6, <1>10, <2>1
<1>12. \A k \in 1 .. n : f[k + 3] = form[k]
  <2> TAKE k \in 1 .. n
  <2>1. k + 3 \in 1 .. n + 3 /\ k + 3 = 3 + k
    BY <1>2
  <2> QED
    BY <1>6, <1>10, <2>1
<1>13. n + 3 + 1 = n + 4 /\ n + 3 + 2 = n + 5
  BY <1>2
<1>14. BlankFile(f, n, order, last, spare)
  BY <1>2, <1>3, <1>5, <1>7, <1>9, <1>10, <1>11, <1>12, <1>13 DEF BlankFile, top, section
<1> QED
  BY <1>1, <1>14

-----------------------------------------------------------------------------
(* What stands where in a blank document, ...                              *)
LEMMA BlankPlaces ==
  ASSUME NEW f, NEW n, NEW order, NEW last, NEW spare, BlankFile(f, n, order, last, spare)
  PROVE  /\ n \in Nat /\ last \in Nat /\ spare \in Nat /\ last \in {n + 3, n + 4}
         /\ f \in Seq(Segments) /\ Len(f) = n + 5 /\ Len(f) \in Nat
         /\ f[1].id = 1 /\ f[1].val = Catalog(Leads(n, order)) /\ f[1].val.is = "catalog"
         /\ f[2].id = 2 /\ f[2].val.is = "page"
         /\ f[3].id = 3 /\ f[3].val.is = "plain"
         /\ f[n + 4].val = Xref(Lists(last), 0, 1, last + 1 + spare)
         /\ f[n + 4].val.is = "xref" /\ f[n + 4].val.prev = 0
         /\ f[n + 4].id = IF last = n + 4 THEN n + 4 ELSE 0
         /\ f[n + 5].id = 0 /\ f[n + 5].val.is = "end" /\ f[n + 5].val.start = n + 4
<1>1. /\ n \in Nat /\ last \in Nat /\ spare \in Nat /\ last \in {n + 3, n + 4}
      /\ f \in Seq(Segments) /\ Len(f) = n + 5 /\ Len(f) \in Nat
  BY DEF BlankFile, Arranged
<1>2. /\ f[1].id = 1 /\ f[1].val = Catalog(Leads(n, order)) /\ f[1].val.is = "catalog"
      /\ f[2].id = 2 /\ f[2].val.is = "page"
      /\ f[3].id = 3 /\ f[3].val.is = "plain"
  BY DEF BlankFile, Object, Catalog, Page, Plain
<1>3. /\ f[n + 4].val = Xref(Lists(last), 0, 1, last + 1 + spare)
      /\ f[n + 4].val.is = "xref" /\ f[n + 4].val.prev = 0
      /\ f[n + 4].id = IF last = n + 4 THEN n + 4 ELSE 0
      /\ f[n + 5].id = 0 /\ f[n + 5].val.is = "end" /\ f[n + 5].val.start = n + 4
  BY DEF BlankFile, Object, Xref, End
<1> QED
  BY <1>1, <1>2, <1>3

LEMMA BlankFields ==
  ASSUME NEW f, NEW n, NEW order, NEW last, NEW spare, BlankFile(f, n, order, last, spare),
         NEW p \in 4 .. n + 3
  PROVE  /\ p - 3 \in 1 .. n /\ f[p].id = p
         /\ f[p].val.is = "field" /\ f[p].val.title = OwnTitle[order[p - 3]] /\ f[p].val.mark = 0
         /\ f[p].val.name = order[p - 3] /\ order[p - 3] \in Names
         /\ p \in Leads(n, order) \/ f[p].val.parent = 3
<1> DEFINE k == p - 3
<1>1. k \in 1 .. n /\ p = k + 3
  BY DEF BlankFile, Arranged
<1> HIDE DEF k
<1>2. f[k + 3] = Object(k + 3, BlankField(order, k)) /\ Arranged(n, order)
  BY <1>1 DEF BlankFile
<1>3. f[p].id = p /\ f[p].val = BlankField(order, k)
  BY <1>1, <1>2 DEF Object
<1>4. /\ BlankField(order, k).is = "field"
      /\ BlankField(order, k).name = order[k] /\ order[k] \in Names
      /\ BlankField(order, k).title = OwnTitle[order[k]] /\ BlankField(order, k).mark = 0
      /\ k + 3 \in Leads(n, order) \/ BlankField(order, k).parent = 3
  BY <1>1, <1>2, BlankFieldIs
<1> QED
  BY <1>1, <1>3, <1>4 DEF k

(* ... what its reader finds, ...                                          *)
LEMMA BlankReader ==
  ASSUME NEW f, NEW n, NEW order, NEW last, NEW spare, BlankFile(f, n, order, last, spare)
  PROVE  /\ Start(f) = n + 4 /\ Root(f) = 1 /\ Reader(f).size = last + 1 + spare
         /\ DOMAIN Sections(f)[Start(f)] = 1 .. last
         /\ DOMAIN Table(f) = 1 .. last
         /\ \A i \in 1 .. last : Table(f)[i] = i /\ Found(f, i) = f[i].val
         /\ FormOf(f) = Leads(n, order)
         /\ Top(f) = last
<1> DEFINE x == Xref(Lists(last), 0, 1, last + 1 + spare)
<1>1. /\ n \in Nat /\ last \in Nat /\ spare \in Nat /\ last \in {n + 3, n + 4}
      /\ Len(f) = n + 5 /\ Len(f) \in Nat /\ f[n + 4].val = x /\ f[n + 5].val.start = n + 4
      /\ f[1].val = Catalog(Leads(n, order))
  BY BlankPlaces
<1>2. x.entries = Lists(last) /\ x.prev = 0 /\ x.root = 1 /\ x.size = last + 1 + spare
  BY DEF Xref
<1> HIDE DEF x
<1>3. Start(f) = n + 4 /\ Root(f) = 1 /\ Reader(f).size = last + 1 + spare
  <2>1. Start(f) = n + 4
    BY <1>1, ReaderIs
  <2> QED
    BY <1>1, <1>2, <2>1, ReaderIs
<1>4. Sections(f)[n + 4] = Own(x)
  <2>1. n + 4 \in 1 .. Len(f) /\ 0 \notin 1 .. (n + 4) - 1
    BY <1>1
  <2>2. Sections(f)[n + 4] = Step(f, Sections(f), n + 4)
    BY <1>1, <2>1, SectionsDef
  <2> QED
    BY <1>1, <1>2, <2>1, <2>2 DEF Step
<1>5. /\ Lists(last) \in Seq(Nat \X Nat) /\ DOMAIN Lists(last) = 1 .. last
      /\ \A k \in 1 .. last : Lists(last)[k] = <<k, k>>
  <2>1. \A k \in 1 .. last : <<k, k>> \in Nat \X Nat
    BY <1>1
  <2>2. Lists(last) \in [1 .. last -> Nat \X Nat]
    BY <2>1 DEF Lists
  <2> QED
    BY <1>1, <2>2 DEF Lists
<1>6. Distinct(Lists(last)) /\ Numbers(Lists(last)) = 1 .. last
  <2>1. \A k \in 1 .. last : Lists(last)[k][1] = k
    BY <1>5
  <2> QED
    BY <1>5, <2>1 DEF Distinct, Numbers
<1>7. DOMAIN Own(x) = 1 .. last /\ Follows(Own(x), Lists(last))
  BY <1>2, <1>5, <1>6, OwnAt
<1>8. \A k \in 1 .. last : Own(x)[k] = k
  <2> TAKE k \in 1 .. last
  <2>1. Lists(last)[k][1] = k /\ Lists(last)[k][2] = k
    BY <1>5
  <2> QED
    BY <1>5, <1>7, <2>1 DEF Follows
<1>9. DOMAIN Table(f) = 1 .. last
  <2>1. DOMAIN Table(f) = {j \in 1 .. last : j < last + 1 + spare}
    BY <1>3, <1>4, <1>7, ReaderIs
  <2> QED
    BY <1>1, <2>1
<1>10. \A i \in 1 .. last : Table(f)[i] = i
  <2>1. \A i \in DOMAIN Table(f) : Table(f)[i] = Own(x)[i]
    <3>1. Sections(f)[Start(f)] = Own(x)
      BY <1>3, <1>4
    <3>2. \A i \in DOMAIN Table(f) : Table(f)[i] = Sections(f)[Start(f)][i]
      BY ReaderIs
    <3> QED
      BY ONLY <3>1, <3>2
  <2> QED
    BY <1>8, <1>9, <2>1
<1>11. \A i \in 1 .. last : Found(f, i) = f[i].val
  BY <1>10, FoundIs
<1>12. FormOf(f) = Leads(n, order)
  <2>1. 1 \in 1 .. last
    BY <1>1
  <2>2. Found(f, 1) = Catalog(Leads(n, order))
    BY <1>1, <1>11, <2>1
  <2> QED
    BY <1>3, <2>2, FormIs DEF Catalog
<1>13. Top(f) = last
  <2>1. last \in 1 .. last
    BY <1>1
  <2>2. 1 .. last \in SUBSET (0 .. last) /\ 1 .. last # {} /\ last \in 1 .. last
    <3>1. \A k \in 1 .. last : k \in 0 .. last
      BY <1>1
    <3> QED
      BY <2>1, <3>1
  <2>3. Max(1 .. last) \in 1 .. last /\ \A k \in 1 .. last : Max(1 .. last) >= k
    BY <1>1, <2>2, MaxDef
  <2>4. Top(f) = Max(1 .. last)
    BY <1>9 DEF Top
  <2> QED
    BY <1>1, <2>2, <2>3, <2>4
<1> QED
  BY <1>3, <1>4, <1>7, <1>9, <1>10, <1>11, <1>12, <1>13

(* ... that its fields have titles of their own, none of which a new field  *)
(* will get if the form numbers its fields by their count, ...              *)
LEMMA BlankTitles ==
  ASSUME NEW f, NEW n, NEW order, NEW last, NEW spare, BlankFile(f, n, order, last, spare),
         NumberedByCount, IsFiniteSet(FormOf(f))
  PROVE  TitlesApart(f)
<1> DEFINE S == SigFieldsOf(f)  T == SigFields \ Nested
<1>1. /\ n \in Nat /\ last \in Nat /\ last \in {n + 3, n + 4}
      /\ FormOf(f) = Leads(n, order)
      /\ \A i \in 1 .. last : Found(f, i) = f[i].val
  <2>1. n \in Nat /\ last \in Nat /\ last \in {n + 3, n + 4}
    BY BlankPlaces
  <2>2. /\ Start(f) = n + 4 /\ Root(f) = 1 /\ Reader(f).size = last + 1 + spare
        /\ DOMAIN Sections(f)[Start(f)] = 1 .. last
        /\ DOMAIN Table(f) = 1 .. last
        /\ \A i \in 1 .. last : Table(f)[i] = i /\ Found(f, i) = f[i].val
        /\ FormOf(f) = Leads(n, order)
        /\ Top(f) = last
    BY BlankReader, Zenon
  <2> QED
    BY <2>1, <2>2
<1>2. f[3].val.is = "plain"
  BY BlankPlaces
<1>3. \A p \in 4 .. n + 3 :
        /\ p - 3 \in 1 .. n /\ f[p].val.is = "field" /\ f[p].val.title = OwnTitle[order[p - 3]]
        /\ f[p].val.name = order[p - 3] /\ order[p - 3] \in Names
  <2> TAKE p \in 4 .. n + 3
  <2> QED
    BY BlankFields
<1>4. /\ \A x \in Names : \E k \in 1 .. n : order[k] = x
      /\ \A j, k \in 1 .. n : order[j] = order[k] => j = k
  BY DEF BlankFile, Arranged
<1>5. \A i \in FormOf(f) : i = 3 \/ (i \in 4 .. n + 3 /\ order[i - 3] \notin Nested)
  BY <1>1 DEF Leads
<1>6. \A p \in 4 .. n + 3 : Found(f, p) = f[p].val
  BY <1>1
<1>7. Found(f, 3).is = "plain"
  BY <1>1, <1>2
<1>8. \A i \in FieldsOf(f) :
        /\ i \in 4 .. n + 3 /\ i - 3 \in 1 .. n /\ order[i - 3] \in Names \ Nested
        /\ Found(f, i).title = OwnTitle[order[i - 3]]
  BY <1>3, <1>5, <1>6, <1>7 DEF FieldsOf
<1>9. Cardinality(T) <= Cardinality(S) /\ Cardinality(S) \in Nat
  <2>1. IsFiniteSet(S) /\ Cardinality(S) \in Nat
    <3>1. S \in SUBSET FormOf(f)
      BY DEF SigFieldsOf
    <3> QED
      BY <3>1, FS_Subset, FS_CardinalityType
  <2> DEFINE name == [i \in S |-> Found(f, i).name]
  <2>2. ASSUME NEW i \in S PROVE name[i] \in T
    <3>1. i \in FieldsOf(f) /\ Found(f, i).name \notin TextFields
      BY DEF SigFieldsOf, FieldsOf, IsSigField
    <3>2. Found(f, i).name = order[i - 3] /\ order[i - 3] \in Names \ Nested
      BY <1>3, <1>6, <1>8, <3>1
    <3> QED
      BY <3>1, <3>2 DEF Names
  <2>3. ASSUME NEW x \in T PROVE \E i \in S : name[i] = x
    <3>1. x \in Names /\ x \notin Nested /\ x \notin TextFields
      BY RevisionAssumption DEF Names
    <3>2. PICK k \in 1 .. n : order[k] = x
      BY <1>4, <3>1
    <3>3. k + 3 \in 4 .. n + 3 /\ (k + 3) - 3 = k /\ k + 3 \in Leads(n, order)
      BY <1>1, <3>1, <3>2 DEF Leads
    <3>4. Found(f, k + 3).is = "field" /\ Found(f, k + 3).name = x
      BY <1>3, <1>6, <3>2, <3>3
    <3>5. k + 3 \in S
      BY <1>1, <3>1, <3>3, <3>4 DEF SigFieldsOf, IsSigField
    <3> QED
      BY <3>4, <3>5
  <2>4. name \in Surjection(S, T)
    <3> HIDE DEF S, T
    <3> QED
      BY <2>2, <2>3 DEF Surjection
  <2> HIDE DEF name, S, T
  <2> QED
    BY <2>1, <2>4, FS_Surjection, FS_CardinalityType
<1> HIDE DEF S
<1>10. Cardinality(T) \in Nat
  <2>1. IsFiniteSet(Names) /\ T \in SUBSET Names
    BY RevisionAssumption DEF Names
  <2> QED
    BY <2>1, FS_Subset, FS_CardinalityType
<1>11. \A i \in FieldsOf(f) : Found(f, i).title <= Cardinality(S)
  <2> TAKE i \in FieldsOf(f)
  <2>1. OwnTitle[order[i - 3]] <= Cardinality(T) /\ OwnTitle[order[i - 3]] \in Nat
    BY <1>8, TitleAssumption DEF NumberedByCount
  <2> HIDE DEF T
  <2> QED
    BY <1>8, <1>9, <1>10, <2>1
<1>12. ASSUME NEW i \in FieldsOf(f), NEW j \in FieldsOf(f),
              Found(f, i).title # 0, Found(f, i).title = Found(f, j).title
       PROVE  i = j
  <2>1. order[i - 3] = order[j - 3]
    BY <1>8, <1>12, TitleAssumption
  <2>2. i - 3 = j - 3
    BY <1>4, <1>8, <2>1
  <2> QED
    BY <1>1, <1>8, <2>2
<1> QED
  BY <1>11, <1>12 DEF TitlesApart, S

-----------------------------------------------------------------------------
(* ... and that it is in order.                                            *)
LEMMA BlankDoc ==
  ASSUME NEW f, NEW n, NEW order, NEW last, NEW spare, BlankFile(f, n, order, last, spare)
  PROVE  Doc(f) /\ Ranges(f) /\ \A x \in Names : Mark(f, x) = 0
<1>1. /\ n \in Nat /\ last \in Nat /\ spare \in Nat /\ last \in {n + 3, n + 4}
      /\ f \in Seq(Segments) /\ Len(f) = n + 5 /\ Len(f) \in Nat
  BY BlankPlaces
<1>2. /\ Start(f) = n + 4 /\ Root(f) = 1 /\ Reader(f).size = last + 1 + spare
      /\ DOMAIN Sections(f)[Start(f)] = 1 .. last
      /\ DOMAIN Table(f) = 1 .. last
      /\ \A i \in 1 .. last : Table(f)[i] = i /\ Found(f, i) = f[i].val
      /\ FormOf(f) = Leads(n, order)
      /\ Top(f) = last
  BY BlankReader, Zenon
<1>3. /\ f[1].id = 1 /\ f[1].val.is = "catalog"
      /\ f[2].id = 2 /\ f[2].val.is = "page"
      /\ f[3].id = 3 /\ f[3].val.is = "plain"
      /\ f[n + 4].val.is = "xref" /\ f[n + 4].val.prev = 0
      /\ f[n + 4].id = IF last = n + 4 THEN n + 4 ELSE 0
      /\ f[n + 5].id = 0 /\ f[n + 5].val.is = "end"
  BY BlankPlaces
<1>4. \A p \in 4 .. n + 3 :
        /\ p - 3 \in 1 .. n /\ f[p].id = p
        /\ f[p].val.is = "field" /\ f[p].val.title = OwnTitle[order[p - 3]] /\ f[p].val.mark = 0
        /\ f[p].val.name = order[p - 3] /\ order[p - 3] \in Names
        /\ p \in Leads(n, order) \/ f[p].val.parent = 3
  <2> TAKE p \in 4 .. n + 3
  <2> QED
    BY BlankFields
<1>5. /\ \A x \in Names : \E k \in 1 .. n : order[k] = x
      /\ \A j, k \in 1 .. n : order[j] = order[k] => j = k
  BY DEF BlankFile, Arranged
<1>6. \A p \in 1 .. Len(f) : p \in {1, 2, 3, n + 4, n + 5} \/ p \in 4 .. n + 3
  BY <1>1
<1>7. \A p \in 1 .. n + 3 : f[p].id = p /\ p \in 1 .. last /\ p \in 1 .. Len(f)
  <2> TAKE p \in 1 .. n + 3
  <2>1. p \in {1, 2, 3} \/ p \in 4 .. n + 3
    BY <1>1
  <2> QED
    BY <1>1, <1>3, <1>4, <2>1
<1>8. \A i \in 1 .. last : f[i].val.is = "field" => i \in 4 .. n + 3
  <2> TAKE i \in 1 .. last
  <2>1. i \in {1, 2, 3, n + 4} \/ i \in 4 .. n + 3
    BY <1>1
  <2> QED
    BY <1>3, <2>1
<1>9. \A p \in 1 .. Len(f) : f[p].val.is = "xref" => p = n + 4
  BY <1>3, <1>4, <1>6
<1>10. \A p \in 1 .. Len(f) : f[p].val.is # "signature"
  BY <1>3, <1>4, <1>6
<1>11. \A p \in 1 .. Len(f) : f[p].id \in {0, p} /\ (f[p].id # 0 => p \in 1 .. last)
  <2> TAKE p \in 1 .. Len(f)
  <2>1. CASE p \in 1 .. n + 3
    BY <1>7, <2>1
  <2>2. CASE p = n + 4
    BY <1>1, <1>3, <2>2
  <2>3. CASE p = n + 5
    BY <1>3, <2>3
  <2> QED
    BY <1>1, <2>1, <2>2, <2>3
<1>12. \A i \in 1 .. last : i \in 1 .. Len(f) /\ f[i].id = i
  <2> TAKE i \in 1 .. last
  <2>1. i \in 1 .. n + 3 \/ (i = n + 4 /\ last = n + 4)
    BY <1>1
  <2> QED
    BY <1>1, <1>3, <1>7, <2>1
<1>13. Shape(f)
  <2>1. Len(f) > 1 /\ Len(f) - 1 = n + 4 /\ f[Len(f)].val.is = "end"
    BY <1>1, <1>3
  <2>2. \A p \in 1 .. Len(f) : f[p].val.is = "xref" => f[p].val.prev = 0
    BY <1>3, <1>9
  <2>3. f[Start(f)].val.is = "xref" /\ Start(f) = Len(f) - 1
    BY <1>2, <1>3, <2>1
  <2> QED
    BY <1>1, <2>1, <2>2, <2>3 DEF Shape
<1>14. Tabled(f)
  <2>1. 1 .. last \subseteq 1 .. (last + 1 + spare) - 1
    BY <1>1
  <2>2. \A i \in DOMAIN Table(f) : Table(f)[i] \in 1 .. Len(f) /\ f[Table(f)[i]].id = i
    BY <1>2, <1>12
  <2>3. ASSUME NEW p \in 1 .. Len(f), f[p].id # 0
        PROVE  f[p].id \in DOMAIN Table(f) /\ Table(f)[f[p].id] >= p
    <3>1. f[p].id = p /\ p \in 1 .. last /\ p \in Nat
      BY <1>1, <1>11, <2>3
    <3> QED
      BY <1>2, <3>1
  <2> QED
    BY <1>2, <2>1, <2>2, <2>3 DEF Tabled
<1>15. Numbered(f)
  <2>1. \A p \in 1 .. Len(f) : f[p].id <= last + 1
    <3> TAKE p \in 1 .. Len(f)
    <3>1. f[p].id = 0 \/ f[p].id \in 1 .. last
      BY <1>11
    <3> QED
      BY <1>1, <3>1
  <2>2. \A p, q \in 1 .. Len(f) : f[p].id = f[q].id /\ f[p].id # 0 => p = q
    BY <1>11
  <2>3. \A p, q \in 1 .. Len(f) : p < q /\ f[p].id = f[q].id /\ f[p].id # 0 => FALSE
    BY <1>1, <2>2
  <2> QED
    BY <1>2, <2>1, <2>3 DEF Numbered
<1>16. Leads(n, order) \subseteq 1 .. n + 3 /\ 3 \in Leads(n, order)
  BY <1>1 DEF Leads
<1>17. Formed(f)
  <2>1. 1 \in 1 .. last /\ 2 \in 1 .. last
    BY <1>1
  <2>2. Found(f, Root(f)).is = "catalog" /\ Found(f, 2).is = "page"
    BY <1>2, <1>3, <2>1
  <2>3. IsFiniteSet(Leads(n, order)) /\ Leads(n, order) \subseteq 1 .. last
    <3>1. n + 3 \in Int
      BY <1>1
    <3>2. IsFiniteSet(1 .. n + 3)
      BY <3>1, FS_Interval
    <3>3. Leads(n, order) \in SUBSET (1 .. n + 3)
      BY <1>16
    <3> QED
      BY <1>7, <1>16, <3>2, <3>3, FS_Subset
  <2>4. ASSUME NEW p \in 1 .. Len(f), f[p].val.is = "field"
        PROVE  {f[p].id, f[p].val.parent} \intersect FormOf(f) # {}
    <3>1. p \in 4 .. n + 3
      BY <1>3, <1>6, <2>4
    <3>2. f[p].id = p /\ (p \in Leads(n, order) \/ f[p].val.parent = 3)
      BY <1>4, <3>1
    <3> QED
      BY <1>2, <1>16, <3>2
  <2>5. ASSUME NEW x \in Names PROVE \E i \in Reached(f, Reader(f)) : Found(f, i).name = x
    <3>1. PICK k \in 1 .. n : order[k] = x
      BY <1>5
    <3> DEFINE i == k + 3
    <3>2. i \in 4 .. n + 3 /\ i - 3 = k /\ i \in 1 .. n + 3
      BY <1>1
    <3>3. i \in 1 .. last /\ i \in 1 .. Len(f) /\ f[i].id = i
      BY <1>7, <3>2
    <3> HIDE DEF i
    <3>4. /\ f[i].val.is = "field" /\ f[i].val.name = order[i - 3] /\ Found(f, i) = f[i].val
          /\ i \in DOMAIN Table(f)
      BY <1>2, <1>4, <3>2, <3>3
    <3>5. {i, Found(f, i).parent} \intersect FormOf(f) # {}
      BY <2>4, <3>3, <3>4
    <3>6. i \in Reached(f, Reader(f))
      BY <3>4, <3>5, FormIs
    <3> QED
      BY <3>1, <3>2, <3>4, <3>6
  <2>6. ASSUME NEW i \in DOMAIN Table(f), NEW j \in DOMAIN Table(f),
               Found(f, i).is = "field", Found(f, j).is = "field",
               Found(f, i).name = Found(f, j).name
        PROVE  i = j
    <3>1. i \in 4 .. n + 3 /\ j \in 4 .. n + 3
      BY <1>2, <1>8, <2>6
    <3>2. order[i - 3] = order[j - 3] /\ i - 3 \in 1 .. n /\ j - 3 \in 1 .. n
      BY <1>2, <1>4, <2>6, <3>1
    <3>3. i - 3 = j - 3
      BY <1>5, <3>2
    <3> QED
      BY <1>1, <3>1, <3>3
  <2> QED
    BY <1>2, <2>1, <2>2, <2>3, <2>4, <2>5, <2>6 DEF Formed
<1>18. \A i \in 1 .. last : Found(f, i).is = "field" => Found(f, i).mark = 0
  BY <1>2, <1>4, <1>8
<1>19. Titled(f)
  <2>1. NumberedByCount => TitlesApart(f)
    BY <1>17, BlankTitles DEF Formed
  <2>2. \A i \in 1 .. last : Found(f, i).is = "field" => Found(f, i).mark <= last + 1
    BY <1>1, <1>18
  <2> QED
    BY <1>2, <2>1, <2>2 DEF Titled
<1>20. Doc(f)
  BY <1>13, <1>14, <1>15, <1>17, <1>19 DEF Doc
<1>21. \A x \in Names : Mark(f, x) = 0
  <2> TAKE x \in Names
  <2>1. /\ FieldOf(f, x) \in DOMAIN Table(f) /\ Found(f, FieldOf(f, x)).is = "field"
        /\ Mark(f, x) = Found(f, FieldOf(f, x)).mark
    BY <1>20, DocField
  <2> QED
    BY <1>2, <1>18, <2>1
<1>22. Ranges(f)
  BY <1>10 DEF Ranges
<1> QED
  BY <1>20, <1>21, <1>22

-----------------------------------------------------------------------------
(* The entries of a context, by number.                                    *)
Bounded(o, r) ==
  \/ r
  \/ /\ \A k \in DOMAIN o.new : o.new[k][2] <= Len(o.buf)
     /\ \A k \in DOMAIN o.upd : o.upd[k][2] <= Len(o.buf)
EntriesOK(o, r) ==
  \A e \in Range(o.new) \union Range(o.upd) : e \in Nat \X Nat /\ (e[2] <= Len(o.buf) \/ r)

(* The part of the type invariant about entries, by position.              *)
LEMMA EntriesAre ==
  ASSUME NEW o \in Contexts, NEW r \in BOOLEAN
  PROVE  EntriesOK(o, r) <=> Bounded(o, r)
<1>1. o.new \in Seq(Pairs) /\ o.upd \in Seq(Pairs)
  BY ContextTypes
<1>2. \A k \in DOMAIN o.new : o.new[k] \in Pairs
  BY <1>1
<1>3. \A k \in DOMAIN o.upd : o.upd[k] \in Pairs
  BY <1>1
<1>4. \A e : e \in Range(o.new) <=> \E k \in DOMAIN o.new : e = o.new[k]
  BY DEF Range
<1>5. \A e : e \in Range(o.upd) <=> \E k \in DOMAIN o.upd : e = o.upd[k]
  BY DEF Range
<1>6. ASSUME EntriesOK(o, r) PROVE Bounded(o, r)
  BY <1>4, <1>5, <1>6 DEF EntriesOK, Bounded
<1>7. ASSUME Bounded(o, r) PROVE EntriesOK(o, r)
  BY <1>2, <1>3, <1>4, <1>5, <1>7 DEF EntriesOK, Bounded, Pairs
<1> QED
  BY <1>6, <1>7

(* Entries stay within the buffer.                                         *)
LEMMA AddBounded ==
  ASSUME NEW o \in Contexts, NEW r, Bounded(o, r), NEW v \in Val, LastId \in Nat
  PROVE  Bounded(AddObject(o, v), r)
<1> DEFINE a == AddObject(o, v)  m == Len(o.buf)  n == Len(o.new)
<1>1. /\ m \in Nat /\ n \in Nat /\ Len(a.buf) = m + 1 /\ a.upd = o.upd
      /\ a.new = Append(o.new, <<NextId(o), m + 1>>) /\ NextId(o) \in Nat
  BY AddType, ContextTypes, Zenon
<1>2. o.new \in Seq(Pairs) /\ o.upd \in Seq(Pairs) /\ DOMAIN o.new = 1 .. n
  BY ContextTypes
<1>3. <<NextId(o), m + 1>> \in Pairs
  BY <1>1 DEF Pairs
<1>4. /\ DOMAIN a.new = 1 .. n + 1 /\ a.new[n + 1] = <<NextId(o), m + 1>>
      /\ \A k \in 1 .. n : a.new[k] = o.new[k]
  BY <1>1, <1>2, <1>3, Appends
<1>5. \A k \in DOMAIN o.new : o.new[k] \in Pairs
  BY <1>2
<1>6. \A k \in DOMAIN o.upd : o.upd[k] \in Pairs
  BY <1>2
<1> HIDE DEF a, m, n
<1>7. CASE ~r
  <2>1. \A k \in DOMAIN o.new : o.new[k][2] <= m /\ o.new[k][2] \in Nat
    BY <1>5, <1>7 DEF Bounded, m, Pairs
  <2>2. \A k \in DOMAIN o.upd : o.upd[k][2] <= m /\ o.upd[k][2] \in Nat
    BY <1>6, <1>7 DEF Bounded, m, Pairs
  <2>3. \A k \in DOMAIN a.new : a.new[k][2] <= m + 1
    <3> TAKE k \in DOMAIN a.new
    <3>1. CASE k \in 1 .. n
      BY <1>1, <1>2, <1>4, <2>1, <3>1
    <3>2. CASE k = n + 1
      BY <1>1, <1>4, <3>2
    <3> QED
      BY <1>1, <1>4, <3>1, <3>2
  <2>4. \A k \in DOMAIN a.upd : a.upd[k][2] <= m + 1
    BY <1>1, <2>2
  <2> QED
    BY <1>1, <2>3, <2>4 DEF Bounded, a
<1> QED
  BY <1>7 DEF Bounded, a

LEMMA UpdateBounded ==
  ASSUME NEW o \in Contexts, NEW r, Bounded(o, r), NEW v \in Val, NEW i \in Nat
  PROVE  Bounded(UpdateObject(o, i, v), r)
<1> DEFINE a == UpdateObject(o, i, v)  m == Len(o.buf)  n == Len(o.upd)
<1>1. /\ m \in Nat /\ n \in Nat /\ Len(a.buf) = m + 1 /\ a.new = o.new
      /\ a.upd = Append(o.upd, <<i, m + 1>>)
  BY UpdateType, ContextTypes, Zenon
<1>2. o.new \in Seq(Pairs) /\ o.upd \in Seq(Pairs) /\ DOMAIN o.upd = 1 .. n
  BY ContextTypes
<1>3. <<i, m + 1>> \in Pairs
  BY <1>1 DEF Pairs
<1>4. /\ DOMAIN a.upd = 1 .. n + 1 /\ a.upd[n + 1] = <<i, m + 1>>
      /\ \A k \in 1 .. n : a.upd[k] = o.upd[k]
  BY <1>1, <1>2, <1>3, Appends
<1>5. \A k \in DOMAIN o.new : o.new[k] \in Pairs
  BY <1>2
<1>6. \A k \in DOMAIN o.upd : o.upd[k] \in Pairs
  BY <1>2
<1> HIDE DEF a, m, n
<1>7. CASE ~r
  <2>1. \A k \in DOMAIN o.new : o.new[k][2] <= m /\ o.new[k][2] \in Nat
    BY <1>5, <1>7 DEF Bounded, m, Pairs
  <2>2. \A k \in DOMAIN o.upd : o.upd[k][2] <= m /\ o.upd[k][2] \in Nat
    BY <1>6, <1>7 DEF Bounded, m, Pairs
  <2>3. \A k \in DOMAIN a.upd : a.upd[k][2] <= m + 1
    <3> TAKE k \in DOMAIN a.upd
    <3>1. CASE k \in 1 .. n
      BY <1>1, <1>2, <1>4, <2>2, <3>1
    <3>2. CASE k = n + 1
      BY <1>1, <1>4, <3>2
    <3> QED
      BY <1>1, <1>4, <3>1, <3>2
  <2>4. \A k \in DOMAIN a.new : a.new[k][2] <= m + 1
    BY <1>1, <2>1
  <2> QED
    BY <1>1, <2>3, <2>4 DEF Bounded, a
<1> QED
  BY <1>7 DEF Bounded, a

(* What the invariant says of the state.                                   *)
LEMMA TypedFacts ==
  ASSUME Typed
  PROVE  /\ rdr = Reader(file) /\ Doc(file) /\ LastId \in Nat /\ LastId = Top(file) + 1
         /\ Len(file) \in Nat /\ file \in Seq(Segments) /\ rdr.table = Table(file)
         /\ out \in Contexts /\ Len(out.buf) \in Nat /\ out.buf \in Seq(Segments)
         /\ Bounded(out, retried) /\ retried \in BOOLEAN
         /\ ids \in [{"signature", "widget", "catalog"} -> Nat]
         /\ ids.signature \in Nat /\ ids.widget \in Nat /\ ids.catalog \in Nat
         /\ job.into \in Names \union {NoName} /\ job.visible \in BOOLEAN
         /\ job.fills \subseteq Names /\ left \subseteq Names
         /\ maxLength \in Nat /\ gap \in Nat /\ depth \in Nat
<1>1. /\ rdr = Reader(file) /\ Doc(file) /\ out \in Contexts /\ retried \in BOOLEAN
      /\ ids \in [{"signature", "widget", "catalog"} -> Nat]
      /\ maxLength \in Nat /\ depth \in Nat /\ left \subseteq job.fills
  BY DEF Typed, RevisionTypeOK
<1>2. job.into \in Names \union {NoName} /\ job.visible \in BOOLEAN /\ job.fills \subseteq Names
  BY DEF Typed, RevisionTypeOK
<1>3. Bounded(out, retried)
  <2>1. EntriesOK(out, retried)
    BY DEF Typed, RevisionTypeOK, EntriesOK
  <2> QED
    BY <1>1, <2>1, EntriesAre
<1>4. LastId \in Nat /\ LastId = Top(file) + 1 /\ rdr.table = Table(file)
  BY <1>1, LastIdIs
<1>5. Len(file) \in Nat /\ file \in Seq(Segments)
  BY <1>1, DocReader
<1>6. Len(out.buf) \in Nat /\ out.buf \in Seq(Segments)
  BY <1>1, ContextTypes
<1>7. gap \in Nat
  BY DEF Typed, RevisionTypeOK
<1> QED
  BY <1>1, <1>2, <1>3, <1>4, <1>5, <1>6, <1>7

-----------------------------------------------------------------------------
(* Typed is kept.                                                          *)
IdTypes == [{"signature", "widget", "catalog"} -> Nat]

(* The values that Return and Init give to the context.                    *)
LEMMA Tidy ==
  /\ NoIds \in IdTypes
  /\ NoJob \in [into : Names \union {NoName}, visible : BOOLEAN, fills : SUBSET Names]
  /\ NoJob.into \notin TextFields /\ NoJob.fills = {}
  /\ Empty \in Contexts /\ Bounded(Empty, FALSE) /\ Len(Empty.buf) = 0
<1>1. NoIds \in IdTypes
  BY DEF NoIds, IdTypes
<1>2. NoJob \in [into : Names \union {NoName}, visible : BOOLEAN, fills : SUBSET Names]
      /\ NoJob.into \notin TextFields /\ NoJob.fills = {}
  BY RevisionAssumption DEF NoJob, Names
<1>3. Empty \in Contexts
  <2>1. <<>> \in Seq(Segments) /\ <<>> \in Seq(Nat \X Nat)
    OBVIOUS
  <2> QED
    BY <2>1 DEF Empty, Contexts
<1>4. Bounded(Empty, FALSE) /\ Len(Empty.buf) = 0
  BY DEF Empty, Bounded
<1> QED
  BY <1>1, <1>2, <1>3, <1>4

(* A fresh start on a document.                                            *)
BeginsWith(f, x) ==
  /\ x \in XrefTypes /\ rdr = Reader(f) /\ file = f /\ xrefType = x
  /\ pc = "idle" /\ job = NoJob /\ out = Empty /\ ids = NoIds /\ left = {}
  /\ maxLength = 0 /\ gap = 0 /\ depth = 0 /\ output = <<>> /\ retried = FALSE

(* The invariant holds when a document is opened, now and in the next      *)
(* state.                                                                  *)
LEMMA FreshInv ==
  ASSUME NEW f, NEW x, Doc(f), BeginsWith(f, x)
  PROVE  Inv
<1>1. EntriesOK(out, retried)
  BY Tidy, EntriesAre DEF BeginsWith
<1>2. RevisionTypeOK
  <2>1. out = Empty /\ retried = FALSE /\ gap = 0 /\ job = NoJob /\ ids = NoIds /\ left = {}
        /\ maxLength = 0 /\ depth = 0 /\ pc = "idle" /\ xrefType \in XrefTypes
    BY DEF BeginsWith
  <2>2. gap \in 0 .. Len(out.buf)
    BY <2>1, Tidy
  <2>3. ids \in IdTypes /\ pc \in Steps /\ left \subseteq job.fills
    BY <2>1, Tidy DEF Steps
  <2>4. job \in [into : Names \union {NoName}, visible : BOOLEAN, fills : SUBSET Names]
    BY <2>1, Tidy
  <2> QED
    BY ONLY <1>1, <2>1, <2>2, <2>3, <2>4 DEF RevisionTypeOK, EntriesOK, IdTypes
<1>3. Len(file) \in Nat
  BY DocReader DEF BeginsWith
<1>4. Typed
  BY <1>2, <1>3, Tidy DEF Typed, BeginsWith, Started
<1>5. Sound
  BY DEF Sound, BeginsWith, Done
<1> QED
  BY <1>4, <1>5 DEF Inv

LEMMA FreshInvNext ==
  ASSUME NEW f, NEW x, Doc(f), BeginsWith(f, x)'
  PROVE  Inv'
<1>1. EntriesOK(out', retried')
  BY Tidy, EntriesAre DEF BeginsWith
<1>2. RevisionTypeOK'
  <2>1. out' = Empty /\ retried' = FALSE /\ gap' = 0 /\ job' = NoJob /\ ids' = NoIds /\ left' = {}
        /\ maxLength' = 0 /\ depth' = 0 /\ pc' = "idle" /\ xrefType' \in XrefTypes
    BY DEF BeginsWith
  <2>2. gap' \in 0 .. Len(out'.buf)
    BY <2>1, Tidy
  <2>3. ids' \in IdTypes /\ pc' \in Steps /\ left' \subseteq job'.fills
    BY <2>1, Tidy DEF Steps
  <2>4. job' \in [into : Names \union {NoName}, visible : BOOLEAN, fills : SUBSET Names]
    BY <2>1, Tidy
  <2> QED
    BY ONLY <1>1, <2>1, <2>2, <2>3, <2>4 DEF RevisionTypeOK, EntriesOK, IdTypes
<1>3. Len(file') \in Nat
  BY DocReader DEF BeginsWith
<1>4. Typed'
  BY <1>2, <1>3, Tidy DEF Typed, BeginsWith, Started
<1>5. Sound'
  BY DEF Sound, BeginsWith, Done
<1> QED
  BY <1>4, <1>5 DEF Inv

(* The invariant holds initially.                                          *)
LEMMA InitInv ==
  ASSUME Init
  PROVE  Inv /\ Doc(file) /\ Ranges(file) /\ \A n \in Names : Mark(file, n) = 0
<1>1. PICK spare \in 0 .. 1 : file = Unsigned(xrefType, spare)
  BY DEF Init
<1>2. xrefType \in XrefTypes
  BY DEF Init
<1>3. PICK n, order, last : BlankFile(file, n, order, last, spare)
  BY <1>1, <1>2, UnsignedIs
<1>4. Doc(file) /\ Ranges(file) /\ \A x \in Names : Mark(file, x) = 0
  BY <1>3, BlankDoc
<1>5. BeginsWith(file, xrefType)
  BY DEF Init, BeginsWith
<1> QED
  BY <1>4, <1>5, FreshInv

(* The steps that append something.                                        *)
LEMMA TypedStep ==
  ASSUME Typed, UNCHANGED <<docVars, job, maxLength, gap, depth, retried>>, pc # "idle",
         out' \in Contexts, Bounded(out', retried), Len(out'.buf) > Len(file), Placed(out)',
         ids' \in IdTypes, left' \subseteq job.fills,
         pc' \in {"field", "font", "fill", "xref", "range"},
         pc' # "fill" => left' = {}, job.into \in TextFields => pc' = "field"
  PROVE  Typed'
<1>1. EntriesOK(out', retried')
  <2>1. retried' = retried /\ retried \in BOOLEAN
    BY TypedFacts
  <2> QED
    BY <2>1, EntriesAre
<1>2. file' = file /\ rdr' = rdr /\ xrefType' = xrefType /\ job' = job /\ retried' = retried
      /\ maxLength' = maxLength /\ gap' = gap /\ depth' = depth
  BY DEF docVars
<1>3. Len(file) \in Nat /\ Len(out'.buf) \in Nat /\ gap \in Nat
  BY TypedFacts, ContextTypes
<1>4. gap <= Len(file) + 1
  BY DEF Typed
<1>5. gap' \in 0 .. Len(out'.buf)
  BY <1>2, <1>3, <1>4
<1>6. RevisionTypeOK'
  <2>1. /\ xrefType \in XrefTypes
        /\ job \in [into : Names \union {NoName}, visible : BOOLEAN, fills : SUBSET Names]
        /\ maxLength \in Nat /\ depth \in Nat /\ retried \in BOOLEAN
    BY DEF Typed, RevisionTypeOK
  <2>2. pc' \in Steps
    BY DEF Steps
  <2> QED
    BY <1>1, <1>2, <1>5, <2>1, <2>2 DEF RevisionTypeOK, EntriesOK, IdTypes
<1>7. rdr' = Reader(file') /\ Doc(file')
  BY <1>2 DEF Typed
<1>8. maxLength' > 0 /\ \E d \in Estimates : d <= maxLength'
  BY <1>2 DEF Typed
<1> QED
  BY <1>2, <1>4, <1>6, <1>7, <1>8 DEF Typed, Started

(* Open keeps the invariant.                                               *)
LEMMA OpenInv ==
  ASSUME Inv, Open
  PROVE  Inv'
<1>1. /\ pc = "idle" /\ pc' = "placeholder"
      /\ UNCHANGED <<docVars, out, ids, left, gap, depth, output, retried>>
      /\ job' \in [into : Names \union {NoName}, visible : BOOLEAN, fills : SUBSET Names]
      /\ maxLength' \in Estimates
  BY DEF Open, Goes
<1>2. maxLength' \in Nat /\ maxLength' > 0 /\ \E d \in Estimates : d <= maxLength'
  BY <1>1, RevisionAssumption
<1>3. Typed /\ Sound
  BY DEF Inv
<1>4. left = {} /\ out = Empty /\ gap = 0 /\ ~retried
  BY <1>1, <1>3 DEF Typed
<1>5. RevisionTypeOK'
  BY <1>1, <1>2, <1>3, <1>4 DEF Typed, RevisionTypeOK, Steps, docVars
<1>6. Typed'
  BY <1>1, <1>2, <1>3, <1>4, <1>5 DEF Typed, docVars, Started
<1>7. Sound'
  BY <1>1, <1>3, <1>4 DEF Sound, Done, docVars
<1> QED
  BY <1>6, <1>7 DEF Inv

-----------------------------------------------------------------------------
(* An update is built as long as the document and the signature's number    *)
(* stay as they are.                                                        *)
LEMMA Frame ==
  ASSUME UNCHANGED <<docVars, job, maxLength>>, ids'.signature = ids.signature
  PROVE  /\ Core(out') => Core(out)'
         /\ Placed(out') => Placed(out)'
         /\ HasWidget(out', ids'.widget) => HasWidget(out, ids.widget)'
         /\ LastId' = LastId
         /\ \A n : Here(n)' = Here(n)
<1>1. file' = file /\ rdr' = rdr /\ job' = job /\ maxLength' = maxLength
  BY DEF docVars
<1>2. LastId' = LastId /\ \A n : Here(n)' = Here(n)
  BY <1>1 DEF LastId, Here
<1>3. Existing' = Existing
  BY <1>1 DEF Existing
<1>4. Core(out') => Core(out)'
  BY <1>1, <1>2, Zenon DEF Core
<1>5. Placed(out') => Placed(out)'
  BY <1>1, Zenon DEF Placed
<1>6. HasWidget(out', ids'.widget) => HasWidget(out, ids.widget)'
  BY <1>1, <1>2, <1>3, Zenon DEF HasWidget
<1> QED
  BY <1>2, <1>4, <1>5, <1>6

(* The same for the kinds of what has been appended.                       *)
LEMMA KindsFrame ==
  ASSUME UNCHANGED <<docVars, job, maxLength>>, ids'.signature = ids.signature,
         NEW m, NEW m1, m1 = m, NewKinds(out', ids'.widget, m)
  PROVE  \A p \in Len(file') + 2 .. m1 : NewKind(out.buf[p], ids.widget)'
<1>1. file' = file /\ rdr' = rdr /\ job' = job
  BY DEF docVars
<1>2. LastId' = LastId /\ \A n : Here(n)' = Here(n)
  BY Frame
<1>3. Existing' = Existing
  BY <1>1 DEF Existing
<1> QED
  BY <1>1, <1>2, <1>3, Zenon DEF NewKinds, NewKind, Filled

-----------------------------------------------------------------------------
(* Changing one of the numbers leaves the others.                          *)
LEMMA IdsChange ==
  ASSUME NEW i \in IdTypes, NEW k \in Nat
  PROVE  /\ [i EXCEPT !.signature = k] \in IdTypes /\ [i EXCEPT !.signature = k].signature = k
         /\ [i EXCEPT !.signature = k].widget = i.widget
         /\ [i EXCEPT !.widget = k] \in IdTypes /\ [i EXCEPT !.widget = k].widget = k
         /\ [i EXCEPT !.widget = k].signature = i.signature
         /\ [i EXCEPT !.catalog = k] \in IdTypes /\ [i EXCEPT !.catalog = k].catalog = k
         /\ [i EXCEPT !.catalog = k].signature = i.signature
         /\ [i EXCEPT !.catalog = k].widget = i.widget
  BY DEF IdTypes

(* A new buffer with the input.                                            *)
LEMMA WithInput ==
  ASSUME NEW o \in Contexts, NEW r, Bounded(o, r), ~r => o = Empty, NEW f \in Seq(Segments)
  PROVE  /\ [o EXCEPT !.buf = f] \in Contexts /\ [o EXCEPT !.buf = f].buf = f
         /\ [o EXCEPT !.buf = f].new = o.new /\ [o EXCEPT !.buf = f].upd = o.upd
         /\ Bounded([o EXCEPT !.buf = f], r)
<1> DEFINE c == [o EXCEPT !.buf = f]
<1>1. c = [buf |-> f, new |-> o.new, upd |-> o.upd]
  BY ContextChanges, Zenon
<1>2. o.new \in Seq(Pairs) /\ o.upd \in Seq(Pairs)
  BY ContextTypes
<1> HIDE DEF c
<1>3. c.buf = f /\ c.new = o.new /\ c.upd = o.upd
  BY <1>1
<1>4. c \in Contexts
  BY <1>1, <1>2 DEF Contexts, Pairs
<1>5. ASSUME ~r PROVE Bounded(c, r)
  <2>1. DOMAIN c.new = {} /\ DOMAIN c.upd = {}
    BY <1>3, <1>5 DEF Empty
  <2> QED
    BY <2>1 DEF Bounded
<1>6. Bounded(c, r)
  BY <1>5 DEF Bounded
<1> QED
  BY <1>3, <1>4, <1>6 DEF c

(* WritePlaceholder keeps the invariant.                                   *)
LEMMA WritePlaceholderInv ==
  ASSUME Inv, WritePlaceholder
  PROVE  Inv'
<1> DEFINE o == [out EXCEPT !.buf = file]  v == Signature(maxLength)
<1>1. /\ pc = "placeholder" /\ pc' = "field" /\ out' = AddObject(o, v)
      /\ ids' = [ids EXCEPT !.signature = NextId(out)]
      /\ UNCHANGED <<docVars, job, left, maxLength, gap, depth, output, retried>>
  BY DEF WritePlaceholder, Goes
<1>2. Typed /\ Sound
  BY DEF Inv
<1>3. /\ LastId \in Nat /\ Len(file) \in Nat /\ file \in Seq(Segments) /\ out \in Contexts
      /\ Bounded(out, retried) /\ ids \in IdTypes /\ maxLength \in Nat /\ left \subseteq Names
      /\ retried \in BOOLEAN
  BY <1>2, TypedFacts DEF IdTypes
<1>4. v \in Val
  BY <1>3, Makers
<1>5. maxLength > 0 /\ left = {} /\ (~retried => out = Empty)
  BY <1>1, <1>2 DEF Typed
<1>6. /\ o \in Contexts /\ o.buf = file /\ o.new = out.new /\ o.upd = out.upd
      /\ Bounded(o, retried)
  BY <1>3, <1>5, WithInput
<1> HIDE DEF o, v
<1>7. /\ NextId(o) \in Nat /\ NextId(o) = LastId + Len(o.new) + 1
      /\ out' \in Contexts /\ Len(out'.buf) = Len(o.buf) + 1 /\ out'.upd = o.upd
      /\ out'.new = Append(o.new, <<NextId(o), Len(o.buf) + 1>>)
      /\ out'.buf[Len(o.buf) + 1] = Object(NextId(o), v) /\ Extends(o.buf, out'.buf)
  BY <1>1, <1>3, <1>4, <1>6, AddType, Zenon
<1>8. NextId(out) = NextId(o)
  BY <1>6 DEF NextId
<1>9. ids' \in IdTypes /\ ids'.signature = NextId(o) /\ ids'.widget = ids.widget
  BY <1>1, <1>3, <1>7, <1>8, IdsChange
<1>10. Placed(out)'
  <2>1. out'.buf[Len(file) + 1] = Object(ids'.signature, Signature(maxLength))
    BY <1>6, <1>7, <1>9 DEF v
  <2>2. Len(out'.buf) > Len(file)
    BY <1>3, <1>6, <1>7
  <2>3. file' = file /\ maxLength' = maxLength
    BY <1>1 DEF docVars
  <2>4. Extends(file', out'.buf)
    BY <1>6, <1>7, <2>3
  <2> QED
    BY <2>1, <2>2, <2>3, <2>4 DEF Placed
<1>11. Bounded(out', retried')
  <2>1. Bounded(out', retried)
    BY <1>1, <1>3, <1>4, <1>6, AddBounded
  <2> QED
    BY <1>1, <2>1
<1>12. Typed'
  <2>1. Len(out'.buf) > Len(file) /\ left' \subseteq job.fills /\ left' = {}
    BY <1>1, <1>3, <1>5, <1>6, <1>7
  <2>2. UNCHANGED <<docVars, job, maxLength, gap, depth, retried>>
    BY <1>1
  <2>3. /\ pc' \in {"field", "font", "fill", "xref", "range"} /\ pc' # "fill"
        /\ job.into \in TextFields => pc' = "field"
    BY <1>1
  <2> QED
    BY <1>1, <1>2, <1>7, <1>9, <1>10, <1>11, <2>1, <2>2, <2>3, TypedStep
<1>13. ASSUME ~retried PROVE Building'
  <2>1. out = Empty /\ ids = NoIds
    BY <1>1, <1>2, <1>5, <1>13 DEF Sound
  <2>2. o.new = <<>> /\ o.upd = <<>> /\ ids.widget = 0
    BY <1>6, <2>1 DEF Empty, NoIds
  <2>3. Core(o)
    <3>1. DOMAIN o.new = {} /\ DOMAIN o.upd = {}
      BY <2>2
    <3>2. Extends(file, o.buf)
      BY <1>3, <1>6 DEF Extends
    <3>3. Len(file) + 1 .. Len(o.buf) = {}
      BY <1>3, <1>6
    <3> QED
      BY <1>6, <3>1, <3>2, <3>3, Zenon DEF Core
  <2>4. Core(out')
    BY <1>1, <1>3, <1>4, <2>3, AddCore
  <2>5. NextId(o) = LastId + 1 /\ Len(out'.new) = 1 /\ out'.upd = <<>>
    BY <1>3, <1>7, <2>2
  <2>6. UNCHANGED <<docVars, job, maxLength>>
    BY <1>1
  <2>7. file' = file /\ rdr' = rdr
    BY <1>1 DEF docVars
  <2>8. Core(out)' /\ LastId' = LastId
    BY <2>4, <2>7, Zenon DEF Core, LastId
  <2>9. HasWidget(out, ids.widget)'
    BY <1>9, <2>2 DEF HasWidget
  <2>10. Len(out'.buf) = Len(file') + 1
    BY <1>6, <1>7, <2>7
  <2>11. NewKinds(out, ids.widget, Len(out.buf))'
    <3>1. Len(file') + 2 .. Len(out'.buf) = {}
      BY <1>3, <2>7, <2>10
    <3> QED
      BY <3>1 DEF NewKinds
  <2> QED
    BY <1>1, <1>9, <1>10, <2>2, <2>5, <2>8, <2>9, <2>10, <2>11 DEF Building
<1>14. Sound'
  BY <1>1, <1>2, <1>13 DEF Sound, Done
<1> QED
  BY <1>12, <1>14 DEF Inv

-----------------------------------------------------------------------------
(* The placeholder stays where it is.                                      *)
LEMMA PlacedOn ==
  ASSUME NEW o, NEW a, Placed(o), Extends(o.buf, a.buf), Len(file) \in Nat,
         Len(o.buf) \in Nat, Len(a.buf) \in Nat
  PROVE  Placed(a)
<1>1. Len(file) + 1 \in 1 .. Len(o.buf)
  BY DEF Placed
<1>2. a.buf[Len(file) + 1] = o.buf[Len(file) + 1]
  BY <1>1 DEF Extends
<1>3. Extends(file, a.buf)
  BY ExtendsOn DEF Placed
<1> QED
  BY <1>1, <1>2, <1>3 DEF Placed, Extends

(* What the update has appended, as it goes on.                            *)
Steady(o, w) == Core(o) /\ Placed(o) /\ NewKinds(o, w, Len(o.buf))

(* A step that appends one object of the right kind keeps it all.          *)
LEMMA SteadyOn ==
  ASSUME Typed, NEW o, NEW w, Steady(o, w), NEW a, Core(a), Extends(o.buf, a.buf),
         Len(a.buf) = Len(o.buf) + 1, NEW seg, a.buf[Len(o.buf) + 1] = seg, NewKind(seg, w)
  PROVE  Steady(a, w) /\ (HasWidget(o, w) => HasWidget(a, w)) /\ Len(a.buf) > Len(file)
<1>1. Len(file) \in Nat /\ Len(o.buf) \in Nat /\ Len(o.buf) > Len(file)
  <2>1. o \in Contexts
    BY DEF Steady, Core
  <2> QED
    BY <2>1, TypedFacts, ContextTypes DEF Steady, Placed
<1>2. \A p \in 1 .. Len(o.buf) : a.buf[p] = o.buf[p]
  BY DEF Extends
<1>3. Placed(a)
  BY <1>1, PlacedOn DEF Steady
<1>4. NewKinds(a, w, Len(a.buf))
  <2> SUFFICES ASSUME NEW p \in Len(file) + 2 .. Len(a.buf) PROVE NewKind(a.buf[p], w)
    BY DEF NewKinds
  <2>1. CASE p = Len(o.buf) + 1
    BY <2>1
  <2>2. CASE p \in Len(file) + 2 .. Len(o.buf)
    <3>1. NewKind(o.buf[p], w)
      BY <2>2 DEF Steady, NewKinds
    <3>2. a.buf[p] = o.buf[p]
      BY <1>1, <1>2, <2>2
    <3> QED
      BY <3>1, <3>2
  <2> QED
    BY <1>1, <2>1, <2>2
<1>5. HasWidget(o, w) => HasWidget(a, w)
  <2>1. \A p \in Len(file) + 2 .. Len(o.buf) :
          p \in Len(file) + 2 .. Len(a.buf) /\ a.buf[p] = o.buf[p]
    BY <1>1, <1>2
  <2> QED
    BY <2>1, Zenon DEF HasWidget
<1> QED
  BY <1>1, <1>3, <1>4, <1>5 DEF Steady

LEMMA AddSteady ==
  ASSUME Typed, NEW o, NEW w, Steady(o, w), NEW v \in Val, NewKind(Object(NextId(o), v), w)
  PROVE  /\ Steady(AddObject(o, v), w) /\ (HasWidget(o, w) => HasWidget(AddObject(o, v), w))
         /\ Updated(AddObject(o, v)) = Updated(o) /\ Len(AddObject(o, v).buf) > Len(file)
<1>1. Core(o) /\ o \in Contexts /\ LastId \in Nat /\ Len(file) \in Nat
  BY TypedFacts DEF Steady, Core
<1>2. /\ Len(AddObject(o, v).buf) = Len(o.buf) + 1
      /\ Extends(o.buf, AddObject(o, v).buf)
      /\ AddObject(o, v).buf[Len(o.buf) + 1] = Object(NextId(o), v)
  BY <1>1, AddType, Zenon
<1>3. Core(AddObject(o, v)) /\ Updated(AddObject(o, v)) = Updated(o)
  BY <1>1, AddCore, Zenon
<1> QED
  BY <1>2, <1>3, SteadyOn, Zenon

LEMMA UpdateSteady ==
  ASSUME Typed, NEW o, NEW w, Steady(o, w),
         NEW i \in Nat, i \in DOMAIN rdr.table, i \notin Updated(o),
         NEW v \in Val, NewKind(Object(i, v), w)
  PROVE  /\ Steady(UpdateObject(o, i, v), w)
         /\ HasWidget(o, w) => HasWidget(UpdateObject(o, i, v), w)
         /\ Updated(UpdateObject(o, i, v)) = Updated(o) \union {i}
         /\ Len(UpdateObject(o, i, v).buf) > Len(file)
<1>1. Core(o) /\ o \in Contexts /\ LastId \in Nat /\ Len(file) \in Nat
  BY TypedFacts DEF Steady, Core
<1>2. /\ Len(UpdateObject(o, i, v).buf) = Len(o.buf) + 1
      /\ Extends(o.buf, UpdateObject(o, i, v).buf)
      /\ UpdateObject(o, i, v).buf[Len(o.buf) + 1] = Object(i, v)
  BY <1>1, UpdateType, Zenon
<1>3. Core(UpdateObject(o, i, v)) /\ Updated(UpdateObject(o, i, v)) = Updated(o) \union {i}
  BY <1>1, UpdateCore, Zenon
<1> QED
  BY <1>2, <1>3, SteadyOn, Zenon

(* An appearance or a font; a marked field.                                *)
LEMMA AddPlain ==
  ASSUME Typed, NEW o \in Contexts, Bounded(o, retried)
  PROVE  /\ AddObject(o, Plain) \in Contexts /\ Bounded(AddObject(o, Plain), retried)
         /\ Extends(o.buf, AddObject(o, Plain).buf) /\ Len(AddObject(o, Plain).buf) = Len(o.buf) + 1
         /\ Len(o.buf) \in Nat /\ Plain \in Val /\ NextId(o) \in Nat /\ NextId(o) > LastId
         /\ \A w : NewKind(Object(NextId(o), Plain), w)
<1>1. LastId \in Nat /\ Plain \in Val
  BY TypedFacts, Makers
<1>2. /\ AddObject(o, Plain) \in Contexts /\ Len(o.buf) \in Nat
      /\ Extends(o.buf, AddObject(o, Plain).buf) /\ Len(AddObject(o, Plain).buf) = Len(o.buf) + 1
      /\ NextId(o) \in Nat /\ NextId(o) = LastId + Len(o.new) + 1
  BY <1>1, AddType, Zenon
<1>3. NextId(o) > LastId
  <2>1. Len(o.new) \in Nat
    BY ContextTypes
  <2> QED
    BY <1>1, <1>2, <2>1
<1>4. Bounded(AddObject(o, Plain), retried)
  BY <1>1, AddBounded
<1>5. \A w : NewKind(Object(NextId(o), Plain), w)
  BY <1>3 DEF NewKind, Object
<1> QED
  BY <1>1, <1>2, <1>3, <1>4, <1>5

(* Marking a field updates it, under its number.                           *)
LEMMA MarkedIs ==
  ASSUME Typed, NEW o \in Contexts, Bounded(o, retried), NEW n \in Names
  PROVE  /\ Marked(o, n) \in Contexts /\ Bounded(Marked(o, n), retried)
         /\ Extends(o.buf, Marked(o, n).buf) /\ Len(Marked(o, n).buf) = Len(o.buf) + 1
         /\ Len(o.buf) \in Nat /\ Here(n) \in Nat /\ Here(n) \in DOMAIN rdr.table /\ Here(n) # 2
         /\ Marked(o, n) =
              UpdateObject(o, Here(n), [Resolve(file, rdr, Here(n)) EXCEPT !.mark = ids.signature])
         /\ [Resolve(file, rdr, Here(n)) EXCEPT !.mark = ids.signature] \in Val
<1> DEFINE i == Here(n)  v == [Resolve(file, rdr, i) EXCEPT !.mark = ids.signature]
<1>1. /\ rdr = Reader(file) /\ Doc(file) /\ ids.signature \in Nat /\ rdr.table = Table(file)
  BY TypedFacts
<1>2. i = FieldOf(file, n) /\ Resolve(file, rdr, i) = Found(file, i)
  BY <1>1, StateNames
<1>3. i \in DOMAIN Table(file) /\ i \in Nat /\ i # 2 /\ Found(file, i) \in FieldVal
  BY <1>1, <1>2, DocField
<1>4. v \in Val
  <2> DEFINE u == Found(file, i)
  <2>1. u \in FieldVal
    BY <1>3
  <2>2. v = [u EXCEPT !.mark = ids.signature]
    BY <1>2
  <2> HIDE DEF u, v, i
  <2>3. v \in FieldVal
    BY ONLY <1>1, <2>1, <2>2 DEF FieldVal
  <2> QED
    BY <2>3 DEF Val
<1>5. Marked(o, n) = UpdateObject(o, i, v)
  BY DEF Marked, Here
<1> HIDE DEF i, v
<1>6. /\ Marked(o, n) \in Contexts /\ Len(o.buf) \in Nat
      /\ Extends(o.buf, Marked(o, n).buf) /\ Len(Marked(o, n).buf) = Len(o.buf) + 1
  BY <1>3, <1>4, <1>5, UpdateType
<1>7. Bounded(Marked(o, n), retried)
  BY <1>3, <1>4, <1>5, UpdateBounded
<1> QED
  BY <1>1, <1>3, <1>4, <1>5, <1>6, <1>7 DEF i, v

(* Marking an empty field that this update has not touched is such a step. *)
LEMMA MarkSteady ==
  ASSUME Typed, NEW o, NEW w, Steady(o, w), NEW n \in Names,
         n \in TextFields \union ({job.into} \ {NoName}),
         Resolve(file, rdr, Here(n)).mark = 0, Here(n) \notin Updated(o), Bounded(o, retried)
  PROVE  /\ Steady(Marked(o, n), w) /\ (HasWidget(o, w) => HasWidget(Marked(o, n), w))
         /\ Updated(Marked(o, n)) = Updated(o) \union {Here(n)}
<1> DEFINE i == Here(n)  v == [Resolve(file, rdr, i) EXCEPT !.mark = ids.signature]
<1>1. o \in Contexts
  BY DEF Steady, Core
<1>2. i \in Nat /\ i \in DOMAIN rdr.table /\ v \in Val /\ Marked(o, n) = UpdateObject(o, i, v)
  BY <1>1, MarkedIs
<1>3. Filled(Object(i, v), n)
  BY DEF Filled, Object
<1>4. NewKind(Object(i, v), w)
  BY <1>3 DEF NewKind
<1> HIDE DEF i, v
<1>5. i \notin Updated(o)
  BY DEF i
<1> QED
  BY <1>2, <1>4, <1>5, UpdateSteady DEF i

-----------------------------------------------------------------------------
(* What has been appended, in the next state.                              *)
LEMMA SteadyNext ==
  ASSUME UNCHANGED <<docVars, job, maxLength>>, ids'.signature = ids.signature,
         ids.signature = LastId + 1, Steady(out', ids'.widget), HasWidget(out', ids'.widget)
  PROVE  /\ Core(out)' /\ Placed(out)' /\ HasWidget(out, ids.widget)'
         /\ (ids.signature = LastId + 1)'
         /\ NewKinds(out, ids.widget, Len(out.buf))'
<1>1. Core(out') /\ Placed(out') /\ NewKinds(out', ids'.widget, Len(out'.buf))
  BY DEF Steady
<1>2. NewKinds(out, ids.widget, Len(out.buf))'
  <2>1. \A p \in Len(file') + 2 .. Len(out'.buf) : NewKind(out.buf[p], ids.widget)'
    BY <1>1, KindsFrame
  <2> QED
    BY <2>1, Zenon DEF NewKinds
<1>3. LastId' = LastId
  BY Frame
<1> QED
  BY <1>1, <1>2, <1>3, Frame

(* What is known while the fields are being written.                       *)
LEMMA BuildingFacts ==
  ASSUME Building, pc \in {"field", "font", "fill"}
  PROVE  /\ Steady(out, ids.widget) /\ HasWidget(out, ids.widget) /\ ids.signature = LastId + 1
         /\ pc = "field" => /\ ids.widget = 0 /\ Updated(out) = {}
                            /\ Len(out.buf) = Len(file) + 1
         /\ pc = "font" => \A n \in TextFields : Here(n) \notin Updated(out)
         /\ pc = "fill" => \A n \in left \intersect TextFields : Here(n) \notin Updated(out)
<1>1. /\ Core(out) /\ Placed(out) /\ HasWidget(out, ids.widget) /\ ids.signature = LastId + 1
      /\ NewKinds(out, ids.widget, Len(out.buf))
  BY DEF Building
<1>2. Steady(out, ids.widget)
  BY <1>1 DEF Steady
<1>3. pc = "field" => ids.widget = 0 /\ out.upd = <<>> /\ Len(out.buf) = Len(file) + 1
  BY DEF Building
<1>4. out.upd = <<>> => Updated(out) = {}
  BY DEF Updated
<1> QED
  BY <1>1, <1>2, <1>3, <1>4 DEF Building

(* Fields of different names have different numbers.                       *)
LEMMA HereDiffers ==
  ASSUME Typed, NEW m \in Names, NEW n \in Names, Here(m) = Here(n)
  PROVE  m = n
<1>1. rdr = Reader(file) /\ Doc(file)
  BY TypedFacts
<1>2. FieldOf(file, m) = FieldOf(file, n)
  BY <1>1, StateNames
<1>3. Found(file, FieldOf(file, m)).name = m /\ Found(file, FieldOf(file, n)).name = n
  BY <1>1, DocField
<1> QED
  BY <1>2, <1>3

(* SignIntoField keeps the invariant.                                      *)
LEMMA SignIntoFieldInv ==
  ASSUME Inv, SignIntoField
  PROVE  Inv'
<1> DEFINE n == job.into
           o == IF job.visible THEN AddObject(out, Plain) ELSE out
<1>1. /\ pc = "field" /\ pc' = "font" /\ n # NoName /\ n \in SigFields
      /\ Resolve(file, rdr, Here(n)).mark = 0
      /\ out' = Marked(o, n)
      /\ UNCHANGED <<docVars, job, ids, left, maxLength, gap, depth, output, retried>>
  BY DEF SignIntoField, Goes, TakesMark, Here
<1>2. Typed /\ Sound
  BY DEF Inv
<1>3. /\ LastId \in Nat /\ Len(file) \in Nat /\ out \in Contexts /\ Len(out.buf) \in Nat
      /\ Bounded(out, retried) /\ ids \in IdTypes /\ job.visible \in BOOLEAN
  BY <1>2, TypedFacts DEF IdTypes
<1>4. n \in Names /\ n \notin TextFields
  BY <1>1, RevisionAssumption DEF Names
<1>5. left = {} /\ maxLength > 0 /\ Len(out.buf) > Len(file) /\ Placed(out)
  BY <1>1, <1>2 DEF Typed, Started
<1>6. o \in Contexts /\ Bounded(o, retried) /\ Extends(out.buf, o.buf) /\ Len(o.buf) >= Len(out.buf)
      /\ Len(o.buf) \in Nat
  <2>1. CASE job.visible
    BY <1>2, <1>3, <2>1, AddPlain
  <2>2. CASE ~job.visible
    BY <1>3, <2>2 DEF Extends
  <2> QED
    BY <1>3, <2>1, <2>2
<1>7. /\ out' \in Contexts /\ Bounded(out', retried) /\ Extends(o.buf, out'.buf)
      /\ Len(out'.buf) = Len(o.buf) + 1
  <2> HIDE DEF o
  <2> QED BY <1>1, <1>2, <1>4, <1>6, MarkedIs
<1>8. Placed(out')
  <2>1. Placed(o) /\ Len(out'.buf) \in Nat
    BY <1>3, <1>5, <1>6, <1>7, PlacedOn
  <2> HIDE DEF o
  <2> QED
    BY <1>3, <1>6, <1>7, <2>1, PlacedOn
<1> HIDE DEF o
<1>9. UNCHANGED <<docVars, job, maxLength>> /\ ids' = ids /\ left' = {} /\ retried' = retried
  BY <1>1, <1>5
<1>10. Placed(out)'
  BY <1>8, <1>9, Frame
<1>11. Typed'
  <2>1. Bounded(out', retried') /\ Len(out'.buf) > Len(file) /\ ids' \in IdTypes
    BY <1>3, <1>7, <1>8, <1>9 DEF Placed
  <2>2. UNCHANGED <<docVars, job, maxLength, gap, depth, retried>>
    BY <1>1
  <2> QED
    BY <1>1, <1>2, <1>4, <1>5, <1>7, <1>9, <1>10, <2>1, <2>2, TypedStep
<1>12. ASSUME ~retried PROVE Building'
  <2>1. Building
    BY <1>1, <1>2, <1>12 DEF Sound
  <2>2. /\ Steady(out, ids.widget) /\ HasWidget(out, ids.widget) /\ ids.signature = LastId + 1
        /\ Updated(out) = {}
    BY <1>1, <2>1, BuildingFacts
  <2>3. Steady(o, ids.widget) /\ HasWidget(o, ids.widget) /\ Updated(o) = {}
    <3>1. CASE job.visible
      <4>1. o = AddObject(out, Plain)
        BY <3>1 DEF o
      <4>2. Plain \in Val /\ NewKind(Object(NextId(out), Plain), ids.widget)
        BY <1>2, <1>3, AddPlain
      <4> QED
        BY <1>2, <2>2, <4>1, <4>2, AddSteady
    <3>2. CASE ~job.visible
      BY <2>2, <3>2 DEF o
    <3> QED
      BY <1>3, <3>1, <3>2
  <2>4. /\ Steady(out', ids.widget) /\ HasWidget(out', ids.widget)
        /\ Updated(out') = {Here(n)}
    <3>1. n \in TextFields \union ({job.into} \ {NoName}) /\ Here(n) \notin Updated(o)
      BY <1>1, <2>3
    <3> QED
      BY <1>1, <1>2, <1>4, <1>6, <2>3, <3>1, MarkSteady
  <2>5. /\ Core(out)' /\ Placed(out)' /\ HasWidget(out, ids.widget)'
        /\ (ids.signature = LastId + 1)'
        /\ NewKinds(out, ids.widget, Len(out.buf))'
    BY <1>9, <2>2, <2>4, SteadyNext
  <2>6. \A m \in TextFields : Here(m)' \notin Updated(out')
    <3> TAKE m \in TextFields
    <3>1. Here(m)' = Here(m)
      BY <1>9, Frame
    <3>2. m \in Names /\ m # n
      BY <1>4 DEF Names
    <3>3. Here(m) # Here(n)
      BY <1>2, <1>4, <3>2, HereDiffers
    <3> QED
      BY <2>4, <3>1, <3>3
  <2> QED
    BY <1>1, <2>5, <2>6, Zenon DEF Building, Updated
<1>13. Sound'
  BY <1>1, <1>2, <1>12 DEF Sound, Done
<1> QED
  BY <1>11, <1>13 DEF Inv

-----------------------------------------------------------------------------
(* Adding an object.                                                       *)
LEMMA AddsOne ==
  ASSUME Typed, NEW o \in Contexts, Bounded(o, retried), NEW v \in Val
  PROVE  /\ AddObject(o, v) \in Contexts /\ Bounded(AddObject(o, v), retried)
         /\ Extends(o.buf, AddObject(o, v).buf) /\ Len(AddObject(o, v).buf) = Len(o.buf) + 1
         /\ AddObject(o, v).buf[Len(o.buf) + 1] = Object(NextId(o), v)
         /\ Len(o.buf) \in Nat /\ NextId(o) \in Nat /\ NextId(o) > LastId
<1>1. LastId \in Nat
  BY TypedFacts
<1>2. /\ AddObject(o, v) \in Contexts /\ Len(o.buf) \in Nat
      /\ Extends(o.buf, AddObject(o, v).buf) /\ Len(AddObject(o, v).buf) = Len(o.buf) + 1
      /\ AddObject(o, v).buf[Len(o.buf) + 1] = Object(NextId(o), v)
      /\ NextId(o) \in Nat /\ NextId(o) = LastId + Len(o.new) + 1
  BY <1>1, AddType, Zenon
<1>3. NextId(o) > LastId
  <2>1. Len(o.new) \in Nat
    BY ContextTypes
  <2> QED
    BY <1>1, <1>2, <2>1
<1>4. Bounded(AddObject(o, v), retried)
  BY <1>1, AddBounded
<1> QED
  BY <1>2, <1>3, <1>4

(* AddWidget keeps the invariant.                                          *)
LEMMA AddWidgetInv ==
  ASSUME Inv, AddWidget
  PROVE  Inv'
<1> DEFINE shown  == IF job.visible THEN AddObject(out, Plain) ELSE out
           widget == NextId(shown)
           v      == Widget(Cardinality(Existing) + 1, ids.signature)
           added  == AddObject(shown, v)
           page   == Page(Resolve(file, rdr, 2).annots \union {widget})
<1>1. /\ pc = "field" /\ pc' = "font" /\ job.into = NoName
      /\ out' = IF job.visible THEN UpdateObject(added, 2, page) ELSE added
      /\ ids' = [ids EXCEPT !.widget = widget]
      /\ UNCHANGED <<docVars, job, left, maxLength, gap, depth, output, retried>>
  BY DEF AddWidget, Goes
<1>2. Typed /\ Sound
  BY DEF Inv
<1>3. /\ LastId \in Nat /\ Len(file) \in Nat /\ out \in Contexts /\ Len(out.buf) \in Nat
      /\ Bounded(out, retried) /\ ids \in IdTypes /\ job.visible \in BOOLEAN /\ ids.signature \in Nat
      /\ rdr = Reader(file) /\ Doc(file) /\ rdr.table = Table(file)
  BY <1>2, TypedFacts DEF IdTypes
<1>4. left = {} /\ maxLength > 0 /\ Len(out.buf) > Len(file) /\ Placed(out)
  BY <1>1, <1>2 DEF Typed, Started
<1>5. /\ shown \in Contexts /\ Bounded(shown, retried) /\ Extends(out.buf, shown.buf)
      /\ Len(shown.buf) \in Nat /\ Len(shown.buf) >= Len(out.buf)
  <2>1. CASE job.visible
    BY <1>2, <1>3, <2>1, AddPlain
  <2>2. CASE ~job.visible
    BY <1>3, <2>2 DEF Extends
  <2> QED
    BY <1>3, <2>1, <2>2
<1>6. v \in Val
  BY <1>3, StateTypes, Makers DEF IdTypes
<1> HIDE DEF v
<1>7. /\ added \in Contexts /\ Bounded(added, retried) /\ Extends(shown.buf, added.buf)
      /\ Len(added.buf) = Len(shown.buf) + 1 /\ widget \in Nat /\ widget > LastId
      /\ added.buf[Len(shown.buf) + 1] = Object(widget, v)
  <2> HIDE DEF shown
  <2> QED BY <1>2, <1>5, <1>6, AddsOne
<1>8. page \in PageVal /\ page \in Val /\ 2 \in DOMAIN rdr.table
  <2>1. Resolve(file, rdr, 2) \in PageVal /\ 2 \in DOMAIN rdr.table
    BY <1>3, DocForm, StateNames
  <2>2. Resolve(file, rdr, 2).annots \in SUBSET Nat
    BY <2>1 DEF PageVal
  <2>3. Resolve(file, rdr, 2).annots \union {widget} \in SUBSET Nat
    BY <1>7, <2>2
  <2> QED
    BY <2>1, <2>3, Makers
<1> HIDE DEF added, page, widget, shown
<1>9. /\ out' \in Contexts /\ Bounded(out', retried) /\ Extends(added.buf, out'.buf)
      /\ Len(out'.buf) \in Nat /\ Len(out'.buf) >= Len(added.buf)
  <2>1. Len(added.buf) \in Nat
    BY <1>5, <1>7
  <2>2. CASE job.visible
    <3>1. /\ UpdateObject(added, 2, page) \in Contexts
          /\ Extends(added.buf, UpdateObject(added, 2, page).buf)
          /\ Len(UpdateObject(added, 2, page).buf) = Len(added.buf) + 1
      BY <1>7, <1>8, UpdateType
    <3>2. Bounded(UpdateObject(added, 2, page), retried)
      BY <1>7, <1>8, UpdateBounded
    <3> QED
      BY <1>1, <2>1, <2>2, <3>1, <3>2
  <2>3. CASE ~job.visible
    BY <1>1, <1>7, <2>1, <2>3 DEF Extends
  <2> QED
    BY <1>3, <2>2, <2>3
<1>10. Placed(out')
  <2>1. Placed(shown)
    BY <1>3, <1>4, <1>5, PlacedOn
  <2>2. Placed(added) /\ Len(added.buf) \in Nat
    BY <1>3, <1>5, <1>7, <2>1, PlacedOn
  <2> QED
    BY <1>3, <1>9, <2>2, PlacedOn
<1>11. UNCHANGED <<docVars, job, maxLength>> /\ left' = {} /\ retried' = retried
  BY <1>1, <1>4
<1>12. ids' \in IdTypes /\ ids'.signature = ids.signature /\ ids'.widget = widget
  BY <1>1, <1>3, <1>7, IdsChange
<1>13. Placed(out)'
  BY <1>10, <1>11, <1>12, Frame
<1>14. Typed'
  <2>1. Bounded(out', retried') /\ Len(out'.buf) > Len(file)
    BY <1>9, <1>10, <1>11 DEF Placed
  <2>2. UNCHANGED <<docVars, job, maxLength, gap, depth, retried>>
    BY <1>1
  <2>3. job.into \notin TextFields
    BY <1>1, RevisionAssumption DEF Names
  <2> QED
    BY <1>1, <1>2, <1>4, <1>9, <1>11, <1>12, <1>13, <2>1, <2>2, <2>3, TypedStep
<1>15. ASSUME ~retried PROVE Building'
  <2>1. Building
    BY <1>1, <1>2, <1>15 DEF Sound
  <2>2. /\ Steady(out, ids.widget) /\ ids.signature = LastId + 1
        /\ Updated(out) = {} /\ Len(out.buf) = Len(file) + 1
    BY <1>1, <2>1, BuildingFacts
  <2>3. Steady(out, widget)
    <3>1. Len(file) + 2 .. Len(out.buf) = {}
      BY <1>3, <2>2
    <3> QED
      BY <2>2, <3>1 DEF Steady, NewKinds
  <2>4. Steady(shown, widget) /\ Updated(shown) = {}
    <3>1. CASE job.visible
      <4>1. shown = AddObject(out, Plain)
        BY <3>1 DEF shown
      <4>2. Plain \in Val /\ NewKind(Object(NextId(out), Plain), widget)
        BY <1>2, <1>3, AddPlain
      <4> QED
        BY <1>2, <2>2, <2>3, <4>1, <4>2, AddSteady
    <3>2. CASE ~job.visible
      BY <2>2, <2>3, <3>2 DEF shown
    <3> QED
      BY <1>3, <3>1, <3>2
  <2>5. Steady(added, widget) /\ Updated(added) = {}
    <3>1. NewKind(Object(widget, v), widget)
      BY <1>7 DEF NewKind, Object, v
    <3> QED
      BY <1>2, <1>6, <2>4, <3>1, AddSteady DEF added, widget
  <2>6. HasWidget(added, widget)
    <3>1. Len(shown.buf) + 1 \in Len(file) + 2 .. Len(added.buf)
      BY <1>3, <1>4, <1>5, <1>7
    <3> QED
      BY <1>7, <3>1 DEF HasWidget, v
  <2>7. Steady(out', widget) /\ HasWidget(out', widget) /\ \A i \in Updated(out') : i = 2
    <3>1. CASE job.visible
      <4>1. out' = UpdateObject(added, 2, page)
        BY <1>1, <3>1
      <4>2. NewKind(Object(2, page), widget)
        BY <1>8 DEF NewKind, Object
      <4>3. /\ Steady(UpdateObject(added, 2, page), widget)
            /\ HasWidget(UpdateObject(added, 2, page), widget)
            /\ Updated(UpdateObject(added, 2, page)) = Updated(added) \union {2}
        BY <1>2, <1>8, <2>5, <2>6, <4>2, UpdateSteady
      <4> QED
        BY <2>5, <4>1, <4>3
    <3>2. CASE ~job.visible
      BY <1>1, <2>5, <2>6, <3>2
    <3> QED
      BY <1>3, <3>1, <3>2
  <2>8. /\ Core(out)' /\ Placed(out)' /\ HasWidget(out, ids.widget)'
        /\ (ids.signature = LastId + 1)'
        /\ NewKinds(out, ids.widget, Len(out.buf))'
    BY <1>11, <1>12, <2>2, <2>7, SteadyNext
  <2>9. \A m \in TextFields : Here(m)' \notin Updated(out')
    <3> TAKE m \in TextFields
    <3>1. Here(m)' = Here(m)
      BY <1>11, <1>12, Frame
    <3>2. Here(m) # 2
      BY <1>2, <1>3, MarkedIs DEF Names
    <3> QED
      BY <2>7, <3>1, <3>2
  <2> QED
    BY <1>1, <2>8, <2>9, Zenon DEF Building, Updated
<1>16. Sound'
  BY <1>1, <1>2, <1>15 DEF Sound, Done
<1> QED
  BY <1>14, <1>16 DEF Inv

-----------------------------------------------------------------------------
(* AddFont keeps the invariant.                                            *)
LEMMA AddFontInv ==
  ASSUME Inv, AddFont
  PROVE  Inv'
<1>1. /\ pc = "font" /\ pc' = "fill" /\ out' = AddObject(out, Plain) /\ left' = job.fills
      /\ UNCHANGED <<docVars, job, ids, maxLength, gap, depth, output, retried>>
  BY DEF AddFont, Goes
<1>2. Typed /\ Sound
  BY DEF Inv
<1>3. /\ LastId \in Nat /\ Len(file) \in Nat /\ out \in Contexts /\ Len(out.buf) \in Nat
      /\ Bounded(out, retried) /\ ids \in IdTypes
  BY <1>2, TypedFacts DEF IdTypes
<1>4. maxLength > 0 /\ Len(out.buf) > Len(file) /\ Placed(out) /\ job.into \notin TextFields
  BY <1>1, <1>2 DEF Typed, Started
<1>5. /\ out' \in Contexts /\ Bounded(out', retried) /\ Extends(out.buf, out'.buf)
      /\ Len(out'.buf) = Len(out.buf) + 1 /\ Plain \in Val
      /\ \A w : NewKind(Object(NextId(out), Plain), w)
  BY <1>1, <1>2, <1>3, AddPlain
<1>6. Placed(out')
  BY <1>3, <1>4, <1>5, PlacedOn
<1>7. UNCHANGED <<docVars, job, maxLength>> /\ ids' = ids /\ retried' = retried
  BY <1>1
<1>8. Placed(out)'
  BY <1>6, <1>7, Frame
<1>9. Typed'
  <2>1. Bounded(out', retried') /\ Len(out'.buf) > Len(file) /\ ids' \in IdTypes
    BY <1>3, <1>5, <1>6, <1>7 DEF Placed
  <2>2. UNCHANGED <<docVars, job, maxLength, gap, depth, retried>>
    BY <1>1
  <2> QED
    BY <1>1, <1>2, <1>4, <1>5, <1>8, <2>1, <2>2, TypedStep
<1>10. ASSUME ~retried PROVE Building'
  <2>1. Building
    BY <1>1, <1>2, <1>10 DEF Sound
  <2>2. /\ Steady(out, ids.widget) /\ HasWidget(out, ids.widget) /\ ids.signature = LastId + 1
        /\ \A n \in TextFields : Here(n) \notin Updated(out)
    BY <1>1, <2>1, BuildingFacts
  <2>3. /\ Steady(out', ids.widget) /\ HasWidget(out', ids.widget) /\ Updated(out') = Updated(out)
    BY <1>1, <1>2, <1>5, <2>2, AddSteady
  <2>4. /\ Core(out)' /\ Placed(out)' /\ HasWidget(out, ids.widget)'
        /\ (ids.signature = LastId + 1)'
        /\ NewKinds(out, ids.widget, Len(out.buf))'
    BY <1>7, <2>2, <2>3, SteadyNext
  <2>5. \A m \in left' \intersect TextFields : Here(m)' \notin Updated(out')
    BY <1>7, <2>2, <2>3, Frame
  <2> QED
    BY <1>1, <2>4, <2>5, Zenon DEF Building, Updated
<1>11. Sound'
  BY <1>1, <1>2, <1>10 DEF Sound, Done
<1> QED
  BY <1>9, <1>11 DEF Inv

(* FillField keeps the invariant: a field still to fill has not been       *)
(* touched.                                                                *)
LEMMA FillFieldInv ==
  ASSUME Inv, NEW n \in Names, FillField(n)
  PROVE  Inv'
<1> DEFINE o == AddObject(out, Plain)
<1>1. /\ pc = "fill" /\ pc' = "fill" /\ n \in left /\ n \in TextFields
      /\ Resolve(file, rdr, Here(n)).mark = 0
      /\ out' = Marked(o, n) /\ left' = left \ {n}
      /\ UNCHANGED <<docVars, job, ids, maxLength, gap, depth, output, retried>>
  BY DEF FillField, TakesMark, Here
<1>2. Typed /\ Sound
  BY DEF Inv
<1>3. /\ LastId \in Nat /\ Len(file) \in Nat /\ out \in Contexts /\ Len(out.buf) \in Nat
      /\ Bounded(out, retried) /\ ids \in IdTypes
  BY <1>2, TypedFacts DEF IdTypes
<1>4. /\ maxLength > 0 /\ Len(out.buf) > Len(file) /\ Placed(out) /\ job.into \notin TextFields
      /\ left \subseteq job.fills
  BY <1>1, <1>2 DEF Typed, Started, RevisionTypeOK
<1>5. /\ o \in Contexts /\ Bounded(o, retried) /\ Extends(out.buf, o.buf)
      /\ Len(o.buf) = Len(out.buf) + 1 /\ Plain \in Val
      /\ \A w : NewKind(Object(NextId(out), Plain), w)
  BY <1>2, <1>3, AddPlain
<1>6. /\ out' \in Contexts /\ Bounded(out', retried) /\ Extends(o.buf, out'.buf)
      /\ Len(out'.buf) = Len(o.buf) + 1
  <2> HIDE DEF o
  <2> QED BY <1>1, <1>2, <1>5, MarkedIs
<1>7. Placed(out')
  <2>1. Placed(o) /\ Len(o.buf) \in Nat
    BY <1>3, <1>4, <1>5, PlacedOn
  <2>2. Len(out'.buf) \in Nat
    BY <1>6, <2>1
  <2> HIDE DEF o
  <2> QED
    BY <1>3, <1>6, <2>1, <2>2, PlacedOn
<1>8. UNCHANGED <<docVars, job, maxLength>> /\ ids' = ids /\ retried' = retried
  BY <1>1
<1>9. Placed(out)'
  BY <1>7, <1>8, Frame
<1>10. Typed'
  <2>1. Bounded(out', retried') /\ Len(out'.buf) > Len(file) /\ ids' \in IdTypes
    BY <1>3, <1>6, <1>7, <1>8 DEF Placed
  <2>2. UNCHANGED <<docVars, job, maxLength, gap, depth, retried>> /\ left' \subseteq job.fills
    BY <1>1, <1>4
  <2> QED
    BY <1>1, <1>2, <1>4, <1>6, <1>9, <2>1, <2>2, TypedStep
<1>11. ASSUME ~retried PROVE Building'
  <2>1. Building
    BY <1>1, <1>2, <1>11 DEF Sound
  <2>2. /\ Steady(out, ids.widget) /\ HasWidget(out, ids.widget) /\ ids.signature = LastId + 1
        /\ \A m \in left \intersect TextFields : Here(m) \notin Updated(out)
    BY <1>1, <2>1, BuildingFacts
  <2>3. /\ Steady(o, ids.widget) /\ HasWidget(o, ids.widget) /\ Updated(o) = Updated(out)
    BY <1>2, <1>5, <2>2, AddSteady
  <2> HIDE DEF o
  <2>4. /\ Steady(out', ids.widget) /\ HasWidget(out', ids.widget)
        /\ Updated(out') = Updated(out) \union {Here(n)}
    BY <1>1, <1>2, <1>5, <2>2, <2>3, MarkSteady
  <2>5. /\ Core(out)' /\ Placed(out)' /\ HasWidget(out, ids.widget)'
        /\ (ids.signature = LastId + 1)'
        /\ NewKinds(out, ids.widget, Len(out.buf))'
    BY <1>8, <2>2, <2>4, SteadyNext
  <2>6. \A m \in left' \intersect TextFields : Here(m)' \notin Updated(out')
    <3> TAKE m \in left' \intersect TextFields
    <3>1. Here(m)' = Here(m)
      BY <1>8, Frame
    <3>2. m \in Names /\ m # n /\ m \in left \intersect TextFields
      BY <1>1 DEF Names
    <3>3. Here(m) # Here(n)
      BY <1>2, <3>2, HereDiffers
    <3> QED
      BY <2>2, <2>4, <3>1, <3>2, <3>3
  <2> QED
    BY <1>1, <2>5, <2>6, Zenon DEF Building, Updated
<1>12. Sound'
  BY <1>1, <1>2, <1>11 DEF Sound, Done
<1> QED
  BY <1>10, <1>12 DEF Inv

(* WriteCatalog keeps the invariant.                                       *)
LEMMA WriteCatalogInv ==
  ASSUME Inv, WriteCatalog
  PROVE  Inv'
<1> DEFINE v == Catalog(NewFields)
<1>1. /\ pc \in {"font", "fill"} /\ pc' = "xref" /\ out' = AddObject(out, v)
      /\ pc = "fill" => left = {}
      /\ ids' = [ids EXCEPT !.catalog = NextId(out)]
      /\ UNCHANGED <<docVars, job, left, maxLength, gap, depth, output, retried>>
  BY DEF WriteCatalog, Goes
<1>2. Typed /\ Sound
  BY DEF Inv
<1>3. /\ LastId \in Nat /\ Len(file) \in Nat /\ out \in Contexts /\ Len(out.buf) \in Nat
      /\ Bounded(out, retried) /\ ids \in IdTypes /\ rdr = Reader(file) /\ Doc(file)
  BY <1>2, TypedFacts DEF IdTypes
<1>4. /\ maxLength > 0 /\ Len(out.buf) > Len(file) /\ Placed(out) /\ job.into \notin TextFields
      /\ left = {}
  BY <1>1, <1>2 DEF Typed, Started
<1>5. v \in Val
  BY <1>3, StateTypes, Makers DEF IdTypes
<1>6. /\ out' \in Contexts /\ Bounded(out', retried) /\ Extends(out.buf, out'.buf)
      /\ Len(out'.buf) = Len(out.buf) + 1
      /\ out'.buf[Len(out.buf) + 1] = Object(NextId(out), v)
      /\ NextId(out) \in Nat /\ NextId(out) > LastId
  <2> HIDE DEF v
  <2> QED BY <1>1, <1>2, <1>3, <1>5, AddsOne
<1>7. Placed(out')
  BY <1>3, <1>4, <1>6, PlacedOn
<1>8. /\ ids' \in IdTypes /\ ids'.signature = ids.signature /\ ids'.widget = ids.widget
      /\ ids'.catalog = NextId(out)
  BY <1>1, <1>3, <1>6, IdsChange
<1>9. UNCHANGED <<docVars, job, maxLength>> /\ retried' = retried /\ left' = {}
  BY <1>1, <1>4
<1>10. Placed(out)'
  BY <1>7, <1>8, <1>9, Frame
<1>11. Typed'
  <2>1. Bounded(out', retried') /\ Len(out'.buf) > Len(file)
    BY <1>3, <1>6, <1>7, <1>9 DEF Placed
  <2>2. UNCHANGED <<docVars, job, maxLength, gap, depth, retried>> /\ left' \subseteq job.fills
    BY <1>1, <1>9
  <2> QED
    BY <1>1, <1>2, <1>4, <1>6, <1>8, <1>9, <1>10, <2>1, <2>2, TypedStep
<1>12. ASSUME ~retried PROVE Building'
  <2>1. Building
    BY <1>1, <1>2, <1>12 DEF Sound
  <2>2. /\ Steady(out, ids.widget) /\ HasWidget(out, ids.widget) /\ ids.signature = LastId + 1
    BY <1>1, <2>1, BuildingFacts
  <2>3. Core(out')
    <3>1. Core(out)
      BY <2>2 DEF Steady
    <3> HIDE DEF v
    <3> QED
      BY <1>1, <1>3, <1>5, <3>1, AddCore
  <2>4. HasWidget(out', ids'.widget)
    <3>1. \A p \in Len(file) + 2 .. Len(out.buf) :
            p \in Len(file) + 2 .. Len(out'.buf) /\ out'.buf[p] = out.buf[p]
      BY <1>3, <1>6 DEF Extends
    <3> QED
      BY <1>8, <2>2, <3>1, Zenon DEF HasWidget
  <2>5. NewKinds(out', ids'.widget, Len(out.buf))
    <3>1. \A p \in Len(file) + 2 .. Len(out.buf) : out'.buf[p] = out.buf[p]
      BY <1>3, <1>6 DEF Extends
    <3>2. \A p \in Len(file) + 2 .. Len(out.buf) : NewKind(out.buf[p], ids.widget)
      BY <2>2 DEF Steady, NewKinds
    <3> QED
      BY <1>8, <3>1, <3>2, Zenon DEF NewKinds
  <2>6. /\ Core(out)' /\ Placed(out)' /\ HasWidget(out, ids.widget)' /\ LastId' = LastId
    BY <1>7, <1>8, <1>9, <2>3, <2>4, Frame
  <2>7. Len(out'.buf) - 1 = Len(out.buf)
    BY <1>3, <1>6
  <2>8. NewKinds(out, ids.widget, Len(out.buf) - 1)'
    <3>1. \A p \in Len(file') + 2 .. Len(out'.buf) - 1 : NewKind(out.buf[p], ids.widget)'
      BY <1>8, <1>9, <2>5, <2>7, KindsFrame
    <3> QED
      BY <3>1, Zenon DEF NewKinds
  <2>9. NewFields' = NewFields
    BY <1>8, <1>9 DEF NewFields, docVars
  <2>10. out'.buf[Len(out'.buf)] = Object(ids'.catalog, Catalog(NewFields'))
    BY <1>6, <1>8, <2>9
  <2>11. Len(out'.buf) > Len(file') + 1 /\ ids'.catalog > LastId'
    BY <1>3, <1>4, <1>6, <1>8, <1>9, <2>6 DEF docVars
  <2>12. (ids.signature = LastId + 1)'
    BY <1>8, <2>2, <2>6
  <2> QED
    BY <1>1, <2>6, <2>8, <2>10, <2>11, <2>12, Zenon DEF Building
<1>13. Sound'
  BY <1>1, <1>2, <1>12 DEF Sound, Done
<1> QED
  BY <1>11, <1>13 DEF Inv

-----------------------------------------------------------------------------
(* Before the section is written everything else has been.                 *)
LEMMA BuildingComplete ==
  ASSUME Typed, Building, pc = "xref"
  PROVE  Complete
<1>1. /\ rdr = Reader(file) /\ Doc(file)
      /\ ids \in [{"signature", "widget", "catalog"} -> Nat] /\ maxLength \in Nat
      /\ job.into \in Names \union {NoName}
  BY TypedFacts
<1> QED
  BY <1>1 DEF Building, Complete

(* The entries of the section.                                             *)
LEMMA ListedType ==
  ASSUME NEW o \in Contexts, LastId \in Nat
  PROVE  o.upd \o [k \in 1 .. Len(o.new) |-> <<LastId + k, o.new[k][2]>>] \in Seq(Nat \X Nat)
<1> DEFINE N == Len(o.new)
           M == [k \in 1 .. N |-> <<LastId + k, o.new[k][2]>>]
<1>1. o.new \in Seq(Pairs) /\ o.upd \in Seq(Pairs) /\ N \in Nat /\ DOMAIN o.new = 1 .. N
  BY ContextTypes
<1>2. \A k \in 1 .. N : o.new[k] \in Nat \X Nat
  BY <1>1 DEF Pairs
<1>3. \A k \in 1 .. N : <<LastId + k, o.new[k][2]>> \in Pairs
  BY <1>1, <1>2 DEF Pairs
<1>4. M \in [1 .. N -> Pairs]
  BY <1>3
<1> HIDE DEF M, N
<1>5. M \in Seq(Pairs)
  BY <1>1, <1>4
<1>6. o.upd \o M \in Seq(Pairs)
  <2> DEFINE a == o.upd
  <2>1. a \in Seq(Pairs)
    BY <1>1
  <2> HIDE DEF a
  <2>2. a \o M \in Seq(Pairs)
    BY ONLY <1>5, <2>1, Concat
  <2> QED
    BY <2>2 DEF a
<1> QED
  BY <1>6 DEF M, N, Pairs

(* WriteXref appends the section and the end, in both formats.             *)
LEMMA WriteXrefOut ==
  ASSUME Typed, WriteXref
  PROVE  /\ pc = "xref" /\ pc' = "range"
         /\ UNCHANGED <<docVars, job, ids, left, maxLength, gap, depth, output, retried>>
         /\ out' \in Contexts /\ Bounded(out', retried)
         /\ Extends(out.buf, out'.buf) /\ Len(out'.buf) = Len(out.buf) + 2
         /\ \E sid \in Nat : sid \in {0, LastId + Len(out.new) + 1} /\ out'.buf = WithSection(sid)
<1> DEFINE section == Xref(Listed, rdr.start, ids.catalog, NewSize)
           written == IF xrefType = "stream" THEN AddObject(out, section)
                      ELSE [out EXCEPT !.buf = Append(@, Object(0, section))]
           end == Object(0, End(Len(out.buf) + 1))
           sid == IF xrefType = "stream" THEN NextId(out) ELSE 0
<1>1. /\ pc = "xref" /\ pc' = "range"
      /\ out' = [written EXCEPT !.buf = Append(@, end)]
      /\ UNCHANGED <<docVars, job, ids, left, maxLength, gap, depth, output, retried>>
  BY DEF WriteXref, Goes
<1>2. /\ LastId \in Nat /\ out \in Contexts /\ Len(out.buf) \in Nat /\ Bounded(out, retried)
      /\ ids.catalog \in Nat /\ rdr = Reader(file) /\ Doc(file) /\ out.buf \in Seq(Segments)
      /\ retried \in BOOLEAN
  BY TypedFacts
<1>3. section = NewSection
  BY DEF NewSection
<1>4. section \in Val
  <2>1. Listed \in Seq(Nat \X Nat)
    BY <1>2, ListedType DEF Listed
  <2>2. rdr.start \in Nat /\ rdr.size \in Nat /\ Len(out.new) \in Nat
    BY <1>2, LastIdIs, DocReader, ContextTypes
  <2>3. NewSize \in Nat
    BY <2>2 DEF NewSize
  <2>4. \A es \in Seq(Nat \X Nat) : \A a, b, c \in Nat : Xref(es, a, b, c) \in Val
    BY Makers
  <2> QED
    BY <1>2, <2>1, <2>2, <2>3, <2>4
<1> HIDE DEF section
<1>5. end \in Segments
  BY <1>2, Makers
<1> HIDE DEF end
<1>6. /\ sid \in Nat /\ sid \in {0, LastId + Len(out.new) + 1}
      /\ written \in Contexts /\ Bounded(written, retried)
      /\ written.buf = Append(out.buf, Object(sid, section))
  <2>1. CASE xrefType = "stream"
    <3>1. written = AddObject(out, section) /\ sid = NextId(out)
      BY <2>1
    <3>2. /\ NextId(out) \in Nat /\ NextId(out) = LastId + Len(out.new) + 1
          /\ AddObject(out, section) \in Contexts
          /\ AddObject(out, section).buf = Append(out.buf, Object(NextId(out), section))
      BY <1>2, <1>4, AddType, Zenon
    <3>3. Bounded(AddObject(out, section), retried)
      BY <1>2, <1>4, AddBounded
    <3> QED
      BY <3>1, <3>2, <3>3
  <2>2. CASE xrefType # "stream"
    <3> DEFINE b == Append(out.buf, Object(sid, section))
    <3>1. written = [out EXCEPT !.buf = b] /\ sid = 0
      BY <2>2
    <3>2. Object(sid, section) \in Segments
      BY <1>4, <3>1, Makers
    <3>3. b \in Seq(Segments) /\ Len(b) = Len(out.buf) + 1
      BY <1>2, <3>2, Appends
    <3> HIDE DEF b
    <3>4. written = [buf |-> b, new |-> out.new, upd |-> out.upd]
      BY <1>2, <3>1, ContextChanges, Zenon
    <3> HIDE DEF written
    <3>5. out.new \in Seq(Pairs) /\ out.upd \in Seq(Pairs)
      BY <1>2, ContextTypes
    <3>6. written.buf = b /\ written.new = out.new /\ written.upd = out.upd
      BY <3>4
    <3>7. written \in Contexts
      BY <3>3, <3>4, <3>5 DEF Contexts, Pairs
    <3>8. Bounded(written, retried)
      <4>1. \A k \in DOMAIN out.new : out.new[k] \in Pairs
        BY <3>5
      <4>2. \A k \in DOMAIN out.upd : out.upd[k] \in Pairs
        BY <3>5
      <4> QED
        BY <1>2, <3>3, <3>6, <4>1, <4>2 DEF Bounded, Pairs
    <3> QED
      BY <3>1, <3>6, <3>7, <3>8 DEF b
  <2> QED
    BY <2>1, <2>2
<1> HIDE DEF written, sid
<1>7. /\ written.buf \in Seq(Segments) /\ Len(written.buf) = Len(out.buf) + 1
      /\ Extends(out.buf, written.buf)
  BY <1>2, <1>4, <1>6, Makers, Appends
<1>8. out' \in Contexts /\ out'.buf = Append(written.buf, end)
      /\ out'.new = written.new /\ out'.upd = written.upd
  <2> DEFINE b == Append(written.buf, end)
  <2>1. out' = [written EXCEPT !.buf = b]
    BY <1>1
  <2>2. b \in Seq(Segments)
    BY <1>5, <1>7, Appends
  <2> HIDE DEF b
  <2>3. out' = [buf |-> b, new |-> written.new, upd |-> written.upd]
    BY <1>6, <2>1, ContextChanges, Zenon
  <2>4. written.new \in Seq(Pairs) /\ written.upd \in Seq(Pairs)
    BY <1>6, ContextTypes
  <2>5. out'.buf = b /\ out'.new = written.new /\ out'.upd = written.upd
    BY <2>3
  <2>6. out' \in Contexts
    BY <2>2, <2>3, <2>4 DEF Contexts, Pairs
  <2> QED
    BY <2>5, <2>6 DEF b
<1>9. Len(out'.buf) = Len(written.buf) + 1 /\ Extends(written.buf, out'.buf)
  BY <1>5, <1>7, <1>8, Appends
<1>10. Len(out'.buf) = Len(out.buf) + 2
  BY <1>2, <1>7, <1>9
<1>11. Extends(out.buf, out'.buf)
  <2>1. Len(written.buf) \in Nat /\ Len(out'.buf) \in Nat
    BY <1>2, <1>7, <1>10
  <2> QED
    BY <1>2, <1>7, <1>9, <2>1, ExtendsOn
<1>12. Bounded(out', retried)
  <2>1. \A k \in DOMAIN written.new : written.new[k] \in Pairs
    BY <1>6, ContextTypes
  <2>2. \A k \in DOMAIN written.upd : written.upd[k] \in Pairs
    BY <1>6, ContextTypes
  <2>3. Len(written.buf) \in Nat
    BY <1>2, <1>7
  <2> QED
    BY <1>6, <1>8, <1>9, <2>1, <2>2, <2>3 DEF Bounded, Pairs
<1>13. out'.buf = WithSection(sid)
  BY <1>3, <1>6, <1>8 DEF WithSection, end
<1> QED
  BY <1>1, <1>6, <1>8, <1>10, <1>11, <1>12, <1>13

(* WriteXref keeps the invariant: the document is in order from here on.   *)
LEMMA WriteXrefInv ==
  ASSUME Inv, WriteXref
  PROVE  Inv'
<1>1. Typed /\ Sound
  BY DEF Inv
<1>2. /\ pc = "xref" /\ pc' = "range"
      /\ UNCHANGED <<docVars, job, ids, left, maxLength, gap, depth, output, retried>>
      /\ out' \in Contexts /\ Bounded(out', retried)
      /\ Extends(out.buf, out'.buf) /\ Len(out'.buf) = Len(out.buf) + 2
  BY <1>1, WriteXrefOut
<1>3. PICK sid \in Nat : sid \in {0, LastId + Len(out.new) + 1} /\ out'.buf = WithSection(sid)
  BY <1>1, WriteXrefOut
<1>4. /\ Len(file) \in Nat /\ Len(out.buf) \in Nat /\ ids \in IdTypes
  BY <1>1, TypedFacts DEF IdTypes
<1>5. /\ maxLength > 0 /\ Len(out.buf) > Len(file) /\ Placed(out) /\ left = {}
      /\ job.into \notin TextFields
  BY <1>1, <1>2 DEF Typed, Started
<1>6. Len(out'.buf) \in Nat /\ Len(out'.buf) > Len(file) + 1
  BY <1>2, <1>4, <1>5
<1>7. Placed(out')
  BY <1>2, <1>4, <1>5, <1>6, PlacedOn
<1>8. Placed(out)'
  BY <1>2, <1>7, Frame
<1>9. Typed'
  <2>1. Bounded(out', retried') /\ Len(out'.buf) > Len(file) /\ ids' \in IdTypes
    BY <1>2, <1>4, <1>6
  <2>2. UNCHANGED <<docVars, job, maxLength, gap, depth, retried>> /\ left' = {}
    BY <1>2, <1>5
  <2> QED
    BY <1>1, <1>2, <1>5, <1>8, <2>1, <2>2, TypedStep
<1>10. ASSUME ~retried PROVE Built'
  <2>1. Complete
    BY <1>1, <1>2, <1>10, BuildingComplete DEF Sound
  <2>2. Written(sid, out'.buf)
    BY <1>3, <2>1 DEF Written
  <2>3. Doc(out'.buf) /\ MarksMade(file, out'.buf, ids.signature)
    BY <2>2, DocAfter, MarksAfter, Zenon
  <2>4. file' = file /\ job' = job /\ ids' = ids
    BY <1>2 DEF docVars
  <2>5. MarksMade(file, out.buf, ids.signature)'
    BY <2>3, <2>4, Zenon DEF MarksMade
  <2> QED
    BY <1>6, <2>3, <2>4, <2>5 DEF Built
<1>11. Sound'
  BY <1>1, <1>2, <1>10 DEF Sound, Done
<1> QED
  BY <1>9, <1>11 DEF Inv

-----------------------------------------------------------------------------
(* Writing over a signature.                                               *)
WriteVal(o, slot, v) ==
  [o EXCEPT !.buf = [o.buf EXCEPT ![slot] = [o.buf[slot] EXCEPT !.val = v]]]

Overwrites(a, o, slot, v) ==
  /\ a \in Contexts /\ a.new = o.new /\ a.upd = o.upd /\ Len(a.buf) = Len(o.buf)
  /\ a.buf[slot].val = v /\ a.buf[slot].id = o.buf[slot].id
  /\ \A p \in 1 .. Len(o.buf) : p # slot => a.buf[p] = o.buf[p]

(* Writing one value, or one after the other, changes nothing else.        *)
LEMMA WriteValIs ==
  ASSUME NEW o \in Contexts, NEW slot \in 1 .. Len(o.buf), NEW v \in Val
  PROVE  Overwrites(WriteVal(o, slot, v), o, slot, v)
<1> DEFINE f == o.buf
           s == [f[slot] EXCEPT !.val = v]
           g == [f EXCEPT ![slot] = s]
           a == WriteVal(o, slot, v)
<1>1. /\ f \in Seq(Segments) /\ Len(f) \in Nat /\ o.new \in Seq(Pairs) /\ o.upd \in Seq(Pairs)
  BY ContextTypes
<1>2. f[slot] \in Segments
  BY <1>1, Segment
<1>3. s \in Segments /\ s.id = f[slot].id /\ s.val = v
  BY <1>2 DEF Segments
<1>4. a = [o EXCEPT !.buf = g]
  BY DEF WriteVal
<1>5. slot \in 1 .. Len(f)
  OBVIOUS
<1> HIDE DEF f, s, a
<1>6. g \in Seq(Segments) /\ Len(g) = Len(f) /\ g[slot] = s
      /\ \A p \in 1 .. Len(f) : p # slot => g[p] = f[p]
  BY ONLY <1>1, <1>3, <1>5
<1> HIDE DEF g
<1>7. a = [buf |-> g, new |-> o.new, upd |-> o.upd]
  BY <1>4, ContextChanges, Zenon
<1>8. a.buf = g /\ a.new = o.new /\ a.upd = o.upd
  BY <1>7
<1>9. a \in Contexts
  BY <1>1, <1>6, <1>7 DEF Contexts, Pairs
<1>10. /\ Len(a.buf) = Len(f) /\ a.buf[slot].val = v /\ a.buf[slot].id = f[slot].id
       /\ \A p \in 1 .. Len(f) : p # slot => a.buf[p] = f[p]
  BY <1>3, <1>6, <1>8
<1> QED
  BY <1>8, <1>9, <1>10 DEF Overwrites, a, f

LEMMA WriteTwice ==
  ASSUME NEW o \in Contexts, NEW slot \in 1 .. Len(o.buf), NEW v \in Val, NEW w \in Val
  PROVE  Overwrites(WriteVal(WriteVal(o, slot, v), slot, w), o, slot, w)
<1> DEFINE b == WriteVal(o, slot, v)
<1>1. Overwrites(b, o, slot, v)
  BY WriteValIs
<1> HIDE DEF b
<1>2. b \in Contexts /\ slot \in 1 .. Len(b.buf)
  BY <1>1 DEF Overwrites
<1>3. Overwrites(WriteVal(b, slot, w), b, slot, w)
  BY <1>2, WriteValIs
<1> QED
  BY <1>1, <1>3 DEF Overwrites, b

(* Writing a signature over a signature is a patch.                        *)
LEMMA OverwritesPatch ==
  ASSUME NEW o \in Contexts, NEW slot \in 1 .. Len(o.buf), o.buf[slot].val.is = "signature",
         NEW w \in SigVal, NEW a, Overwrites(a, o, slot, w)
  PROVE  Patched(o.buf, a.buf) /\ \A r : Bounded(o, r) => Bounded(a, r)
<1>1. w.is = "signature"
  BY DEF SigVal
<1>2. \A p \in 1 .. Len(o.buf) : a.buf[p].id = o.buf[p].id /\ SameBut(o.buf[p].val, a.buf[p].val)
  BY <1>1 DEF Overwrites, SameBut
<1>3. a.buf \in Seq(Segments)
  BY ContextTypes DEF Overwrites
<1> QED
  BY <1>2, <1>3 DEF Overwrites, Patched, Bounded

(* The byte range; the container.                                          *)
LEMMA RangeChange ==
  ASSUME NEW o \in Contexts, NEW slot \in 1 .. Len(o.buf), o.buf[slot].val.is = "signature",
         NEW h \in Nat, NEW c \in Nat
  PROVE  LET w == [o.buf[slot].val EXCEPT !.gap = h, !.upto = c] IN
         w \in SigVal
         /\ Overwrites([o EXCEPT !.buf[slot].val.gap = h, !.buf[slot].val.upto = c], o, slot, w)
<1> DEFINE v == o.buf[slot].val
           v1 == [v EXCEPT !.gap = h]
           v2 == [v1 EXCEPT !.upto = c]
           a == [o EXCEPT !.buf[slot].val.gap = h, !.buf[slot].val.upto = c]
           o1 == WriteVal(o, slot, v1)
<1>1. v \in SigVal
  BY ContextTypes, Segment, Kinds
<1>2. v1 \in SigVal /\ v2 \in SigVal /\ v2 = [v EXCEPT !.gap = h, !.upto = c]
  <2> HIDE DEF v
  <2> QED BY <1>1 DEF SigVal
<1>3. v1 \in Val /\ v2 \in Val
  BY <1>2 DEF Val
<1>4. [o EXCEPT !.buf[slot].val.gap = h] = o1
  BY DEF WriteVal
<1>5. o1.buf[slot].val = v1
  BY <1>3, WriteValIs DEF Overwrites
<1>6. a = [o1 EXCEPT !.buf[slot].val.upto = c]
  BY <1>4
<1>7. a = WriteVal(o1, slot, v2)
  <2> HIDE DEF o1, v1
  <2> QED BY <1>5, <1>6 DEF WriteVal
<1>8. Overwrites(a, o, slot, v2)
  BY <1>3, <1>7, WriteTwice
<1> QED
  BY <1>2, <1>8

LEMMA ContainerChange ==
  ASSUME NEW o \in Contexts, NEW slot \in 1 .. Len(o.buf), o.buf[slot].val.is = "signature",
         NEW s \in Nat, NEW z \in Nat
  PROVE  LET w == [o.buf[slot].val EXCEPT !.by = s, !.zeros = z] IN
         w \in SigVal
         /\ Overwrites([o EXCEPT !.buf[slot].val.by = s, !.buf[slot].val.zeros = z], o, slot, w)
<1> DEFINE v == o.buf[slot].val
           v1 == [v EXCEPT !.by = s]
           v2 == [v1 EXCEPT !.zeros = z]
           a == [o EXCEPT !.buf[slot].val.by = s, !.buf[slot].val.zeros = z]
           o1 == WriteVal(o, slot, v1)
<1>1. v \in SigVal
  BY ContextTypes, Segment, Kinds
<1>2. v1 \in SigVal /\ v2 \in SigVal /\ v2 = [v EXCEPT !.by = s, !.zeros = z]
  <2> HIDE DEF v
  <2> QED BY <1>1 DEF SigVal
<1>3. v1 \in Val /\ v2 \in Val
  BY <1>2 DEF Val
<1>4. [o EXCEPT !.buf[slot].val.by = s] = o1
  BY DEF WriteVal
<1>5. o1.buf[slot].val = v1
  BY <1>3, WriteValIs DEF Overwrites
<1>6. a = [o1 EXCEPT !.buf[slot].val.zeros = z]
  BY <1>4
<1>7. a = WriteVal(o1, slot, v2)
  <2> HIDE DEF o1, v1
  <2> QED BY <1>5, <1>6 DEF WriteVal
<1>8. Overwrites(a, o, slot, v2)
  BY <1>3, <1>7, WriteTwice
<1> QED
  BY <1>2, <1>8

-----------------------------------------------------------------------------
(* Such a step keeps types, ...                                            *)
LEMMA OverTyped ==
  ASSUME Typed, pc \in {"range", "sign"}, pc' \in {"sign", "deliver"},
         UNCHANGED <<docVars, job, ids, left, maxLength, depth, output, retried>>,
         NEW slot \in 1 .. Len(out.buf), out.buf[slot].val.is = "signature",
         NEW w \in SigVal, Overwrites(out', out, slot, w),
         gap' \in 1 .. Len(file) + 1, out.buf[gap'].val.is = "signature"
  PROVE  Typed'
<1>1. /\ file' = file /\ rdr' = rdr /\ xrefType' = xrefType /\ job' = job /\ retried' = retried
      /\ maxLength' = maxLength /\ depth' = depth /\ ids' = ids /\ left' = left
  BY DEF docVars
<1>2. /\ Len(file) \in Nat /\ out \in Contexts /\ Len(out.buf) \in Nat /\ gap' \in Nat
      /\ retried \in BOOLEAN /\ Bounded(out, retried)
  BY TypedFacts
<1>3. /\ Len(out.buf) > Len(file) /\ maxLength > 0 /\ left = {}
      /\ job.into \notin TextFields
  BY DEF Typed, Started
<1>4. /\ out' \in Contexts /\ Len(out'.buf) = Len(out.buf) /\ Bounded(out', retried)
  BY <1>2, OverwritesPatch DEF Overwrites
<1>5. EntriesOK(out', retried)
  BY <1>2, <1>4, EntriesAre
<1>6. out'.buf[gap'].val.is = "signature" /\ gap' \in 1 .. Len(out.buf)
  <2>1. gap' \in 1 .. Len(out.buf)
    BY <1>2, <1>3
  <2>2. w.is = "signature"
    BY DEF SigVal
  <2> QED
    BY <2>1, <2>2 DEF Overwrites
<1>7. RevisionTypeOK'
  <2>1. /\ xrefType \in XrefTypes
        /\ job \in [into : Names \union {NoName}, visible : BOOLEAN, fills : SUBSET Names]
        /\ maxLength \in Nat /\ depth \in Nat /\ retried \in BOOLEAN
        /\ ids \in IdTypes /\ left \subseteq job.fills
    BY DEF Typed, RevisionTypeOK, IdTypes
  <2>2. pc' \in Steps
    BY DEF Steps
  <2>3. gap' \in 0 .. Len(out'.buf)
    BY <1>2, <1>4, <1>6
  <2> QED
    BY ONLY <1>1, <1>5, <2>1, <2>2, <2>3 DEF RevisionTypeOK, EntriesOK, IdTypes
<1>8. rdr' = Reader(file') /\ Doc(file')
  BY <1>1 DEF Typed
<1>9. gap' <= Len(file') + 1 /\ gap' > 0 /\ Len(out'.buf) > Len(file')
  BY <1>1, <1>2, <1>3, <1>4
<1>10. maxLength' > 0 /\ \E d \in Estimates : d <= maxLength'
  BY <1>1 DEF Typed
<1> QED
  BY <1>1, <1>3, <1>4, <1>6, <1>7, <1>8, <1>9, <1>10, Zenon DEF Typed

(* ... and the document in order.                                          *)
LEMMA OverBuilt ==
  ASSUME Typed, Built,
         UNCHANGED <<docVars, job, ids, left, maxLength, depth, output, retried>>,
         NEW slot \in 1 .. Len(out.buf), out.buf[slot].val.is = "signature",
         NEW w \in SigVal, Overwrites(out', out, slot, w)
  PROVE  Built'
<1>1. file' = file /\ job' = job /\ ids' = ids
  BY DEF docVars
<1>2. Patched(out.buf, out'.buf) /\ Len(out'.buf) = Len(out.buf)
  <2>1. out \in Contexts
    BY TypedFacts
  <2> QED
    BY <2>1, OverwritesPatch DEF Overwrites
<1>3. /\ Doc(out.buf) /\ MarksMade(file, out.buf, ids.signature)
      /\ Len(out.buf) > Len(file) + 1
  BY DEF Built
<1>4. Doc(out'.buf)
  BY <1>2, <1>3, PatchedDoc
<1>5. \A n \in Names : Mark(out'.buf, n) = Mark(out.buf, n)
  BY <1>2, <1>3, PatchedMark
<1>6. MarksMade(file, out'.buf, ids.signature)
  BY <1>3, <1>5 DEF MarksMade
<1>7. MarksMade(file, out.buf, ids.signature)'
  BY <1>1, <1>6, Zenon DEF MarksMade
<1> QED
  BY <1>1, <1>2, <1>3, <1>4, <1>7 DEF Built

(* The first run of zeros, and the first placeholder of a range, are at or  *)
(* before those of this signature.                                          *)
LEMMA HoleAndSlot ==
  ASSUME Typed, Placed(out), maxLength > 0
  PROVE  LET hole == Min({k \in 1 .. Len(out.buf) : Zeros(out.buf[k])})
             slot == Min({k \in 1 .. Len(out.buf) : HasNoRange(out.buf[k])})
         IN  /\ hole \in 1 .. Len(file) + 1 /\ Zeros(out.buf[hole])
             /\ out.buf[hole].val.is = "signature"
             /\ \A k \in 1 .. Len(out.buf) : Zeros(out.buf[k]) => hole <= k
             /\ slot \in 1 .. Len(file) + 1 /\ HasNoRange(out.buf[slot])
             /\ \A k \in 1 .. Len(out.buf) : HasNoRange(out.buf[k]) => slot <= k
<1> DEFINE H == {k \in 1 .. Len(out.buf) : Zeros(out.buf[k])}
           S == {k \in 1 .. Len(out.buf) : HasNoRange(out.buf[k])}
           m == Len(file) + 1
<1>1. Len(file) \in Nat /\ Len(out.buf) \in Nat /\ maxLength \in Nat
  BY TypedFacts
<1>2. m \in 1 .. Len(out.buf) /\ out.buf[m].val = Signature(maxLength)
  BY <1>1 DEF Placed, Object
<1>3. Zeros(out.buf[m]) /\ HasNoRange(out.buf[m])
  BY <1>1, <1>2 DEF Zeros, ZerosOf, HasNoRange, Signature
<1>4. \A k \in 1 .. Len(out.buf) : Zeros(out.buf[k]) => out.buf[k].val.is = "signature"
  BY <1>1 DEF Zeros, ZerosOf
<1>5. H \in SUBSET Nat /\ S \in SUBSET Nat /\ m \in H /\ m \in S
  BY <1>1, <1>2, <1>3
<1>6. Min(H) \in H /\ \A k \in H : Min(H) <= k
  <2> HIDE DEF H, S, m
  <2> QED BY <1>5, MinDef
<1>7. Min(S) \in S /\ \A k \in S : Min(S) <= k
  <2> HIDE DEF H, S, m
  <2> QED BY <1>5, MinDef
<1>8. /\ Min(H) \in 1 .. Len(out.buf) /\ Zeros(out.buf[Min(H)]) /\ Min(H) <= m
      /\ \A k \in 1 .. Len(out.buf) : Zeros(out.buf[k]) => Min(H) <= k
  BY <1>5, <1>6
<1>9. /\ Min(S) \in 1 .. Len(out.buf) /\ HasNoRange(out.buf[Min(S)]) /\ Min(S) <= m
      /\ \A k \in 1 .. Len(out.buf) : HasNoRange(out.buf[k]) => Min(S) <= k
  BY <1>5, <1>7
<1> DEFINE hole == Min(H)  slot == Min(S)
<1>10. /\ hole \in 1 .. Len(out.buf) /\ Zeros(out.buf[hole]) /\ hole <= m
       /\ \A k \in 1 .. Len(out.buf) : Zeros(out.buf[k]) => hole <= k
       /\ slot \in 1 .. Len(out.buf) /\ HasNoRange(out.buf[slot]) /\ slot <= m
       /\ \A k \in 1 .. Len(out.buf) : HasNoRange(out.buf[k]) => slot <= k
  BY <1>8, <1>9
<1>11. /\ hole \in 1 .. Len(file) + 1 /\ Zeros(out.buf[hole])
       /\ out.buf[hole].val.is = "signature"
       /\ \A k \in 1 .. Len(out.buf) : Zeros(out.buf[k]) => hole <= k
       /\ slot \in 1 .. Len(file) + 1 /\ HasNoRange(out.buf[slot])
       /\ \A k \in 1 .. Len(out.buf) : HasNoRange(out.buf[k]) => slot <= k
  <2> HIDE DEF hole, slot
  <2> QED BY <1>1, <1>4, <1>10
<1> QED
  BY <1>11, Zenon

(* UpdateByteRange keeps the invariant.                                    *)
LEMMA UpdateByteRangeInv ==
  ASSUME Inv, UpdateByteRange
  PROVE  Inv'
<1> DEFINE hole == Min({k \in 1 .. Len(out.buf) : Zeros(out.buf[k])})
           slot == Min({k \in 1 .. Len(out.buf) : HasNoRange(out.buf[k])})
           w == [out.buf[slot].val EXCEPT !.gap = hole, !.upto = Len(out.buf)]
<1>1. /\ pc = "range" /\ pc' = "sign" /\ gap' = hole
      /\ out' = [out EXCEPT !.buf[slot].val.gap = hole, !.buf[slot].val.upto = Len(out.buf)]
      /\ UNCHANGED <<docVars, job, ids, left, maxLength, depth, output, retried>>
  BY DEF UpdateByteRange, Goes, Covered
<1>2. Typed /\ Sound
  BY DEF Inv
<1>3. /\ Len(file) \in Nat /\ out \in Contexts /\ Len(out.buf) \in Nat
  BY <1>2, TypedFacts
<1>4. Placed(out) /\ maxLength > 0 /\ Len(out.buf) > Len(file)
  BY <1>1, <1>2 DEF Typed, Started
<1>5. /\ hole \in 1 .. Len(file) + 1 /\ out.buf[hole].val.is = "signature"
      /\ slot \in 1 .. Len(file) + 1 /\ HasNoRange(out.buf[slot])
  BY <1>2, <1>4, HoleAndSlot
<1> HIDE DEF hole, slot
<1>6. slot \in 1 .. Len(out.buf) /\ hole \in Nat /\ out.buf[slot].val.is = "signature"
  BY <1>3, <1>4, <1>5 DEF HasNoRange
<1>7. w \in SigVal /\ Overwrites(out', out, slot, w)
  BY <1>1, <1>3, <1>6, RangeChange
<1> HIDE DEF w
<1>8. Typed'
  BY <1>1, <1>2, <1>5, <1>6, <1>7, OverTyped
<1>9. ASSUME ~retried PROVE Built'
  <2>1. Built
    BY <1>1, <1>2, <1>9 DEF Sound, Done
  <2> QED
    BY <1>1, <1>2, <1>6, <1>7, <2>1, OverBuilt
<1>10. Sound'
  BY <1>1, <1>2, <1>9 DEF Sound, Done
<1> QED
  BY <1>8, <1>10 DEF Inv

(* EmbedSignature keeps the invariant.                                     *)
LEMMA EmbedSignatureInv ==
  ASSUME Inv, EmbedSignature
  PROVE  Inv'
<1>1. /\ pc = "sign" /\ pc' = "deliver"
      /\ UNCHANGED <<docVars, job, ids, left, maxLength, gap, depth, output, retried>>
  BY DEF EmbedSignature, Goes
<1>2. PICK length \in Containers :
        /\ length <= maxLength
        /\ out' = [out EXCEPT !.buf[gap].val.by = ids.signature,
                              !.buf[gap].val.zeros = maxLength - length]
  BY DEF EmbedSignature
<1>3. Typed /\ Sound
  BY DEF Inv
<1>4. /\ Len(file) \in Nat /\ out \in Contexts /\ Len(out.buf) \in Nat /\ ids.signature \in Nat
      /\ maxLength \in Nat /\ gap \in Nat
  BY <1>3, TypedFacts
<1>5. /\ Len(out.buf) > Len(file) /\ gap > 0 /\ gap <= Len(file) + 1
      /\ out.buf[gap].val.is = "signature"
  BY <1>1, <1>3 DEF Typed, Started
<1>6. gap \in 1 .. Len(out.buf) /\ gap' \in 1 .. Len(file) + 1 /\ gap' = gap
  BY <1>1, <1>4, <1>5
<1> DEFINE z == maxLength - length
           w == [out.buf[gap].val EXCEPT !.by = ids.signature, !.zeros = z]
<1>7. z \in Nat
  BY <1>2, <1>4, RevisionAssumption
<1>8. out' = [out EXCEPT !.buf[gap].val.by = ids.signature, !.buf[gap].val.zeros = z]
  BY <1>2
<1> HIDE DEF z
<1>9. w \in SigVal /\ Overwrites(out', out, gap, w)
  BY <1>4, <1>5, <1>6, <1>7, <1>8, ContainerChange
<1> HIDE DEF w
<1>10. Typed'
  BY <1>1, <1>3, <1>5, <1>6, <1>9, OverTyped
<1>11. ASSUME ~retried PROVE Built'
  <2>1. Built
    BY <1>1, <1>3, <1>11 DEF Sound, Done
  <2> QED
    BY <1>1, <1>3, <1>5, <1>6, <1>9, <2>1, OverBuilt
<1>12. Sound'
  BY <1>1, <1>3, <1>11 DEF Sound, Done
<1> QED
  BY <1>10, <1>12 DEF Inv

-----------------------------------------------------------------------------
(* Retry keeps the invariant: what is left of it after a retry.            *)
LEMMA RetryInv ==
  ASSUME Inv, Retry
  PROVE  Inv'
<1>1. /\ pc = "sign" /\ pc' = "placeholder" /\ depth' = depth + 1 /\ retried' = TRUE
      /\ UNCHANGED <<docVars, job, out, ids, left, gap, output>>
  BY DEF Retry, Goes
<1>2. PICK length \in Containers : length > maxLength /\ maxLength' = length + 1
  BY DEF Retry
<1>3. Typed
  BY DEF Inv
<1>4. maxLength' \in Nat /\ maxLength' > 0 /\ \E d \in Estimates : d <= maxLength'
  <2>1. length \in Nat /\ maxLength \in Nat
    BY <1>3, TypedFacts, RevisionAssumption
  <2>2. PICK d \in Estimates : d <= maxLength
    BY <1>1, <1>3 DEF Typed
  <2>3. d \in Nat /\ d <= maxLength'
    BY <1>2, <2>1, <2>2, RevisionAssumption
  <2> QED
    BY <1>2, <2>1, <2>3
<1>5. /\ file' = file /\ rdr' = rdr /\ xrefType' = xrefType /\ job' = job /\ out' = out
      /\ ids' = ids /\ left' = left /\ gap' = gap
  BY <1>1 DEF docVars
<1>6. EntriesOK(out, TRUE)
  BY <1>3, EntriesAre DEF Bounded, Typed
<1>7. RevisionTypeOK'
  <2>1. /\ xrefType \in XrefTypes /\ gap \in 0 .. Len(out.buf)
        /\ job \in [into : Names \union {NoName}, visible : BOOLEAN, fills : SUBSET Names]
        /\ ids \in IdTypes /\ left \subseteq job.fills
    BY <1>3 DEF Typed, RevisionTypeOK, IdTypes
  <2>2. pc' \in Steps /\ depth' \in Nat /\ retried' \in BOOLEAN
    BY <1>1, <1>3, TypedFacts DEF Steps
  <2> QED
    BY ONLY <1>1, <1>4, <1>5, <1>6, <2>1, <2>2 DEF RevisionTypeOK, EntriesOK, IdTypes
<1>8. /\ out \in Contexts /\ rdr = Reader(file) /\ Doc(file) /\ gap <= Len(file) + 1
      /\ left = {} /\ Len(out.buf) > Len(file)
  BY <1>1, <1>3 DEF Typed, Started
<1>9. Typed'
  BY <1>1, <1>4, <1>5, <1>7, <1>8, Zenon DEF Typed
<1> QED
  BY <1>1, <1>9 DEF Inv, Sound

(* Deliver keeps the invariant: without a retry, what is written is the    *)
(* buffer.                                                                 *)
LEMMA DeliverInv ==
  ASSUME Inv, Deliver
  PROVE  Inv'
<1>1. /\ pc = "deliver" /\ output' = output \o out.buf
      /\ IF depth > 0 THEN depth' = depth - 1 /\ pc' = pc ELSE pc' = "done" /\ depth' = depth
      /\ UNCHANGED <<docVars, job, out, ids, left, maxLength, gap, retried>>
  BY DEF Deliver
<1>2. Typed /\ Sound
  BY DEF Inv
<1>3. /\ file' = file /\ rdr' = rdr /\ xrefType' = xrefType /\ job' = job /\ out' = out
      /\ ids' = ids /\ left' = left /\ gap' = gap /\ maxLength' = maxLength /\ retried' = retried
  BY <1>1 DEF docVars
<1>4. pc' \in {"deliver", "done"} /\ depth' \in Nat
  BY <1>1, <1>2, TypedFacts
<1>5. RevisionTypeOK'
  <2>1. RevisionTypeOK
    BY <1>2 DEF Typed
  <2>2. pc' \in Steps
    BY <1>4 DEF Steps
  <2> QED
    BY <1>3, <1>4, <2>1, <2>2 DEF RevisionTypeOK
<1>6. /\ left = {} /\ Len(out.buf) > Len(file) /\ job.into \notin TextFields
      /\ maxLength > 0 /\ \E d \in Estimates : d <= maxLength
      /\ out \in Contexts /\ rdr = Reader(file) /\ Doc(file) /\ gap <= Len(file) + 1
  BY <1>1, <1>2 DEF Typed, Started
<1>7. Typed'
  BY <1>3, <1>4, <1>5, <1>6, Zenon DEF Typed
<1>8. ASSUME ~retried PROVE pc' = "done" /\ depth' = 0 /\ output' = out.buf /\ Built'
  <2>1. depth = 0 /\ output = <<>> /\ Built
    BY <1>1, <1>2, <1>8 DEF Sound, Done
  <2>2. pc' = "done" /\ depth' = 0
    BY <1>1, <2>1
  <2>3. \A s \in Seq(Segments) : <<>> \o s = s
    OBVIOUS
  <2>4. output' = out.buf
    BY <1>1, <1>2, <2>1, <2>3, TypedFacts
  <2>5. Built'
    <3>1. MarksMade(file, out.buf, ids.signature)'
      BY <1>3, <2>1, Zenon DEF Built, MarksMade
    <3> QED
      BY <1>3, <2>1, <3>1 DEF Built
  <2> QED
    BY <2>2, <2>4, <2>5
<1>9. Sound'
  BY <1>1, <1>2, <1>3, <1>8 DEF Sound
<1> QED
  BY <1>7, <1>9 DEF Inv

(* Adopt keeps the invariant, and the new document is the buffer.          *)
LEMMA AdoptInv ==
  ASSUME Inv, Adopt
  PROVE  Inv' /\ file' = out.buf /\ MarksMade(file, out.buf, ids.signature) /\ Doc(out.buf)
<1>1. /\ pc = "done" /\ ~retried /\ file' = output /\ rdr' = Reader(output)
      /\ Return /\ xrefType' = xrefType
  BY DEF Adopt
<1>2. Typed /\ Sound
  BY DEF Inv
<1>3. output = out.buf /\ Built
  BY <1>1, <1>2 DEF Sound, Done
<1>4. Doc(out.buf) /\ MarksMade(file, out.buf, ids.signature)
  BY <1>3 DEF Built
<1>5. xrefType \in XrefTypes
  BY <1>2 DEF Typed, RevisionTypeOK
<1>6. PICK f, x : f = out.buf /\ x = xrefType
  OBVIOUS
<1>7. BeginsWith(f, x)'
  BY <1>1, <1>3, <1>5, <1>6 DEF BeginsWith, Return
<1>8. Inv'
  BY <1>4, <1>6, <1>7, FreshInvNext
<1> QED
  BY <1>1, <1>3, <1>4, <1>8

(* Fail keeps the invariant.                                               *)
LEMMA FailInv ==
  ASSUME Inv, Fail
  PROVE  Inv'
<1>1. Return /\ UNCHANGED docVars
  BY DEF Fail
<1>2. Doc(file) /\ rdr = Reader(file) /\ xrefType \in XrefTypes
  BY DEF Inv, Typed, RevisionTypeOK
<1>3. PICK f, x : f = file /\ x = xrefType
  OBVIOUS
<1>4. BeginsWith(f, x)'
  BY <1>1, <1>2, <1>3 DEF BeginsWith, Return, docVars
<1> QED
  BY <1>2, <1>3, <1>4, FreshInvNext

(* Every step does.                                                        *)
LEMMA NextInv ==
  ASSUME Inv, [Next]_vars
  PROVE  Inv'
<1>1. CASE Open
  BY <1>1, OpenInv
<1>2. CASE WritePlaceholder
  BY <1>2, WritePlaceholderInv
<1>3. CASE SignIntoField
  BY <1>3, SignIntoFieldInv
<1>4. CASE AddWidget
  BY <1>4, AddWidgetInv
<1>5. CASE AddFont
  BY <1>5, AddFontInv
<1>6. CASE \E n \in Names : FillField(n)
  BY <1>6, FillFieldInv
<1>7. CASE WriteCatalog
  BY <1>7, WriteCatalogInv
<1>8. CASE WriteXref
  BY <1>8, WriteXrefInv
<1>9. CASE UpdateByteRange
  BY <1>9, UpdateByteRangeInv
<1>10. CASE EmbedSignature
  BY <1>10, EmbedSignatureInv
<1>11. CASE Retry
  BY <1>11, RetryInv
<1>12. CASE Deliver
  BY <1>12, DeliverInv
<1>13. CASE Adopt
  BY <1>13, AdoptInv
<1>14. CASE Fail
  BY <1>14, FailInv
<1>15. CASE UNCHANGED vars
  <2>1. /\ file' = file /\ rdr' = rdr /\ xrefType' = xrefType /\ pc' = pc /\ job' = job
        /\ out' = out /\ ids' = ids /\ left' = left /\ maxLength' = maxLength /\ gap' = gap
        /\ depth' = depth /\ output' = output /\ retried' = retried
    BY <1>15 DEF vars, docVars, ctxVars
  <2>2. UNCHANGED <<docVars, job, maxLength>> /\ ids'.signature = ids.signature
    BY <2>1 DEF docVars
  <2>3. Typed'
    <3>1. RevisionTypeOK'
      BY <2>1 DEF Inv, Typed, RevisionTypeOK
    <3>2. Placed(out) => Placed(out)'
      BY <2>1, <2>2, Frame
    <3> QED
      BY <2>1, <3>1, <3>2 DEF Inv, Typed
  <2>4. Building => Building'
    <3>1. ASSUME Building PROVE Core(out)' /\ Placed(out)' /\ HasWidget(out, ids.widget)'
      BY <2>1, <2>2, <3>1, Frame DEF Building
    <3>2. LastId' = LastId /\ \A n : Here(n)' = Here(n)
      BY <2>2, Frame
    <3>3. \A m : NewKinds(out, ids.widget, m) =>
                 \A p \in Len(file') + 2 .. m : NewKind(out.buf[p], ids.widget)'
      BY <2>1, <2>2, KindsFrame
    <3>4. NewFields' = NewFields
      BY <2>1 DEF NewFields, Existing
    <3> QED
      BY <2>1, <3>1, <3>2, <3>3, <3>4, Zenon DEF Building, NewKinds, Updated
  <2>5. Built => Built'
    BY <2>1, Zenon DEF Built, MarksMade
  <2> QED
    BY <2>1, <2>3, <2>4, <2>5 DEF Inv, Sound
<1> QED
  BY <1>1, <1>2, <1>3, <1>4, <1>5, <1>6, <1>7, <1>8, <1>9, <1>10, <1>11, <1>12, <1>13, <1>14,
     <1>15 DEF Next

(* The inductive invariant holds in every behaviour.                       *)
THEOREM RevisionInvariant == Spec => []Inv
<1>1. Init => Inv
  BY InitInv
<1>2. Inv /\ [Next]_vars => Inv'
  BY NextInv
<1> QED
  BY <1>1, <1>2, PTL DEF Spec

-----------------------------------------------------------------------------
(* The document, the context and the job of SignPDF keep their types       *)
(* (pdfsign sign.go), whatever is signed, filled in or retried.            *)
THEOREM RevisionTypeCorrect == Spec => []RevisionTypeOK
<1>1. Inv => RevisionTypeOK
  BY DEF Inv, Typed
<1> QED
  BY <1>1, RevisionInvariant, PTL

(* The invariant implies the properties of a document.                     *)
LEMMA InOrder ==
  ASSUME Inv
  PROVE  NewestFound /\ FreshNumbers /\ FieldsKept /\ (NumberedByCount => UniqueTitles)
<1>1. rdr = Reader(file) /\ Doc(file) /\ rdr.table = Table(file)
  BY TypedFacts DEF Inv
<1>2. /\ \A i : Resolve(file, rdr, i) = Found(file, i)
      /\ Fields(file, rdr) = FormOf(file)
  BY <1>1, StateNames
<1>3. NewestFound
  BY <1>1 DEF NewestFound, Doc, Tabled
<1>4. FreshNumbers
  BY <1>1 DEF FreshNumbers, Doc, Numbered
<1>5. FieldsKept
  BY <1>1, <1>2 DEF FieldsKept, Doc, Formed
<1>6. NumberedByCount => UniqueTitles
  BY <1>1, <1>2 DEF UniqueTitles, Doc, Titled, TitlesApart, FieldsOf
<1> QED
  BY <1>3, <1>4, <1>5, <1>6

(* Each number of the document resolves to the newest object written under *)
(* it, through the chain of any number of incremental updates (pdfxref.go).*)
THEOREM EveryNumberFound == Spec => []NewestFound
BY RevisionInvariant, InOrder, PTL

(* getNextObjectID never gives a number to a second object, in either      *)
(* format of the sections, however many updates there have been.           *)
THEOREM NumbersNeverReused == Spec => []FreshNumbers
BY RevisionInvariant, InOrder, PTL

(* createCatalog keeps every field of the form, and every signature field  *)
(* added to it, in the tree, whoever signs.                                *)
THEOREM FieldsNeverLost == Spec => []FieldsKept
BY RevisionInvariant, InOrder, PTL

(* No two fields that the catalog lists have the same name (PdfRevision's  *)
(* UniqueTitles), neither those of the form nor those that                 *)
(* createVisualSignature adds, if no field of the form has a number that a *)
(* new one can get.  Without the condition it is false.                    *)
THEOREM TitlesNeverMeet == NumberedByCount => (Spec => []UniqueTitles)
<1> SUFFICES ASSUME NumberedByCount PROVE Spec => []UniqueTitles
  OBVIOUS
<1>1. Inv => UniqueTitles
  BY InOrder
<1> QED
  BY <1>1, RevisionInvariant, PTL

-----------------------------------------------------------------------------
(* The document changes only when an update is adopted.                    *)
LEMMA OnlyAdopt ==
  ASSUME [Next]_vars
  PROVE  UNCHANGED docVars \/ Adopt
BY DEF Next, vars, Open, WritePlaceholder, SignIntoField, AddWidget, AddFont, FillField,
       WriteCatalog, WriteXref, UpdateByteRange, EmbedSignature, Retry, Deliver, Fail

SignsOnce(a, b) ==
  LET N == {n \in Names : b[n] # a[n]} IN
  /\ b \in [Names -> Nat]
  /\ Cardinality(N \ TextFields) <= 1
  /\ \A n \in N :
       /\ a[n] = 0
       /\ \A m \in N : b[m] = b[n]
       /\ \A m \in Names : a[m] # b[n]

(* The marks that an update makes are those one signer may make.           *)
LEMMA MarksAre ==
  ASSUME NEW f, NEW g, Doc(f), Doc(g), NEW s, s \in Nat, MarksMade(f, g, s)
  PROVE  SignsOnce([n \in Names |-> Mark(f, n)], [n \in Names |-> Mark(g, n)])
<1> DEFINE a == [n \in Names |-> Mark(f, n)]
           b == [n \in Names |-> Mark(g, n)]
           N == {n \in Names : b[n] # a[n]}
<1>1. \A n \in Names : Mark(g, n) \in Nat /\ Mark(f, n) \in Nat /\ Mark(f, n) <= Top(f) + 1
  BY DocField
<1>2. s > Top(f) + 1 /\ Top(f) \in Nat
  BY DocReader DEF MarksMade
<1>3. \A n \in Names : b[n] # a[n] => b[n] = s /\ a[n] = 0 /\ (n \in SigFields => n = job.into)
  BY DEF MarksMade
<1>4. \A m \in Names : a[m] # s
  BY <1>1, <1>2
<1>5. b \in [Names -> Nat]
  BY <1>1
<1> HIDE DEF a, b
<1>6. N \ TextFields \subseteq {job.into}
  BY <1>3 DEF Names
<1>7. Cardinality(N \ TextFields) <= 1
  <2> HIDE DEF N
  <2>1. IsFiniteSet({job.into}) /\ Cardinality({job.into}) = 1
    BY FS_Singleton
  <2>2. Cardinality(N \ TextFields) <= Cardinality({job.into})
    BY <1>6, <2>1, FS_Subset
  <2> QED
    BY <2>1, <2>2
<1>8. \A n \in N : a[n] = 0 /\ (\A m \in N : b[m] = b[n]) /\ \A m \in Names : a[m] # b[n]
  BY <1>3, <1>4
<1>9. SignsOnce(a, b)
  BY <1>5, <1>7, <1>8 DEF SignsOnce
<1> QED
  BY <1>9 DEF a, b

(* The marks, as a reader finds them, now and in the next state.           *)
LEMMA MarksNow ==
  ASSUME Inv
  PROVE  Marks = [n \in Names |-> Mark(file, n)]
<1>1. rdr = Reader(file)
  BY DEF Inv, Typed
<1> QED
  BY <1>1 DEF Marks, Mark, Found, FieldOf

LEMMA MarksNext ==
  ASSUME Inv'
  PROVE  Marks' = [n \in Names |-> Mark(file', n)]
<1>1. rdr' = Reader(file')
  BY DEF Inv, Typed
<1> QED
  BY <1>1 DEF Marks, Mark, Found, FieldOf

(* Adopting an update is a step of the routed form.                        *)
LEMMA AdoptSigns ==
  ASSUME Inv, Adopt
  PROVE  Form!SignForm
<1>1. Inv' /\ file' = out.buf /\ MarksMade(file, out.buf, ids.signature) /\ Doc(out.buf)
  BY AdoptInv
<1>2. Doc(file) /\ ids.signature \in Nat
  BY TypedFacts DEF Inv
<1>3. PICK f, g, s : f = file /\ g = out.buf /\ s = ids.signature
  OBVIOUS
<1> DEFINE a == [n \in Names |-> Mark(f, n)]
           b == [n \in Names |-> Mark(g, n)]
           N == {n \in Names : b[n] # a[n]}
<1>4. Marks = a /\ Marks' = b
  BY <1>1, <1>3, MarksNow, MarksNext
<1>5. Doc(f) /\ Doc(g) /\ s \in Nat /\ MarksMade(f, g, s)
  BY <1>1, <1>2, <1>3
<1>6. SignsOnce(a, b)
  BY ONLY <1>5, MarksAre
<1>7. Form!Names = Names
  BY DEF Form!Names, Names
<1>8. Form!Cardinality(N \ TextFields) = Cardinality(N \ TextFields)
  BY DEF Form!Cardinality, Cardinality
<1> HIDE DEF a, b
<1> QED
  BY <1>4, <1>6, <1>7, <1>8 DEF Form!SignForm, SignsOnce

(* The revisions of a document implement RoutedForm: a signer marks empty  *)
(* fields only, one signature field at the most, and a mark stays whatever *)
(* later updates do.                                                       *)
THEOREM RevisionsKeepMarks == Spec => ImplementsForm
<1>1. Init => Form!Blank
  <2> SUFFICES ASSUME Init PROVE Form!Blank
    OBVIOUS
  <2>1. Inv /\ \A n \in Names : Mark(file, n) = 0
    BY InitInv
  <2>2. Marks = [n \in Names |-> 0]
    BY <2>1, MarksNow
  <2> QED
    BY <2>2 DEF Form!Blank, Form!Names, Names
<1>2. Inv /\ [Next]_vars => [Form!SignForm]_Marks
  <2> SUFFICES ASSUME Inv, [Next]_vars PROVE [Form!SignForm]_Marks
    OBVIOUS
  <2>1. CASE UNCHANGED docVars
    <3>1. file' = file /\ rdr' = rdr
      BY <2>1 DEF docVars
    <3>2. Marks' = Marks
      BY <3>1 DEF Marks
    <3> QED
      BY <3>2
  <2>2. CASE Adopt
    BY <2>2, AdoptSigns
  <2> QED
    BY <2>1, <2>2, OnlyAdopt
<1> QED
  BY <1>1, <1>2, RevisionInvariant, PTL DEF Spec, ImplementsForm, Form!FormSpec

-----------------------------------------------------------------------------
(* What the byte ranges of the invariant amount to.                        *)
LEMMA RangesAre ==
  ASSUME NEW f, f \in Seq(Segments), Ranges(f), NEW p \in 1 .. Len(f), f[p].val.is = "signature"
  PROVE  /\ f[p].val.gap = p /\ f[p].val.by = f[p].id
         /\ f[p].val.upto = Min({q \in p .. Len(f) : f[q].val.is = "end"})
<1> DEFINE S == {q \in p .. Len(f) : f[q].val.is = "end"}
           u == f[p].val.upto
<1>1. /\ f[p].val.gap = p /\ f[p].val.by = f[p].id
      /\ u \in p .. Len(f) /\ f[u].val.is = "end"
      /\ \A q \in p .. u - 1 : f[q].val.is # "end"
  BY DEF Ranges
<1>2. Len(f) \in Nat /\ p \in Nat
  OBVIOUS
<1>3. u \in S /\ S \in SUBSET Nat /\ u \in Nat
  BY <1>1, <1>2
<1>4. Min(S) \in S /\ Min(S) <= u
  <2> HIDE DEF S, u
  <2> QED BY <1>3, MinDef
<1> DEFINE m == Min(S)
<1>5. m \in p .. Len(f) /\ f[m].val.is = "end" /\ m <= u
  BY <1>4
<1>6. u = m
  <2> HIDE DEF m, u
  <2>1. ~(m <= u - 1)
    BY <1>1, <1>2, <1>3, <1>5
  <2> QED
    BY <1>2, <1>3, <1>5, <2>1
<1> QED
  BY <1>1, <1>6

(* The update as it is before its byte range is set.                       *)
LEMMA WriteXrefAppends ==
  ASSUME Inv, WriteXref, ~retried
  PROVE  Appended'
<1>1. Typed /\ Sound
  BY DEF Inv
<1>2. /\ pc = "xref" /\ pc' = "range"
      /\ UNCHANGED <<docVars, job, ids, left, maxLength, gap, depth, output, retried>>
      /\ out' \in Contexts /\ Len(out'.buf) = Len(out.buf) + 2 /\ Extends(out.buf, out'.buf)
  BY <1>1, WriteXrefOut
<1>3. PICK sid \in Nat : sid \in {0, LastId + Len(out.new) + 1} /\ out'.buf = WithSection(sid)
  BY <1>1, WriteXrefOut
<1>4. Building
  BY <1>1, <1>2 DEF Sound
<1>5. Complete
  BY <1>1, <1>2, <1>4, BuildingComplete
<1> DEFINE g == out'.buf
           m == Len(file) + 1
<1>6. Written(sid, g)
  BY <1>3, <1>5 DEF Written
<1>7. /\ Len(file) \in Nat /\ Len(out.buf) \in Nat /\ ids.signature \in Nat /\ maxLength \in Nat
      /\ Placed(out) /\ Len(out.buf) > m
  BY <1>1, <1>2, <1>4, TypedFacts DEF Building
<1>8. \A p \in 1 .. Len(file) : g[p] = file[p]
  <2>1. Extends(file, g)
    BY <1>6, WrittenFacts, Zenon
  <2> QED
    BY <2>1 DEF Extends
<1>9. g[Len(out.buf) + 1].val.is = "xref" /\ g[Len(out.buf) + 2].val.is = "end"
  BY <1>6, WrittenFacts, Zenon
<1>10. \A p \in 1 .. Len(out.buf) : g[p] = out.buf[p]
  BY <1>2 DEF Extends
<1>11. \A p \in m + 1 .. Len(out.buf) : out.buf[p].val.is \in {"plain", "page", "field", "catalog"}
  <2> TAKE p \in m + 1 .. Len(out.buf)
  <2>1. CASE p = Len(out.buf)
    BY <1>2, <1>4, <2>1 DEF Building, Object, Catalog
  <2>2. CASE p # Len(out.buf)
    <3>1. NewKind(out.buf[p], ids.widget)
      BY <1>2, <1>4, <1>7, <2>2 DEF Building, NewKinds
    <3>2. out.buf[p].val.is \in {"plain", "page", "field"}
      <4>1. CASE out.buf[p].val = Plain
        BY <4>1 DEF Plain
      <4>2. CASE out.buf[p].val \in PageVal
        BY <4>2 DEF PageVal
      <4>3. CASE out.buf[p].val = Widget(Cardinality(Existing) + 1, ids.signature)
        BY <4>3 DEF Widget
      <4>4. ASSUME NEW n \in Names, Filled(out.buf[p], n)
            PROVE  out.buf[p].val.is = "field"
        <5>1. /\ Found(file, FieldOf(file, n)) \in FieldVal
              /\ Resolve(file, rdr, Here(n)) = Found(file, FieldOf(file, n))
          BY <1>1, TypedFacts, DocField, StateNames
        <5>2. out.buf[p].val = [Resolve(file, rdr, Here(n)) EXCEPT !.mark = ids.signature]
          BY <4>4 DEF Filled
        <5> QED
          BY <5>1, <5>2 DEF FieldVal
      <4> QED
        BY <3>1, <4>1, <4>2, <4>3, <4>4 DEF NewKind
    <3> QED
      BY <3>2
  <2> QED
    BY <2>1, <2>2
<1>12. out.buf[m] = Object(ids.signature, Signature(maxLength))
  BY <1>7 DEF Placed
<1>13. out.buf[m].val.is = "signature" /\ Signature(maxLength) \in SigVal
  BY <1>7, <1>12 DEF Object, Signature, SigVal
<1>14. \A p \in m .. Len(g) - 1 : g[p].val.is # "end"
  <2> TAKE p \in m .. Len(g) - 1
  <2> HIDE DEF g
  <2>1. CASE p = m
    BY <1>7, <1>10, <1>13, <2>1
  <2>2. CASE p \in m + 1 .. Len(out.buf)
    BY <1>7, <1>10, <1>11, <2>2
  <2>3. CASE p = Len(out.buf) + 1
    BY <1>9, <2>3
  <2>4. Len(g) = Len(out.buf) + 2
    BY <1>2 DEF g
  <2> QED
    BY <1>7, <2>1, <2>2, <2>3, <2>4
<1>15. \A p \in m + 1 .. Len(g) : g[p].val.is # "signature"
  <2> TAKE p \in m + 1 .. Len(g)
  <2> HIDE DEF g
  <2>1. CASE p \in m + 1 .. Len(out.buf)
    BY <1>7, <1>10, <1>11, <2>1
  <2>2. CASE p \in {Len(out.buf) + 1, Len(out.buf) + 2}
    BY <1>9, <2>2
  <2>3. Len(g) = Len(out.buf) + 2
    BY <1>2 DEF g
  <2> QED
    BY <1>7, <2>1, <2>2, <2>3
<1>16. g[m].val = Signature(maxLength) /\ g[m].id = ids.signature
  BY <1>7, <1>10, <1>12 DEF Object
<1>17. file' = file /\ maxLength' = maxLength /\ ids' = ids
  BY <1>2 DEF docVars
<1>18. m + 1 = Len(file') + 2 /\ m = Len(file') + 1
  BY <1>7, <1>17
<1> QED
  BY <1>2, <1>8, <1>13, <1>14, <1>15, <1>16, <1>17, <1>18 DEF Appended

-----------------------------------------------------------------------------
(* Without zeros of earlier signatures the search finds this one.           *)
LEMMA FindsOwn ==
  ASSUME Typed, Ranges(file), UpdateByteRange
  PROVE  /\ gap' = Len(file) + 1
         /\ out' = [out EXCEPT !.buf[Len(file) + 1].val.gap = Len(file) + 1,
                               !.buf[Len(file) + 1].val.upto = Len(out.buf)]
<1> DEFINE hole == Min({k \in 1 .. Len(out.buf) : Zeros(out.buf[k])})
           slot == Min({k \in 1 .. Len(out.buf) : HasNoRange(out.buf[k])})
           m == Len(file) + 1
<1>1. /\ pc = "range" /\ gap' = hole
      /\ out' = [out EXCEPT !.buf[slot].val.gap = hole, !.buf[slot].val.upto = Len(out.buf)]
  BY DEF UpdateByteRange, Goes, Covered
<1>2. /\ Len(file) \in Nat /\ Len(out.buf) \in Nat /\ file \in Seq(Segments) /\ maxLength \in Nat
  BY TypedFacts
<1>3. Placed(out) /\ maxLength > 0
  BY <1>1 DEF Typed
<1>4. PICK d \in Estimates : d <= maxLength
  BY <1>1 DEF Typed
<1>5. /\ hole \in 1 .. m /\ Zeros(out.buf[hole]) /\ slot \in 1 .. m /\ HasNoRange(out.buf[slot])
  BY <1>3, HoleAndSlot
<1> HIDE DEF hole, slot
<1>6. \A p \in 1 .. Len(file) : out.buf[p] = file[p]
  BY <1>3 DEF Placed, Extends
<1>7. ASSUME NEW p \in 1 .. Len(file) PROVE ~Zeros(out.buf[p]) /\ ~HasNoRange(out.buf[p])
  <2>1. out.buf[p] = file[p]
    BY <1>6
  <2>2. CASE file[p].val.is = "signature"
    <3>1. file[p].val \in SigVal
      BY <1>2, <2>2, Segment, Kinds
    <3>2. file[p].val.upto \in p .. Len(file) /\ file[p].val.zeros < d
      BY <1>4, <2>2 DEF Ranges
    <3>3. file[p].val.zeros \in Nat /\ d \in Nat
      BY <3>1, RevisionAssumption DEF SigVal
    <3>4. ~(file[p].val.zeros >= maxLength)
      BY <1>2, <1>4, <3>2, <3>3
    <3> QED
      BY <1>2, <2>1, <2>2, <3>2, <3>4 DEF Zeros, ZerosOf, HasNoRange
  <2>3. CASE file[p].val.is # "signature"
    BY <1>2, <1>3, <2>1, <2>3 DEF Zeros, ZerosOf, HasNoRange
  <2> QED
    BY <2>2, <2>3
<1>8. hole = m /\ slot = m
  BY <1>2, <1>5, <1>7
<1> QED
  BY <1>1, <1>8

(* The fields of a signature that is written over.                         *)
LEMMA SignatureChanges ==
  ASSUME NEW v \in SigVal, NEW a, NEW b
  PROVE  /\ LET w == [v EXCEPT !.gap = a, !.upto = b]
            IN  w.gap = a /\ w.upto = b /\ w.is = v.is
         /\ LET w == [v EXCEPT !.by = a, !.zeros = b]
            IN  w.by = a /\ w.zeros = b /\ w.gap = v.gap /\ w.upto = v.upto /\ w.is = v.is
BY DEF SigVal

(* The byte range is that of this update, ...                              *)
LEMMA RangeAppended ==
  ASSUME Inv, RangesInv, UpdateByteRange, ~retried
  PROVE  Appended'
<1> DEFINE m == Len(file) + 1
           w == [out.buf[m].val EXCEPT !.gap = m, !.upto = Len(out.buf)]
<1>1. /\ pc = "range" /\ pc' = "sign"
      /\ UNCHANGED <<docVars, job, ids, left, maxLength, depth, output, retried>>
  BY DEF UpdateByteRange, Goes
<1>2. /\ gap' = m
      /\ out' = [out EXCEPT !.buf[m].val.gap = m, !.buf[m].val.upto = Len(out.buf)]
  BY FindsOwn DEF Inv, RangesInv
<1>3. Typed /\ Sound
  BY DEF Inv
<1>4. /\ Len(file) \in Nat /\ out \in Contexts /\ Len(out.buf) \in Nat /\ maxLength \in Nat
      /\ Len(out.buf) > Len(file)
  BY <1>1, <1>3, TypedFacts DEF Typed, Started
<1>5. /\ \A p \in 1 .. Len(file) : out.buf[p] = file[p]
      /\ \A p \in Len(file) + 1 .. Len(out.buf) - 1 : out.buf[p].val.is # "end"
      /\ \A p \in Len(file) + 2 .. Len(out.buf) : out.buf[p].val.is # "signature"
      /\ out.buf[m].id = ids.signature /\ out.buf[m].val = Signature(maxLength)
  BY <1>1 DEF RangesInv, Appended, Done
<1>6. m \in 1 .. Len(out.buf) /\ m \in Nat /\ out.buf[m].val.is = "signature"
  BY <1>4, <1>5 DEF Signature
<1>7. w.gap = m /\ w.upto = Len(out.buf) /\ w.is = "signature"
  BY <1>4, <1>5, <1>6 DEF Signature
<1>8. w \in SigVal /\ Overwrites(out', out, m, w)
  BY <1>2, <1>4, <1>6, RangeChange
<1> HIDE DEF w
<1>9. file' = file /\ ids' = ids
  BY <1>1 DEF docVars
<1>10. /\ Len(out'.buf) = Len(out.buf) /\ out'.buf[m].val = w /\ out'.buf[m].id = ids.signature
       /\ \A p \in 1 .. Len(out.buf) : p # m => out'.buf[p] = out.buf[p]
  BY <1>5, <1>8 DEF Overwrites
<1>11. \A p \in 1 .. Len(file) : out'.buf[p] = file[p]
  <2> TAKE p \in 1 .. Len(file)
  <2>1. p \in 1 .. Len(out.buf) /\ p # m
    BY <1>4
  <2> HIDE DEF m
  <2> QED
    BY <1>5, <1>10, <2>1
<1>12. \A p \in m .. Len(out.buf) - 1 : out'.buf[p].val.is # "end"
  BY <1>4, <1>5, <1>7, <1>10
<1>13. \A p \in Len(file) + 2 .. Len(out.buf) : out'.buf[p].val.is # "signature"
  BY <1>4, <1>5, <1>10
<1> QED
  BY <1>1, <1>2, <1>7, <1>8, <1>9, <1>10, <1>11, <1>12, <1>13 DEF Appended

(* ... and so is the container, which leaves too few zeros to be mistaken  *)
(* for a placeholder.                                                      *)
LEMMA ContainerAppended ==
  ASSUME Inv, RangesInv, EmbedSignature, ~retried, NoOldZeros
  PROVE  Appended'
<1> DEFINE m == Len(file) + 1
<1>1. /\ pc = "sign" /\ pc' = "deliver"
      /\ UNCHANGED <<docVars, job, ids, left, maxLength, gap, depth, output, retried>>
  BY DEF EmbedSignature, Goes
<1>2. PICK length \in Containers :
        /\ length <= maxLength
        /\ out' = [out EXCEPT !.buf[gap].val.by = ids.signature,
                              !.buf[gap].val.zeros = maxLength - length]
  BY DEF EmbedSignature
<1>3. Typed /\ Sound
  BY DEF Inv
<1>4. /\ Len(file) \in Nat /\ out \in Contexts /\ Len(out.buf) \in Nat /\ maxLength \in Nat
      /\ Len(out.buf) > Len(file) /\ ids.signature \in Nat
  BY <1>1, <1>3, TypedFacts DEF Typed, Started
<1>5. maxLength \in Estimates
  BY <1>1, <1>3 DEF Sound
<1>6. /\ \A p \in 1 .. Len(file) : out.buf[p] = file[p]
      /\ \A p \in Len(file) + 1 .. Len(out.buf) - 1 : out.buf[p].val.is # "end"
      /\ \A p \in Len(file) + 2 .. Len(out.buf) : out.buf[p].val.is # "signature"
      /\ out.buf[m].id = ids.signature /\ out.buf[m].val \in SigVal
      /\ out.buf[m].val.gap = m /\ out.buf[m].val.upto = Len(out.buf)
      /\ gap = m
  BY <1>1 DEF RangesInv, Appended, Done
<1>7. m \in 1 .. Len(out.buf) /\ out.buf[m].val.is = "signature"
  BY <1>4, <1>6 DEF SigVal
<1> DEFINE z == maxLength - length
           w == [out.buf[m].val EXCEPT !.by = ids.signature, !.zeros = z]
<1>8. z \in Nat /\ \A d \in Estimates : z < d
  BY <1>2, <1>4, <1>5, RevisionAssumption DEF NoOldZeros
<1>9. out' = [out EXCEPT !.buf[m].val.by = ids.signature, !.buf[m].val.zeros = z]
  BY <1>2, <1>6
<1> HIDE DEF z
<1>10. /\ w.by = ids.signature /\ w.zeros = z /\ w.gap = m /\ w.upto = Len(out.buf)
       /\ w.is = "signature"
  BY <1>6, <1>7, SignatureChanges
<1>11. w \in SigVal /\ Overwrites(out', out, m, w)
  BY <1>4, <1>7, <1>8, <1>9, ContainerChange
<1> HIDE DEF w
<1>12. file' = file /\ ids' = ids
  BY <1>1 DEF docVars
<1>13. /\ Len(out'.buf) = Len(out.buf) /\ out'.buf[m].val = w /\ out'.buf[m].id = ids.signature
       /\ \A p \in 1 .. Len(out.buf) : p # m => out'.buf[p] = out.buf[p]
  BY <1>6, <1>11 DEF Overwrites
<1>14. \A p \in 1 .. Len(file) : out'.buf[p] = file[p]
  <2> TAKE p \in 1 .. Len(file)
  <2>1. p \in 1 .. Len(out.buf) /\ p # m
    BY <1>4
  <2> HIDE DEF m
  <2> QED
    BY <1>6, <1>13, <2>1
<1>15. \A p \in m .. Len(out.buf) - 1 : out'.buf[p].val.is # "end"
  BY <1>4, <1>6, <1>10, <1>13
<1>16. \A p \in Len(file) + 2 .. Len(out.buf) : out'.buf[p].val.is # "signature"
  BY <1>4, <1>6, <1>13
<1> QED
  BY <1>1, <1>8, <1>10, <1>11, <1>12, <1>13, <1>14, <1>15, <1>16 DEF Appended

-----------------------------------------------------------------------------
(* In the new document all byte ranges are exact, and it begins with the   *)
(* old one.                                                                *)
LEMMA AdoptRanges ==
  ASSUME Inv, RangesInv, Adopt
  PROVE  RangesInv' /\ SubSeq(file', 1, Len(file)) = file
<1>1. /\ pc = "done" /\ ~retried /\ pc' = "idle" /\ file' = out.buf /\ Doc(out.buf)
  BY AdoptInv DEF Adopt, Return
<1>2. Typed /\ Ranges(file) /\ Appended
  BY <1>1 DEF Inv, RangesInv, Done
<1> DEFINE g == out.buf
           m == Len(file) + 1
<1>3. /\ Len(file) \in Nat /\ file \in Seq(Segments) /\ g \in Seq(Segments) /\ Len(g) \in Nat
      /\ Len(g) > Len(file)
  BY <1>1, <1>2, TypedFacts DEF Typed, Started
<1>4. g[Len(g)].val.is = "end"
  BY <1>1 DEF Doc, Shape
<1>5. /\ \A p \in 1 .. Len(file) : g[p] = file[p]
      /\ \A p \in m .. Len(g) - 1 : g[p].val.is # "end"
      /\ \A p \in Len(file) + 2 .. Len(g) : g[p].val.is # "signature"
      /\ g[m].val.gap = m /\ g[m].val.upto = Len(g)
      /\ g[m].val.by = g[m].id /\ \A d \in Estimates : g[m].val.zeros < d
  BY <1>1, <1>2 DEF Appended
<1> HIDE DEF g
<1>6. Ranges(g)
  <2> SUFFICES ASSUME NEW p \in 1 .. Len(g), g[p].val.is = "signature"
               PROVE  /\ g[p].val.gap = p /\ g[p].val.by = g[p].id
                      /\ g[p].val.upto \in p .. Len(g) /\ g[g[p].val.upto].val.is = "end"
                      /\ \A q \in p .. g[p].val.upto - 1 : g[q].val.is # "end"
                      /\ \A d \in Estimates : g[p].val.zeros < d
    BY Zenon DEF Ranges
  <2>1. CASE p \in 1 .. Len(file)
    <3> DEFINE u == file[p].val.upto
    <3>1. g[p] = file[p] /\ file[p].val.is = "signature"
      BY <1>5, <2>1
    <3>2. /\ file[p].val.gap = p /\ file[p].val.by = file[p].id
          /\ u \in p .. Len(file) /\ file[u].val.is = "end"
          /\ \A q \in p .. u - 1 : file[q].val.is # "end"
          /\ \A d \in Estimates : file[p].val.zeros < d
      BY <1>2, <2>1, <3>1 DEF Ranges
    <3> HIDE DEF u
    <3>3. g[u].val.is = "end" /\ u \in p .. Len(g)
      BY <1>3, <1>5, <2>1, <3>2
    <3>4. \A q \in p .. u - 1 : q \in 1 .. Len(file) /\ g[q].val.is # "end"
      BY <1>3, <1>5, <2>1, <3>2
    <3>5. g[p].val.upto = u
      BY <3>1 DEF u
    <3> QED
      BY <3>1, <3>2, <3>3, <3>4, <3>5
  <2>2. CASE p = m
    <3>1. g[m].val.upto \in m .. Len(g) /\ Len(g) \in Nat
      BY <1>3, <1>5
    <3> QED
      BY <1>4, <1>5, <2>2, <3>1
  <2>3. CASE p \in Len(file) + 2 .. Len(g)
    BY <1>5, <2>3
  <2> QED
    BY <1>3, <2>1, <2>2, <2>3
<1>7. SubSeq(g, 1, Len(file)) = file
  BY <1>3, <1>5
<1>8. Ranges(file')
  BY <1>1, <1>6 DEF g
<1> QED
  BY <1>1, <1>7, <1>8 DEF RangesInv, Done, g

(* Every step keeps the byte ranges.                                       *)
LEMMA RangesNext ==
  ASSUME NoOldZeros, Inv, RangesInv, [Next]_vars
  PROVE  RangesInv'
<1>1. ASSUME UNCHANGED docVars, ~retried' /\ pc' \in Done => Appended' PROVE RangesInv'
  <2>1. file' = file
    BY <1>1 DEF docVars
  <2> QED
    BY <1>1, <2>1 DEF RangesInv
<1>2. CASE UNCHANGED docVars /\ pc' \notin Done
  BY <1>1, <1>2
<1>3. CASE UNCHANGED docVars /\ pc' \in Done /\ retried'
  BY <1>1, <1>3
<1>4. CASE WriteXref
  BY <1>1, <1>4, WriteXrefAppends DEF WriteXref
<1>5. CASE UpdateByteRange
  BY <1>1, <1>5, RangeAppended DEF UpdateByteRange
<1>6. CASE EmbedSignature
  BY <1>1, <1>6, ContainerAppended DEF EmbedSignature
<1>7. CASE Deliver
  <2>1. UNCHANGED docVars /\ pc = "deliver" /\ pc' \in {"deliver", "done"} /\ retried' = retried
        /\ out' = out /\ ids' = ids /\ file' = file /\ gap' = gap /\ maxLength' = maxLength
    BY <1>7 DEF Deliver, docVars
  <2>2. Appended => Appended'
    BY <2>1 DEF Appended
  <2> QED
    BY <1>1, <2>1, <2>2 DEF RangesInv, Done
<1>8. CASE Adopt
  BY <1>8, AdoptRanges
<1>9. CASE UNCHANGED vars
  <2>1. /\ file' = file /\ pc' = pc /\ out' = out /\ ids' = ids /\ maxLength' = maxLength
        /\ gap' = gap /\ retried' = retried
    BY <1>9 DEF vars, docVars, ctxVars
  <2>2. Appended => Appended'
    BY <2>1 DEF Appended
  <2> QED
    BY <2>1, <2>2 DEF RangesInv
<1>10. CASE Open \/ WritePlaceholder \/ SignIntoField \/ AddWidget \/ AddFont \/ WriteCatalog \/ Retry
  <2>1. UNCHANGED docVars /\ pc' \notin Done
    BY <1>10 DEF Open, WritePlaceholder, SignIntoField, AddWidget, AddFont, WriteCatalog, Retry,
                 Goes, Done
  <2> QED
    BY <1>2, <2>1
<1>11. CASE Fail
  BY <1>2, <1>11 DEF Fail, Return, Done
<1>12. CASE \E n \in Names : FillField(n)
  BY <1>2, <1>12 DEF FillField, Done
<1> QED
  BY <1>4, <1>5, <1>6, <1>7, <1>8, <1>9, <1>10, <1>11, <1>12 DEF Next

(* The invariant of byte ranges holds if no signature leaves as many zeros *)
(* as a later one reserves.                                                *)
THEOREM RangesInvariant == NoOldZeros => (Spec => []RangesInv)
<1> SUFFICES ASSUME NoOldZeros PROVE Spec => []RangesInv
  OBVIOUS
<1>1. Init => RangesInv
  BY InitInv DEF RangesInv, Init, Done
<1>2. Inv /\ RangesInv /\ [Next]_vars => RangesInv'
  BY RangesNext
<1> QED
  BY <1>1, <1>2, RevisionInvariant, PTL DEF Spec

(* updateByteRange: if no signature leaves as many zeros as a later one    *)
(* reserves, each byte range leaves out its own signature and covers all   *)
(* the rest up to the end of its revision.                                 *)
THEOREM ByteRangesExact == NoOldZeros => (Spec => []RangesExact)
<1> SUFFICES ASSUME NoOldZeros PROVE Spec => []RangesExact
  OBVIOUS
<1>1. Inv /\ RangesInv => RangesExact
  <2> SUFFICES ASSUME Inv, RangesInv PROVE RangesExact
    OBVIOUS
  <2>1. file \in Seq(Segments) /\ Ranges(file)
    BY TypedFacts DEF Inv, RangesInv
  <2> QED
    BY <2>1, RangesAre DEF RangesExact
<1> QED
  BY <1>1, RevisionInvariant, RangesInvariant, PTL

(* SignPDF appends: under the same condition no update changes a byte of   *)
(* the document it was given, so earlier signatures stay valid.            *)
THEOREM NothingRewritten == NoOldZeros => (Spec => InputKept)
<1> SUFFICES ASSUME NoOldZeros PROVE Spec => InputKept
  OBVIOUS
<1>1. Inv /\ RangesInv /\ [Next]_vars => [SubSeq(file', 1, Len(file)) = file]_file
  <2> SUFFICES ASSUME Inv, RangesInv, [Next]_vars
               PROVE  [SubSeq(file', 1, Len(file)) = file]_file
    OBVIOUS
  <2>1. CASE UNCHANGED docVars
    BY <2>1 DEF docVars
  <2>2. CASE Adopt
    BY <2>2, AdoptRanges
  <2> QED
    BY <2>1, <2>2, OnlyAdopt
<1> QED
  BY <1>1, RevisionInvariant, RangesInvariant, PTL DEF Spec, InputKept

(* What the byte range leaves out is the signature being made, under the   *)
(* same condition and after retries too: so the condition is all that      *)
(* stands between the code and the comment in pdfbyterange.go:14 that      *)
(* revision_zeros refutes.                                                 *)
THEOREM RangeLeavesOutOwn == NoOldZeros => (Spec => []OwnContents)
<1> SUFFICES ASSUME NoOldZeros PROVE Spec => []OwnContents
  OBVIOUS
<1>1. Init => OwnContents
  BY DEF Init, OwnContents
<1>2. Inv /\ RangesInv /\ OwnContents /\ [Next]_vars => OwnContents'
  <2> SUFFICES ASSUME Inv, RangesInv, OwnContents, [Next]_vars PROVE OwnContents'
    OBVIOUS
  <2>1. CASE UpdateByteRange
    <3> DEFINE m == Len(file) + 1
    <3>1. pc = "range" /\ ids' = ids
      BY <2>1 DEF UpdateByteRange, Goes
    <3>2. Typed /\ Ranges(file)
      BY DEF Inv, RangesInv
    <3>3. /\ gap' = m
          /\ out' = [out EXCEPT !.buf[m].val.gap = m, !.buf[m].val.upto = Len(out.buf)]
      BY <2>1, <3>2, FindsOwn
    <3>4. /\ out \in Contexts /\ Len(out.buf) \in Nat /\ Len(file) \in Nat
          /\ Placed(out) /\ Len(out.buf) > Len(file)
      BY <3>1, <3>2, TypedFacts DEF Typed, Started
    <3>5. /\ m \in 1 .. Len(out.buf) /\ m \in Nat
          /\ out.buf[m].id = ids.signature /\ out.buf[m].val.is = "signature"
      BY <3>4 DEF Placed, Object, Signature
    <3> DEFINE w == [out.buf[m].val EXCEPT !.gap = m, !.upto = Len(out.buf)]
    <3>6. Overwrites(out', out, m, w)
      BY <3>3, <3>4, <3>5, RangeChange
    <3>7. out'.buf[m].id = ids'.signature
      BY <3>1, <3>5, <3>6 DEF Overwrites
    <3> QED
      BY <3>3, <3>7 DEF OwnContents
  <2>2. CASE UNCHANGED vars
    BY <2>2 DEF OwnContents, vars, ctxVars
  <2>3. CASE ~UpdateByteRange /\ Next
    <3>1. pc' # "sign"
      BY <2>3 DEF Next, Open, WritePlaceholder, SignIntoField, AddWidget, AddFont, FillField,
                  WriteCatalog, WriteXref, EmbedSignature, Retry, Deliver, Adopt, Fail, Return, Goes
    <3> QED
      BY <3>1 DEF OwnContents
  <2> QED
    BY <2>1, <2>2, <2>3
<1> QED
  BY <1>1, <1>2, RevisionInvariant, RangesInvariant, PTL DEF Spec
===============================================================================
