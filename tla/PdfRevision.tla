------------------------------ MODULE PdfRevision ------------------------------
(***************************************************************************)
(* The incremental update that Sign appends to a PDF document, and the     *)
(* revisions that pile up when a form is routed from signer to signer.     *)
(*                                                                         *)
(* A file is a sequence of segments: an object with its number, a cross-   *)
(* reference section, or an end (startxref, %%EOF).  An offset is a         *)
(* position in that sequence.  Of an object there is what the update reads  *)
(* or sets: the fields of a catalog, the mark on a field, the zeros and the *)
(* byte range of a signature.  A length is counted in units of hex digits.  *)
(***************************************************************************)
EXTENDS Naturals, Sequences, FiniteSets, FiniteSetsExt, SequencesExt

CONSTANTS
  TextFields, SigFields,  \* the names of the fields of the form
  Nested,                 \* those that are kids of another field
  NoName,
  OwnTitle,               \* N for a field that the form calls "Signature N", 0 for all others
  XrefTypes,              \* of the documents: "table", "stream"
  Estimates,              \* SignatureMaxLength, as first computed
  Containers,             \* the lengths that CMS containers turn out to have
  MaxRevisions            \* bound on the revisions of a file

Names == TextFields \union SigFields

ASSUME RevisionAssumption ==
  /\ TextFields \intersect SigFields = {} /\ NoName \notin Names /\ Nested \subseteq Names
  /\ IsFiniteSet(Names)
  /\ XrefTypes \subseteq {"table", "stream"}
  /\ Estimates \subseteq Nat \ {0} /\ Containers \subseteq Nat /\ MaxRevisions \in Nat

(* Two fields of the form do not have the same name.                        *)
ASSUME TitleAssumption ==
  /\ OwnTitle \in [Names -> Nat]
  /\ \A m, n \in Names \ Nested : OwnTitle[m] = OwnTitle[n] /\ OwnTitle[m] # 0 => m = n

VARIABLES
  file,       \* the document, the input of the next update
  rdr,        \* PDFReader: how the file resolves object numbers
  xrefType,   \* of its newest cross-reference section
  pc,         \* what SignPDF does next
  job,        \* SignData: the field to sign in, if any, whether what is signed has an area on
              \* the page, and the text fields to fill
  out,        \* the context: OutputBuffer, newXrefEntries, updatedXrefEntries
  ids,        \* the numbers of the signature, the new widget, the new catalog
  left,       \* the fields that fillTextFields has not come to
  maxLength,  \* SignatureMaxLength
  gap,        \* the segment that the byte range leaves out
  depth,      \* SignPDF calls that wait for one of their own to return
  output,     \* what OutputFile has been given
  retried     \* history: a SignPDF has been called from within another

docVars == <<file, rdr, xrefType>>
ctxVars == <<job, out, ids, left, maxLength, gap, depth, output, retried>>
vars == <<docVars, pc, ctxVars>>

-----------------------------------------------------------------------------
(* Segments.                                                               *)
Object(id, val) == [id |-> id, val |-> val]

Catalog(fs)   == [is |-> "catalog", fields |-> fs]
Page(as)      == [is |-> "page", annots |-> as]
Plain         == [is |-> "plain"]  \* an appearance, a font, a parent of fields
Field(n, par) ==
  [is |-> "field", name |-> n, parent |-> par, title |-> OwnTitle[n], mark |-> 0]
Widget(k, s)  == [is |-> "field", name |-> NoName, parent |-> 0, title |-> k, mark |-> s]
Signature(z)  == [is |-> "signature", zeros |-> z, by |-> 0, gap |-> 0, upto |-> 0]
Xref(es, prev, root, size) ==
  [is |-> "xref", entries |-> es, prev |-> prev, root |-> root, size |-> size]
End(start)    == [is |-> "end", start |-> start]

IsSigField(val) == val.is = "field" /\ val.name \notin TextFields

(* The library's reader: the newest section that lists a number has its    *)
(* offset, the sections are chained by /Prev, and numbers from /Size on are *)
(* dropped.                                                                *)
Own(x) == [i \in {e[1] : e \in Range(x.entries)} |->
             x.entries[Min({k \in 1..Len(x.entries) : x.entries[k][1] = i})][2]]
Over(new, old) ==
  [i \in DOMAIN new \union DOMAIN old |-> IF i \in DOMAIN new THEN new[i] ELSE old[i]]
Sections(f) ==
  LET chain[p \in 1..Len(f)] ==
        LET x == f[p].val
        IN  IF x.prev \in 1..p-1 THEN Over(Own(x), chain[x.prev]) ELSE Own(x)
  IN  chain
Reader(f) ==
  LET start == f[Len(f)].val.start
      listed == Sections(f)[start]
      size == f[start].val.size
  IN  [start |-> start, size |-> size, root |-> f[start].val.root,
       table |-> [i \in {j \in DOMAIN listed : j < size} |-> listed[i]]]

Resolve(f, r, id) == f[r.table[id]].val
Fields(f, r) == Resolve(f, r, r.root).fields

(* findFieldByName: the fields of the form, and the kids of those.          *)
Reached(f, r) ==
  {i \in DOMAIN r.table :
     /\ Resolve(f, r, i).is = "field"
     /\ {i, Resolve(f, r, i).parent} \intersect Fields(f, r) # {}}
FieldNamed(f, r, n) == CHOOSE i \in Reached(f, r) : Resolve(f, r, i).name = n

-----------------------------------------------------------------------------
(* A document nobody has signed: a catalog, a page, a parent for nested     *)
(* fields, the fields, and one section.  It may have numbers to spare; a    *)
(* stream is an object that lists itself.                                   *)
Unsigned(type, spare) ==
  LET order == SetToSeq(Names)
      form == [k \in 1..Len(order) |->
                 Object(k + 3, Field(order[k], IF order[k] \in Nested THEN 3 ELSE 0))]
      top == {k + 3 : k \in {j \in 1..Len(order) : order[j] \notin Nested}} \union {3}
      body == <<Object(1, Catalog(top)), Object(2, Page({})), Object(3, Plain)>> \o form
      last == Len(body) + IF type = "stream" THEN 1 ELSE 0
      section == Xref([k \in 1..last |-> <<k, k>>], 0, 1, last + 1 + spare)
      start == Len(body) + 1
  IN  body \o <<Object(IF type = "stream" THEN last ELSE 0, section), Object(0, End(start))>>

NoJob == [into |-> NoName, visible |-> FALSE, fills |-> {}]
NoIds == [signature |-> 0, widget |-> 0, catalog |-> 0]
Empty == [buf |-> <<>>, new |-> <<>>, upd |-> <<>>]

Init ==
  /\ xrefType \in XrefTypes
  /\ \E spare \in 0..1 : file = Unsigned(xrefType, spare)
  /\ rdr = Reader(file)
  /\ pc = "idle"
  /\ job = NoJob /\ out = Empty /\ ids = NoIds /\ left = {}
  /\ maxLength = 0 /\ gap = 0 /\ depth = 0 /\ output = <<>> /\ retried = FALSE

Revisions(f) == Cardinality({p \in 1..Len(f) : f[p].val.is = "end"})

-----------------------------------------------------------------------------
(* The numbers and entries of objects.                                     *)
LastIdTight == Max(DOMAIN rdr.table)  \* mutant: return maxID
LastId == Max(DOMAIN rdr.table) + 1
NextId(o) == LastId + Len(o.new) + 1

AddObjectLate(o, val) ==  \* mutant: the offset is taken when the object is written
  [o EXCEPT !.buf = Append(@, Object(NextId(o), val)),
            !.new = Append(@, <<NextId(o), Len(o.buf) + 2>>)]
AddObject(o, val) ==
  [o EXCEPT !.buf = Append(@, Object(NextId(o), val)),
            !.new = Append(@, <<NextId(o), Len(o.buf) + 1>>)]

UpdateUnlisted(o, id, val) == [o EXCEPT !.buf = Append(@, Object(id, val))]  \* mutant
UpdateObject(o, id, val) ==
  [o EXCEPT !.buf = Append(@, Object(id, val)),
            !.upd = Append(@, <<id, Len(o.buf) + 1>>)]

-----------------------------------------------------------------------------
Goes(from, to) == pc = from /\ pc' = to

(* Sign: a document and what to do with it.                                *)
Open ==
  /\ Goes("idle", "placeholder")
  /\ Revisions(file) <= MaxRevisions
  /\ job' \in [into : Names \union {NoName}, visible : BOOLEAN, fills : SUBSET Names]
  /\ maxLength' \in Estimates
  /\ UNCHANGED <<docVars, out, ids, left, gap, depth, output, retried>>

(* SignPDF: a new buffer with a copy of the input, but the entries of the   *)
(* context as they are; then the signature, all zeros.                      *)
WritePlaceholder ==
  /\ Goes("placeholder", "field")
  /\ out' = AddObject([out EXCEPT !.buf = file], Signature(maxLength))
  /\ ids' = [ids EXCEPT !.signature = NextId(out)]
  /\ UNCHANGED <<docVars, job, left, maxLength, gap, depth, output, retried>>

TakesAnyMark(n, fields) == n \in fields  \* mutant: the value is not looked at
TakesMark(n, fields) == n \in fields /\ Resolve(file, rdr, FieldNamed(file, rdr, n)).mark = 0

(* The field with the mark of this signature.                               *)
Marked(o, n) ==
  LET f == FieldNamed(file, rdr, n)
  IN  UpdateObject(o, f, [Resolve(file, rdr, f) EXCEPT !.mark = ids.signature])

(* signIntoExistingField, with an appearance if the field has an area.      *)
SignIntoField ==
  /\ Goes("field", "font")
  /\ job.into # NoName /\ TakesMark(job.into, SigFields)
  /\ out' = Marked(IF job.visible THEN AddObject(out, Plain) ELSE out, job.into)
  /\ UNCHANGED <<docVars, job, ids, left, maxLength, gap, depth, output, retried>>

(* fetchExistingSignatures: the signature fields that /Fields lists.        *)
ExistingUnread == {}  \* mutant: they are not fetched
Existing == {i \in Fields(file, rdr) : IsSigField(Resolve(file, rdr, i))}

(* createVisualSignature and, if it is to be seen, createIncPageUpdate.     *)
AddWidget ==
  LET shown  == IF job.visible THEN AddObject(out, Plain) ELSE out
      widget == NextId(shown)
      added  == AddObject(shown, Widget(Cardinality(Existing) + 1, ids.signature))
      page   == Page(Resolve(file, rdr, 2).annots \union {widget})
  IN
  /\ Goes("field", "font")
  /\ job.into = NoName
  /\ out' = IF job.visible THEN UpdateObject(added, 2, page) ELSE added
  /\ ids' = [ids EXCEPT !.widget = widget]
  /\ UNCHANGED <<docVars, job, left, maxLength, gap, depth, output, retried>>

(* fillTextFields: one font, then the fields in no particular order, each   *)
(* with an appearance.                                                      *)
AddFont ==
  /\ Goes("font", "fill")
  /\ job.fills # {}
  /\ out' = AddObject(out, Plain)
  /\ left' = job.fills
  /\ UNCHANGED <<docVars, job, ids, maxLength, gap, depth, output, retried>>

FillField(n) ==
  /\ pc = "fill" /\ n \in left
  /\ TakesMark(n, TextFields)
  /\ out' = Marked(AddObject(out, Plain), n)
  /\ left' = left \ {n}
  /\ UNCHANGED <<docVars, pc, job, ids, maxLength, gap, depth, output, retried>>

(* createCatalog: the fields there were, and the new widget.                *)
NewFieldsRebuilt == Existing \union ({ids.widget} \ {0})  \* mutant: what upstream did
NewFields == Fields(file, rdr) \union ({ids.widget} \ {0})

WriteCatalog ==
  /\ \/ Goes("font", "xref") /\ job.fills = {}
     \/ Goes("fill", "xref") /\ left = {}
  /\ out' = AddObject(out, Catalog(NewFields))
  /\ ids' = [ids EXCEPT !.catalog = NextId(out)]
  /\ UNCHANGED <<docVars, job, left, maxLength, gap, depth, output, retried>>

(* writeXref and writeTrailer: the updated objects one by one, then the new *)
(* ones as one run of numbers.  A stream is an object that does not list    *)
(* itself.                                                                 *)
NewSizeShort == rdr.size + Len(out.new)  \* mutant: without the one
NewSize == rdr.size + Len(out.new) + 1

Listed == out.upd \o [k \in 1..Len(out.new) |-> <<LastId + k, out.new[k][2]>>]

WriteXref ==
  LET section == Xref(Listed, rdr.start, ids.catalog, NewSize)
      written == IF xrefType = "stream" THEN AddObject(out, section)
                 ELSE [out EXCEPT !.buf = Append(@, Object(0, section))]
  IN
  /\ Goes("xref", "range")
  /\ out' = [written EXCEPT !.buf = Append(@, Object(0, End(Len(out.buf) + 1)))]
  /\ UNCHANGED <<docVars, job, ids, left, maxLength, gap, depth, output, retried>>

ZerosOf(segment) == IF segment.val.is = "signature" THEN segment.val.zeros ELSE 0
SomeZeros(segment) == ZerosOf(segment) > 0  \* mutant: any run of zeros
Zeros(segment) == ZerosOf(segment) >= maxLength
HasNoRange(segment) == segment.val.is = "signature" /\ segment.val.upto = 0

(* updateByteRange: all of the buffer but the first run of zeros that is     *)
(* long enough, written over the first placeholder of a byte range.          *)
CoveredToXref(o) == Len(o.buf) - 2  \* mutant: as computed before xref and trailer
Covered(o) == Len(o.buf)

UpdateByteRange ==
  LET hole == Min({k \in 1..Len(out.buf) : Zeros(out.buf[k])})
      slot == Min({k \in 1..Len(out.buf) : HasNoRange(out.buf[k])})
  IN
  /\ Goes("range", "sign")
  /\ gap' = hole
  /\ out' = [out EXCEPT !.buf[slot].val.gap = hole, !.buf[slot].val.upto = Covered(out)]
  /\ UNCHANGED <<docVars, job, ids, left, maxLength, depth, output, retried>>

(* replaceSignature: the container and what is left of the zeros; ...       *)
EmbedSignature ==
  /\ Goes("sign", "deliver")
  /\ \E length \in Containers :
       /\ length <= maxLength
       /\ out' = [out EXCEPT !.buf[gap].val.by = ids.signature,
                             !.buf[gap].val.zeros = maxLength - length]
  /\ UNCHANGED <<docVars, job, ids, left, maxLength, gap, depth, output, retried>>

(* ... or SignPDF once more, inside this one, with more room.               *)
Retry ==
  /\ Goes("sign", "placeholder")
  /\ \E length \in Containers : length > maxLength /\ maxLength' = length + 1
  /\ depth' = depth + 1 /\ retried' = TRUE
  /\ UNCHANGED <<docVars, job, out, ids, left, gap, output>>

(* The context is gone when Sign has returned.                              *)
Return ==
  /\ pc' = "idle"
  /\ job' = NoJob /\ out' = Empty /\ ids' = NoIds /\ left' = {}
  /\ maxLength' = 0 /\ gap' = 0 /\ depth' = 0 /\ output' = <<>> /\ retried' = FALSE

(* Each SignPDF that returns writes the buffer of the context; the first    *)
(* one called is the last to return.                                       *)
Deliver ==
  /\ pc = "deliver"
  /\ output' = output \o out.buf
  /\ IF depth > 0 THEN depth' = depth - 1 /\ UNCHANGED pc
     ELSE pc' = "done" /\ UNCHANGED depth
  /\ UNCHANGED <<docVars, job, out, ids, left, maxLength, gap, retried>>

(* What has been written becomes the document.  Bound: not after a retry,   *)
(* which writes the document twice over.                                    *)
Adopt ==
  /\ pc = "done" /\ ~retried
  /\ file' = output /\ rdr' = Reader(output)
  /\ Return
  /\ UNCHANGED xrefType

(* Any error ends all of it, and nothing has been written.                  *)
Refused ==
  \/ pc = "field" /\ job.into # NoName /\ ~TakesMark(job.into, SigFields)
  \/ pc = "fill" /\ \E n \in left : ~TakesMark(n, TextFields)
  \/ pc = "sign"  \* the signer or the TSA failed

Fail ==
  /\ Refused
  /\ Return
  /\ UNCHANGED docVars

Next ==
  \/ Open \/ WritePlaceholder \/ SignIntoField \/ AddWidget \/ AddFont
  \/ \E n \in Names : FillField(n)
  \/ WriteCatalog \/ WriteXref \/ UpdateByteRange \/ EmbedSignature \/ Retry
  \/ Deliver \/ Adopt \/ Fail

Spec == Init /\ [][Next]_vars
-----------------------------------------------------------------------------
(* Properties.                                                             *)

Steps == {"idle", "placeholder", "field", "font", "fill", "xref", "range", "sign", "deliver", "done"}

RevisionTypeOK ==
  /\ xrefType \in XrefTypes /\ pc \in Steps
  /\ job \in [into : Names \union {NoName}, visible : BOOLEAN, fills : SUBSET Names]
  /\ ids \in [{"signature", "widget", "catalog"} -> Nat]
  /\ left \subseteq job.fills
  /\ maxLength \in Nat /\ depth \in Nat /\ retried \in BOOLEAN
  /\ gap \in 0..Len(out.buf)
  /\ \A e \in Range(out.new) \union Range(out.upd) :
       e \in Nat \X Nat /\ (e[2] <= Len(out.buf) \/ retried)

(* Every number of the document resolves to the newest object that was      *)
(* written under it: a revision lists all it wrote, at its offset, none of  *)
(* it is cut off by /Size, and what it did not write is found as before.    *)
(* (The streams do not list themselves.)                                    *)
NewestFound ==
  /\ \A id \in DOMAIN rdr.table : file[rdr.table[id]].id = id
  /\ \A p \in 1..Len(file) :
       file[p].id # 0 /\ file[p].val.is # "xref" =>
         /\ file[p].id \in DOMAIN rdr.table
         /\ rdr.table[file[p].id] >= p

(* A number is never given to a second object, not even that of a stream    *)
(* that no section lists: two objects of one number are versions of a page  *)
(* or of a field.                                                           *)
Versions(v, w) == v.is = w.is /\ (v.is = "page" \/ (v.is = "field" /\ v.name = w.name))
FreshNumbers ==
  \A p, q \in 1..Len(file) :
    p < q /\ file[p].id = file[q].id /\ file[p].id # 0 =>
      Versions(file[p].val, file[q].val)

(* "covered by that signer's signature" (pdffillfields.go:6): a byte range  *)
(* leaves out its own signature and covers everything else, from the start  *)
(* of the file to the end of its revision.                                  *)
RangesExact ==
  \A p \in 1..Len(file) :
    file[p].val.is = "signature" =>
      /\ file[p].val.gap = p /\ file[p].val.by = file[p].id
      /\ file[p].val.upto = Min({q \in p..Len(file) : file[q].val.is = "end"})

(* "earlier signatures stay valid" (pdffillfields.go:7): an update appends, *)
(* and changes no byte of what there was.                                   *)
InputKept == [][SubSeq(file', 1, Len(file)) = file]_file

(* The fields of the form, and the signature fields added to it, never drop *)
(* out of the tree, whoever signs.                                          *)
FieldsKept ==
  \A p \in 1..Len(file) :
    file[p].val.is = "field" =>
      {file[p].id, file[p].val.parent} \intersect Fields(file, rdr) # {}

(* "Set a unique title for the signature field" (pdfvisualsignature.go:104): *)
(* no two fields that the catalog lists have the same name - neither two    *)
(* fields of this code's making, nor one of them and a field of the form.   *)
(* (A name that is not "Signature N" cannot meet another.  A nested field   *)
(* has its parent's name before its own.)                                   *)
UniqueTitles ==
  \A i, j \in Fields(file, rdr) :
    LET v == Resolve(file, rdr, i)  w == Resolve(file, rdr, j) IN
    v.is = "field" /\ w.is = "field" /\ v.title # 0 /\ v.title = w.title => i = j

(* The code counts signature fields and reads no names, so titles differ    *)
(* only if no N of the form is beyond the number of its signature fields.   *)
NumberedByCount ==
  \A n \in Names \ Nested : OwnTitle[n] <= Cardinality(SigFields \ Nested)

(* "later steps cannot alter what this signer attested to"                  *)
(* (pdffillfields.go:21): the revisions of a document implement a form      *)
(* whose marks are made once and stay.                                      *)
Marks == [n \in Names |-> Resolve(file, rdr, FieldNamed(file, rdr, n)).mark]
Form == INSTANCE RoutedForm WITH mark <- Marks
ImplementsForm == Form!FormSpec

(* "Set ByteRangeValues by looking for the /Contents< filled with zeros"    *)
(* (pdfbyterange.go:14): what the byte range leaves out is this signature.  *)
OwnContents == pc = "sign" => out.buf[gap].id = ids.signature
=============================================================================
