# pdf-sign: a verification development

TLA+ models of pdf-sign, a system that signs PDF documents with a key the
server never sees: the server prepares a document and hands out the digest, a
smart card in the user's browser signs it, the server embeds the signature.
The models are translated from the Go and JavaScript sources; TLC checks them on
small instances and TLAPS proves the central safety properties for all of them.

## The system

| Part | Source | State | Operations | Interacts with |
|---|---|---|---|---|
| Deferred-signing engine | `internal/signing/signing.go` | the maps `sessions` and `preparing` under `Manager.mu`; per session `digestCh`, `sigCh`, `doneCh`, a parked goroutine | `Prepare`, `Complete`, `Cancel`, `Owner`, janitor | called by both servers; runs the PDF writer on a goroutine that calls back into `externalSigner.Sign`; calls `onExpire` |
| Approval web app | `cmd/pdf-sign` | `itemLocks`; the directories `pending`, `signed`, `archive` | items, sign/start, sign/finish, verify | engine (calls, `onExpire`), file system, browser |
| Signing service | `cmd/pdfsign-svc` | its flags; the sessions are the engine's, owners are tenants | start-up checks, create, complete, cancel | engine, backends of other sites |
| Browser client | `cmd/pdf-sign/web` | pending bridge requests, a sequence number | detect, certificates, sign; the approval flow | web app (HTTP), bridge (`postMessage`) |
| Bridge | `bridge/extension`, `bridge/host` | one native port and one host process per request | relay; list and rank certificates, sign with one | browser client, Windows certificate store, smart cards |
| Incremental PDF writer | `third_party/pdfsign/sign` | `SignContext`: output buffer, object numbers, xref entries, placeholder sizes | `SignPDF`, `createSignature`, `replaceSignature` (retry) | engine's `externalSigner`, TSA |
| Form filling | `pdffillfields.go`, `pdfsignfield.go` | objects queued for the update | fill, sign into a field | PDF writer |
| Verification | `third_party/pdfsign/verify` | none (a report) | verify signatures, chains, revocation | verify handler, inspector |

What is hard in it: one session is contended for by two requests and a
janitor over Go channels that panic when misused; a worker goroutine outlives
the calls that talk to it; three independent timeouts; a lock whose ownership
passes from one HTTP request to the session, and from there to another request
or to the janitor; files published by several system calls, any of which may
fail or be the last before a crash. `PROJECT.json` lists each hazard at its line
with the properties that cover it.

What makes each part correct:

- engine: one taker per session, no channel misuse, no lost result, an exact
  quota, every call returns, every session and every goroutine ends;
- approval app: the lock has one holder, the published file is genuine, no
  document is lost or hidden, abandoned approvals free their item;
- service: a tenant sees only its sessions, its status codes tell the truth
  about what a retry can achieve, a backend that follows them gets its document
  signed, and production never runs without its checks;
- client and bridge: an answer reaches the request it belongs to, once;
- choice of a certificate: the best one that works comes first, the server accepts
  what the bridge produces with it, and one listed without a warning is fit to sign with;
- PDF writer: every object is found through the update's xref, the byte
  range covers everything but the signature, a retry starts from the document;
- forms: earlier signatures and fields survive a later signer;
- verification: the report is valid only if every check says so.

## The models

| Module | Models | EXTENDS / INSTANCE |
|---|---|---|
| `SigningSessions` | the abstract life of a session: what the engine promises | |
| `SigningManager` | the engine, one action per critical section or channel operation | `Promise == INSTANCE SigningSessions` |
| `MCSigningManager` | its instances for TLC (symmetry) | EXTENDS `SigningManager` |
| `PdfSignApp` | the approval web app on top of the promised engine | EXTENDS `SigningSessions` |
| `BridgeClient` | the SDK, the extension and the native host, for any page | |
| `MCBridgeClient` | its instance for TLC (bounded calls) | EXTENDS `BridgeClient` |
| `ApprovalPage` | the approval page's flows over one bridge | EXTENDS `BridgeClient` |
| `PdfsignSvc` | the signing service and its backends on top of the promised engine | EXTENDS `SigningSessions` |
| `MCPdfsignSvc` | its instance for TLC | EXTENDS `PdfsignSvc` |
| `CertificateStore` | the native host's two commands, the card and store they meet, the server's certificate checks | |
| `MCCertificateStore` | its instance for TLC (seven certificates) | EXTENDS `CertificateStore` |
| `RoutedForm` | what the updates promise about a form: a mark is made once and stays | |
| `PdfRevision` | the incremental update and the revisions of a document | `Form == INSTANCE RoutedForm` |
| `MCPdfRevision` | its instances for TLC (what the form calls its fields) | EXTENDS `PdfRevision` |
| `SigningManagerProofs`, `PdfSignAppProofs`, `PdfsignSvcProofs`, `CertificateStoreProofs`, `PdfRevisionProofs` | theorems and proofs | EXTENDS the module, `TLAPS` |
| `ApprovalPageProofs` | theorems and proofs about `BridgeClient` and `ApprovalPage` | EXTENDS `ApprovalPage`, `TLAPS` |
| `SigningQuotaProofs` | the engine's quota, proved | EXTENDS `SigningManagerProofs` |
| `SigningRefinementProofs` | that the engine implements `SigningSessions`, proved | EXTENDS `SigningManagerProofs` |

Engine, app and service are composed through `SigningSessions`: the engine is shown to
implement it (`ImplementsPromise`, proved), and the app and the service are modelled
against it, so that none needs the other's detail. Page and bridge are composed by extension: the
page's steps call the bridge's `Ask` and wait for what it does to their promise.
`PdfRevision` is what happens inside the worker of the engine; the engine sees of
it that it asks for a signature, fails, or asks again.

### SigningManager

A *caller* is a request goroutine. `at[c]` says where in `Prepare`, `Complete`
or `Cancel` it is, `tok[c]` and `who[c]` hold its session and owner.

| State | Code |
|---|---|
| `sessions`, `owner`, `pastTTL` | `Manager.sessions`, `Session.Owner`, `Session.ExpiresAt` |
| `preparing` | `Manager.preparing` |
| `digestCh`, `closes`, `doneCh` | what `digestCh` and `doneCh` hold; how often `sigCh` was closed (a second time panics) |
| `worker` | the signing goroutine: running, its digest surfaced, parked in `externalSigner.Sign`, embedding, exited |
| `batch`, `closing` | the janitor's slice `expired` and the session it waits for |
| `issued`, `claim`, `fate` | history: tokens clients know, why a session left the map, what came of it |

Each action is one critical section of `Manager.mu` or one channel operation;
the code between two of them touches only the goroutine's own data. The
deferred `releasePreparing` runs after the session was stored, in a critical
section of its own, so there is a moment in which one call is counted twice.
`select` with a timer: an event sent to a waiting `select` is not lost to the
timer, so a timeout needs empty channels. Whether a signature verifies, and
whether embedding it fails, is a choice. A digest, a signature and a document
are not represented; only where they are.

Bounds: `Token` bounds the sessions ever created; nothing else is bounded by
hand, since every counter is bounded by the number of callers. Two constants switch
rare events: `Oversize` (the CMS container does not fit its placeholder, so the
PDF layer asks for a second signature) and `Starvation` (a runnable goroutine
stays off the CPU for all of `finishWait`).

### PdfSignApp

A *handler* is a request in `sign/start` or `sign/finish`. The item lock is
`locked`; `pending`, `archived`, `signed` and `tmp` are the files, where a file's
content is the session that made it, or `Partial` for a write that did not end.
`publishSigned` is one action per system call, each of which may fail.
`CrashRestart` forgets the process and keeps the files, then runs
`ensureSamplePDFs`, which refills an empty queue on every start. The listing
reads its two directories in two steps.

The engine's `Complete` is `FinishTake` followed by `FinishSigned` or
`FinishFailed`; the handler knows that the session is over when the call is.

### PdfsignSvc

| State | Code |
|---|---|
| `mode`, `up` | the flags the service accepted (`-dev`, `-sign-ca`); does the process run? |
| `call` | the request each handler works on, how far it is, the status it will answer |
| `cert` | the certificate a session was prepared with |
| `flow` | the backends: how far each document is, the session id they keep |
| `incidents` | bound: how much went wrong so far |

A handler runs through the checks of its function in their order: identity, body,
certificate, quota, engine. `Prepare` reserves, stores the session, and gives the
reservation back in three steps, so that two creates of a tenant meet in between.
`Start` chooses any flags that pass the start-up checks; `Kill` forgets every session
and every call, as sessions exist in memory only, and the next `Start` uses the same
flags. The backends are external: they do what the status table of
`docs/integration-guide.md` says, start over after 404 and failures, and may start over
or repeat the call when the answer was lost. A request or an answer may be lost,
a backend may give up waiting, and calls that belong to no document (other
tenants, wrong tokens, malformed bodies, unacceptable certificates) come at any time.

Bounds: `MaxEvents` bounds documents and incidents together. An incident is anything
not according to plan: a lost message, a kill, a failing `Prepare` or embedding, a bad
signature, a cancellation, a time-out, an expiry while the user still signs, a stray call.

### CertificateStore

| State | Code |
|---|---|
| `store`, `keys` | the user's `MY` store in its order of enumeration, the private keys within reach |
| `now`, `changes` | the day; bound: how often cards or store changed |
| `roots`, `mtls` | does the server have `-sign-ca`, `-client-ca`? |
| `page` | the approval flow: chosen certificate, the warning it came with, the signature |
| `host` | the process that runs `signDigest` |

A certificate is a record of what the code looks at: usages, extended usages, validity,
algorithm, the key it belongs to, its holder, whether it chains to the server's roots.
`Entries` is the loop of `listSigningCertificates` with its stable sort, written as insertion
behind all that score as much or more.
The two commands of the host run in processes of their own, so cards and
certificates may change between the two, and between finding the key and
signing with it. The page takes the first certificate, as `signItem` does; the server checks it
(`ValidateCert`, `authorizeSigningCert`) and later the signature's form and key
(`verifyRawSignature`). When the page displays the warning is not modelled (see below).
Windows itself is external.
`FlowDays` is how long one approval may take in days: the timeouts of bridge and session
are minutes, so it is less than `WarnDays`.

### BridgeClient and ApprovalPage

| State | Code |
|---|---|
| `seq`, `waiters` | `seq` and the `pending` map of each instance `createNativeBridge` returned |
| `call` | the promise each coroutine of the page awaits |
| `posted`, `replies` | requests and responses on the page's `window` |
| `relayed` | requests that `content.js` handed to `background.js`, up to the answer of the one-shot native host |
| `asked`, `answer` | history: what a caller asked for, and the query whose answer settled its promise |
| `bridge`, `at`, `item`, `tok`, `http` | `bridgePromise` and the local state of `signItem`, one flow per click |
| `shown`, `disabled`, `seen` | the rendered queue, its disabled buttons, the body of a fetched list |

Messages are sets: they arrive late, in any order or never, and each
answer is delivered to the listeners of all instances at once, as `postMessage`
does. A *query* is a command with its payload, so a digest is represented by the
session it belongs to. The page's server is what the page can tell of it: open
sessions, which expire at any time, and published items; a response may get
lost after the server has acted. The first listing is assumed on display. The
demo bridge (`pdfsign-client.js`) signs with an HTTP request and has no message
exchange; it is not modelled.

### PdfRevision

| State | Code |
|---|---|
| `file`, `rdr`, `xrefType` | `InputFile`, and how `PDFReader` resolves the numbers of its objects |
| `out` | `OutputBuffer`, `newXrefEntries`, `updatedXrefEntries` |
| `job`, `maxLength`, `gap`, `ids` | `SignData`, `SignatureMaxLength`, `ByteRangeValues`, the numbers of the objects written |
| `left` | the fields that the loop of `fillTextFields` has not come to |
| `depth` | the `SignPDF` calls that `replaceSignature` made from within a `SignPDF` |
| `output` | what `OutputFile` has been given |
| `retried` | history |

A file is a sequence of segments (objects, cross-reference sections, ends), an offset
a position in it. `Reader` is the PDF library: sections chained by `/Prev`, the
newest entry of a number wins, numbers from `/Size` on are dropped. Each action is
one step of `SignPDF`, with the writes to the buffer it makes; an error at any of them ends
the call with nothing written. A *mark* on a field is the number of the signature
that was put into it or that covers the text filled in, so `RoutedForm` can say that no mark
changes. The area of a field is chosen with the job, since a field is signed once.
`OwnTitle` says which fields of the form bear a name of the kind that
`createVisualSignature` gives ("Signature N"); other names cannot meet one and
are all alike. A text filled in is never empty, while `pdffillfields.go:81` takes a
field with an empty text for unfilled.
Documents come unsigned, with or without numbers to spare under `/Size`; those
signed by other programs are not represented, nor are certification, usage-rights and
document timestamp signatures.

## The runs

| Run | Instance | Question | Outcome |
|---|---|---|---|
| `manager_safety` | 3 callers, 2 tokens, 2 owners, quota 1 | channels, custody, quota on sessions and on workers, refinement | holds, 53,972 states up to symmetry |
| `manager_liveness` | 2 callers, 2 tokens, oversize and starvation allowed | do calls return, do sessions end, do workers end if the TSA responds? | holds |
| `manager_leak` | 1 caller, 1 token, oversize allowed | is a failed session's worker closed? | **violated** |
| `app` | 2 handlers, 2 tokens, 2 items, crashes | locks, files, listing, liveness | holds, 83,112 states |
| `app_double_signing` | 2 handlers, 1 item, no crash | does a publication retire a pending item? | **violated** |
| `page` | 2 flows on 2 items, 1 bridge, 2 sessions | own answers, own signature, does every click end? | holds, 60,357 states |
| `svc` | 2 documents of one tenant, a second tenant, 2 handlers, 4 tokens, quota 1, 3 documents and incidents together | status codes, tenants, production's checks, the quota's places, does every document get signed? | holds, 360,873 states |
| `cards` | store of 3 of 7 certificates, 2 changes, 3 days, with and without roots and mTLS | order of the listing, agreement of bridge and server, is what was listed without a warning fit to sign? | holds, 738,185 states |
| `revisions` | 2 text and 2 signature fields (called "Signature 1" and "2"), one of each nested, up to 2 updates, both xref types, estimate 2, containers 1 to 3 | is every object found, every number fresh, every name unique, every byte range right, every mark kept? | holds, about 195,000 states |
| `revision_zeros` | 1 field, 2 updates, estimates 2 and 3 | does the byte range leave out the new signature? | **violated** |
| `revision_titles` | 1 signature field called "Signature 2", 1 update | are the names of fields unique? | **violated** |
| `bridge_two_instances` | 2 instances, 2 callers, 1 call each | own answers | **violated** |

Why these bounds: a session is contended for by at most two calls and the
janitor, a quota of one is reached and exceeded by two Prepares of one owner
(three callers let a third complete meanwhile), two owners show that
they do not interfere, and two tokens give the janitor a batch of two. In the
app, two handlers race for one item while its earlier session is being
expired or signed; two items distinguish "this item's lock" from "a lock".
On the page, two flows make up to five calls of one bridge, so that an answer
that comes after its timeout meets a later call; more flows repeat the same pairs,
and the theorems below hold for any number of them. The service's two documents
compete for a quota of one, so that a session left behind by one of them locks the
other out until the janitor comes; with a single document two incidents fit, which is
what it takes to lose an answer and then the retry. The seven
certificates differ in each of the ways the code tells apart, three of them in a store show
every order of better, equal and unlisted ones, and two changes withdraw a card
and bring another. Of revisions, the second
meets everything the first left behind (a signed field, a filled one, a widget, a
stream no section lists, an earlier byte range); a third only repeats it. In
`revisions` the zeros an embedded signature leaves are fewer than any estimate
(`revision_zeros` shows what happens otherwise), and a document whose signing was retried
is not signed again (see below).

Each property of a passing run comes with a mutant of the model (a comment
`mutant:` marks it): a plausible bug in the code under which TLC finds the
property violated. `Spec` and `FairSpec` never use them.

`CHECK_DEADLOCK FALSE` is set because tokens are finite: a server whose tokens
are used up and whose clients send nothing has no step left.

### What the violated runs show

- `manager_leak`: when the container outgrows its placeholder
  (`pdfsignature.go:445`), `replaceSignature` starts over and asks the external
  signer again. Nobody answers: `Complete` times out (`signing.go:332`) without
  closing `sigCh`, and the session has left the map, so the janitor cannot
  either. The comment at `signing.go:300` says the session is closed on any error.
- `app_double_signing`: `sign/start` reads the document (`handlers.go:124`)
  before it reserves the item (`handlers.go:130`). A request delayed in
  between signs a document that has been published and archived meanwhile; its
  own publication replaces the signed file and fails at the archive step.
- `bridge_two_instances`: `client_design.md:43` calls the id a page-local
  sequence number that correlates responses. It is local to an instance: with two
  of them both start at 1 and one response settles a call of each. The page of
  this repository creates one; `integration-guide.md:107` creates one per signature.
- `revision_zeros`: `updateByteRange` searches for a run of zeros, not for the
  `/Contents` that its comment names (`pdfbyterange.go:14`). When an earlier signature
  had more room to spare than the new one needs in all, its padding is found first.
- `revision_titles`: a new field is called "Signature " and one more than the number of signature
  fields there are (`pdfvisualsignature.go:105`); nobody looks at their names. If the form
  has one, called "Signature 2", there are then two of that name, where the comment
  announces a unique title.

### Behaviour to know that no run is about

- `signing.go:137` has `maxPerOwner` cap "parked goroutines and in-memory documents". It caps
  those that `Complete` has not given up on (`WorkersWithinQuota`). The others are neither counted nor
  ended by anybody: a worker whose TSA does not answer, since its HTTP client has no
  timeout (`pdfsignature.go:405`) while `Complete` waits for `finishWait` (`signing.go:332`); one whose
  container did not fit (`manager_leak`); one that was not scheduled for
  `finishWait`, as when the process is paused (`signing.go:316`, where the comment allows for a dead
  goroutine only). The last two stay parked for good; a TSA that answers late ends the first.
- `winsign.go:48` and `:139` say of a certificate's warning that the user sees it before signing. The
  page displays it with the signed item (`app.js:83`-`:88`), when it is too late to take another
  certificate, and not at all if anything fails; `client_design.md:78` says "after signing".
  `UnflaggedIsFit` is about the entry of the list only.
- Two flows that end close together each fetch the lists (`app.js` `refresh`). The list
  fetched first may arrive last and shows the other flow's item as pending although
  its flow is done, until the next refresh. The server refuses a click on it.
- The `SignPDF` that `replaceSignature` calls for a retry writes the document to
  `OutputFile`, and so does the one it was called from: the output is the document
  twice, and the byte range covers half of it. (In the engine the retry never gets that
  far, see `manager_leak`; it does for callers with a key of their own.)
- `integration-guide.md:320` promises 502 or 503 for a problem of the service or the TSA; for
  a failing TSA and for a full quota the service answers 422 (`main.go:295`, `:339`), as the model does.
- Sessions live in one process. A rolling update that runs two of them sends a completion
  to a process that does not know the session: 404, which the guide's table covers.
- A certificate for document signing without the non-repudiation usage ranks level with one
  that has that usage and nothing else, since both score 2 (`winsign.go:127` describes
  the bit as what tells them apart), and above it when it is for e-mail too; `ListingRight`
  states this exception.

## Fairness

`FairSpec` of the engine: the Go scheduler runs each runnable goroutine, timers
fire and the ticker ticks (weak fairness of a caller's steps inside the Manager,
of the worker's local steps, of the passing of time, of the janitor). No
fairness on clients, and none on embedding, which may wait for a TSA whose HTTP
request has no deadline. `ResponsiveTSASpec` adds that embedding ends;
only `WorkersEnd`, which has it as its condition, and `manager_leak` need it. The
app's `FairSpec`: handlers run to
their response (every call into the engine returns: `CallsReturn`) and the engine
expires what stays open (`SessionsEnd`). The page's `FairSpec`: its coroutines
continue when what they await is settled, timers fire, and every fetch ends with
a response or an error. Neither the extension nor the card has to answer;
as to the bridge, `FlowsEnd` rests on its timeouts alone. The service's `FairSpec`: a container
runtime restarts a killed process (`deploy` runs it as a Kubernetes Deployment), handlers run to
their answer (`CallsReturn`), sessions nobody completes expire (`SessionsEnd`), and the
backends go on with their documents. No incident has to happen, so
`FlowsComplete` says that a document gets signed once things stop going wrong, whatever they
left behind.

## Proofs

`SigningManagerProofs` proves `TypeOK`, `Custody`, `ChannelSafety` and
`NobodyStranded` of `Spec`, for any callers, owners, tokens and quota, from
`ManagerAssumption`. The inductive invariant is `TypeOK /\ Custody`. The two
properties of interest are not inductive: that a channel is not closed
twice rests on there being one custodian per session, and that a result is
still there for its waiter rests on nobody else having received it. `Custody`
says both: who holds each session, and in which state its channels then are.
The step lemma has one case per action, each split into typing and custody.

`PdfSignAppProofs` proves `LockHasOneHolder` and `SignedIsGenuine` of `Spec`, for
any handlers, items and tokens, with and without crashes, from
`SessionAssumption` and `AppAssumption`. The inductive invariant `Inv` adds to
them what a handler knows at each site about its session and files
(`HandlerKnows`) and that a session which has begun has an owner (`SessionKnows`).
`SignedIsGenuine` needs the lock: a publisher's temp file holds what it wrote
because it is the only holder of its item. `SourceKept` and `ListingComplete` are
proved on top of it: a second invariant, `Files`, adds that a listing half-way
through has every item that is not signed yet (`Scanning`), and rests on a signed
document never being removed (`SignedStays`) and on the publisher having renamed
before it archives.

`ApprovalPageProofs` first proves `WaitersExact` of `PageSpec`, which lets the page ask
anything at any time, for any instances and callers, and `OwnAnswers` for a page
with a single instance (`OneInstance`; the run `bridge_two_instances` shows that
it is needed). The invariant says that no number is given out twice (`Numbers`)
and that a request or response with the number of an entry is about what that
entry's caller asked (`Correlated`).
On top of it, `RightSignature` and `PageTypeOK` are proved under the same
assumption: each step of the page is a step of `PageSpec` or leaves the bridge
alone, so the bridge's invariant carries over, and `FlowKnows` and `ServerKnows`
tie the query a flow asked to the token it sends.

`SigningQuotaProofs` proves `ReservationsExact` and `StoredWithinQuota`, for any finite set
of callers (`FinitenessAssumption`). That a reservation is neither lost nor given back
twice is inductive with what a caller knows of its owner (`CallersKnow`). That the quota
holds is not: a Prepare checks it before parsing and stores its session long after. The
inductive form, `PlacesLeft`, is that every reservation not yet stored has a free place;
it is proved with lemmas about the cardinality of the three sets involved.
`WorkersWithinQuota` (`QuotaCapsWorkers`) is proved from the fact that every worker that has not
exited belongs to a session that is stored, being prepared or being ended, or that `Complete` gave up
on (`EndersKnown`), again without conditions on the TSA, the containers or the scheduler.

`SigningRefinementProofs` proves `ImplementsPromise`: every behaviour of the engine is one
of `SigningSessions` under the refinement mapping. `HistoryInv` ties the history variables
to the site of whoever holds the session, so that each step can be matched: a
critical section that stores, takes or expires is a step of the promise, everything else
a stutter.

`PdfsignSvcProofs` proves `SvcTypeOK`, `AnswersAreTrue`, `ProductionValidates` and
`TenantsKeepToTheirOwn` of `Spec`, for any tenants, handlers, documents, tokens, quota and any
number of incidents, from `SvcAssumption` and `SessionAssumption`. The invariant `Inv` says
what a request and its session are at each site (`CallShape`, `CallKnows`), that a session is
taken by one handler (`OneTaker`), and what every session
of a process has passed (`SessionKnows`, `Started`). That documents do not get mixed up needs a second
one, `Served`: a document has at most one request and one session, which no other document
has - across lost answers, retries, and handlers that work for a backend which left.
`LeaksPaidFor` needs a third, `Paid`, since `Orphans` can grow without an incident: a backend that
starts over after a lost answer leaves a session which was lost when the answer was. `Paid` counts
what is lost from that moment on: the open sessions for which neither a backend is ready nor a
request of a backend is under way (`Unattended`), and the creates nobody waits for that will make one
(`Orphaning`), together never more than the incidents. Each step changes the two sets in one of
four ways (`Changes`, `Balance`); that a backend which hears of a failure has no session left is
`AnswersAreTrue`, put to use. That the sets are finite is part of the invariant, not an assumption.

`CertificateStoreProofs` proves all four properties of `cards`, for any certificates, any
size of the store and any number of days and changes, from `CertificateAssumption`.
`ListingRight` says what the recursive function `Entries` computes, which takes an induction over
the store. The library's induction theorems have an operator as a parameter, which none of the
provers can instantiate; the well-foundedness of the naturals (`NatLessThanWellFounded`,
`WFMin`) has none, and gives the induction needed in terms of sets (`Least`, `InductionUpTo`).
It serves three times: for the existence of the recursive function (`EntriesExist`), of a place to
insert (`PlaceExists`), and for the list being right for the first n certificates
(`ListingIsRight`). The invariant `PageKnows` keeps what was looked at when the certificate was listed:
it is about the day `page.since`, and `FlowDays < WarnDays` carries it to the day of the signature.
`UnflaggedStaysFit` is therefore about the entry of the list, not about what the user has seen.

`PdfRevisionProofs` proves every property of `revisions`, for any form, any estimates and containers,
and any number of revisions, from `RevisionAssumption`.
The inductive invariant `Inv` is `Typed /\ Sound`. `Typed` says of every state that the
document is in order (`Doc`) and that an update is appended to it. `Sound` says what an update has appended
(`Building`), that its context lists exactly that, and that the whole is in order again and the marks kept
once the section is written (`Built`). A document is in order if a section points back to an earlier
one (`Shape`), the sections list the newest version of each object (`Tabled`), no number is used for two
objects (`Numbered`), the catalog leads to all fields (`Formed`), and marks, and under the condition below
names, are below those to come (`Titled`). `Doc` is what each update starts from and what it leaves, so the
theorems hold for any number of updates.

- What a section chain resolves a number to is a recursive function (`Sections`). That
  the function exists is proved as for `Entries`, from the well-foundedness of the naturals;
  that nothing changes for the sections of a document when segments follow it (`Extends`) is a second such
  induction, and lets the update's section be read on top of what there was.
- `updateByteRange` and `replaceSignature` write into a finished document. `PatchedDoc` says
  that this does no harm, since they write into signatures only.
- After a retry, `Sound` claims nothing: the output is the document twice, which the model does not sign
  again. `Typed` holds on, and suffices for the types and for the byte range to be the new signature's own.
- `InputKept` and `RangesExact` are false for some constants: `revision_zeros` shows it. They are proved under
  `NoOldZeros`, that no signature leaves as many zeros as a later one reserves, with a second
  invariant, `RangesInv`, under which `UpdateByteRange` finds its own zeros first
  (`FindsOwn`). The condition holds in `revisions`; in the code it holds whenever all signers of a
  document are given the same estimate and no container is empty. Under the condition
  `RangeLeavesOutOwn` proves the very property that `revision_zeros` refutes without it.
- `UniqueTitles` is false for some forms: `revision_titles` shows it. It is proved under
  `NumberedByCount`, that no field of the form is called "Signature N" with an N beyond the number of the
  form's signature fields. A new field then gets a number that no field has, whether
  the fields before it came with the form or from this code.
- `RevisionsKeepMarks` proves the refinement of `RoutedForm`: closing an update is a step
  in which one signer makes its marks (`MarksMade`), everything else a stutter.

`AppTypeCorrect` and `PageTypeCorrect` prove the type invariants of the app and the page.

Only model-checked: the liveness properties (`CallsReturn`, `SessionsEnd`, `WorkersEnd`, `LocksReleased`,
`FlowsEnd`, `FlowsComplete`), since fairness and ENABLED are out of the prover's reach. Every
invariant and every action property of a passing run is a theorem.

## Not modelled

- The verification library: a function of one file and its options, in a vendored fork.
  It keeps no state, runs sequentially, and the verify handler and the inspector only forward
  its report. (Worth knowing: it takes an embedded timestamp for the signing time
  even if the timestamp's certificate is not trusted.)
- Demo card, appearance streams, the inspector, deployment manifests, the start-up flags of
  `pdf-sign`: nothing whose evolution could go wrong. The flags of the service are
  modelled, because what production may do depends on them.
- Revocation embedding: a download hook that none of the programs sets.
- The Windows calls of the host, TLS, cryptography: a signature verifies or it does not.
- Certification, usage-rights and document timestamp signatures, and documents signed by
  other programs.

## Plan

Done, in order of importance: the engine (`SigningSessions`, `SigningManager`), the approval app
(`PdfSignApp`), page and bridge (`BridgeClient`, `ApprovalPage`), updates and forms
(`RoutedForm`, `PdfRevision`), the service (`PdfsignSvc`), the choice of a certificate
(`CertificateStore`), and the proofs of all invariants, action properties and refinements.

Left, in order:

1. As theorems about steps, that app and service use the engine as `SigningSessions` promises: that a step
   which is no crash is one of `SessionNext` or leaves the sessions alone. So far this rests on their
   actions being written with its operators.
2. The stores of several processes behind one name, if the service is ever to run that way.
