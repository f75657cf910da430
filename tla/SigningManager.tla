---------------------------- MODULE SigningManager ----------------------------
(***************************************************************************)
(* The deferred-signing engine, internal/signing/signing.go: the Manager,  *)
(* the request goroutines that call Prepare, Complete and Cancel, the      *)
(* signing goroutine ("worker") that every Prepare starts and that parks   *)
(* in externalSigner.Sign, and the janitor.                                *)
(*                                                                         *)
(* The parts meet in the two maps under Manager.mu and in three channels   *)
(* per session:                                                            *)
(*   digestCh  buffered, one digest: worker -> Prepare                     *)
(*   sigCh     unbuffered: Complete -> worker; closed to cancel the worker *)
(*   doneCh    buffered, one result: worker -> whoever ends the session    *)
(*                                                                         *)
(* One action is one critical section or one channel operation.  A step    *)
(* that touches only the caller's own state is merged into its neighbour.  *)
(***************************************************************************)
EXTENDS Naturals, FiniteSets

CONSTANTS
  Caller,        \* request goroutines of the embedding server
  Owner,         \* values of Options.Owner
  Token,         \* tokens newToken can return (the bound on sessions)
  MaxPerOwner,   \* Manager.maxPerOwner; 0 = unlimited
  NoOwner, NoToken, Janitor,
  Oversize,      \* may a CMS container outgrow its placeholder?
  Starvation     \* may a runnable worker stay off the CPU for finishWait?

ASSUME ManagerAssumption ==
  /\ MaxPerOwner \in Nat
  /\ NoOwner \notin Owner /\ Janitor \notin Owner
  /\ NoToken \notin Token
  /\ Oversize \in BOOLEAN /\ Starvation \in BOOLEAN

ASSUME FinitenessAssumption == IsFiniteSet(Caller) /\ IsFiniteSet(Token)

VARIABLES
  at,         \* where each caller is; "idle" outside the Manager
  tok,        \* the session the caller works on
  who,        \* opts.Owner, or the owner argument, of the caller's call
  sessions,   \* Manager.sessions: the tokens that are stored
  preparing,  \* Manager.preparing
  owner,      \* Session.Owner
  pastTTL,    \* the sessions whose ExpiresAt has passed
  digestCh,   \* the sessions with a digest in digestCh
  closes,     \* how often sigCh was closed
  doneCh,     \* what doneCh holds
  worker,     \* where each signing goroutine is
  batch,      \* the janitor's `expired`, still to be closed
  closing,    \* the session whose doneCh the janitor waits for
  issued,     \* history: tokens that Prepare returned to a client
  claim,      \* history: why and for whom a session left the map
  fate        \* history: what came of a claimed session

callerVars  == <<at, tok, who>>
managerVars == <<sessions, preparing, owner, pastTTL>>
channelVars == <<digestCh, closes, doneCh>>
janitorVars == <<batch, closing>>
historyVars == <<issued, claim, fate>>
vars == <<callerVars, managerVars, channelVars, worker, janitorVars, historyVars>>

Sites == {"idle", "parsing", "awaitDigest", "abandoning", "returning", "failing",
          "sending", "awaitDone", "closing", "draining"}
WorkerSites == {"none", "running", "surfaced", "parked", "embedding", "exited"}
Results == {"empty", "ok", "err"}
Reasons == {"finish", "reject", "cancel", "expire"}
NoClaim == [why |-> "none", by |-> NoOwner]
Claims  == [why : Reasons, by : Owner \union {Janitor}] \union {NoClaim}

TypeOK ==
  /\ at \in [Caller -> Sites]
  /\ tok \in [Caller -> Token \union {NoToken}]
  /\ who \in [Caller -> Owner \union {NoOwner}]
  /\ sessions \in SUBSET Token
  /\ preparing \in [Owner -> Nat]
  /\ owner \in [Token -> Owner \union {NoOwner}]
  /\ pastTTL \in SUBSET Token
  /\ digestCh \in SUBSET Token
  /\ closes \in [Token -> Nat]
  /\ doneCh \in [Token -> Results]
  /\ worker \in [Token -> WorkerSites]
  /\ batch \in SUBSET Token
  /\ closing \in Token \union {NoToken}
  /\ issued \in SUBSET Token
  /\ claim \in [Token -> Claims]
  /\ fate \in [Token -> {"none", "signed", "ended"}]

Init ==
  /\ at = [c \in Caller |-> "idle"]
  /\ tok = [c \in Caller |-> NoToken]
  /\ who = [c \in Caller |-> NoOwner]
  /\ sessions = {} /\ pastTTL = {} /\ digestCh = {} /\ batch = {} /\ issued = {}
  /\ preparing = [o \in Owner |-> 0]
  /\ owner = [t \in Token |-> NoOwner]
  /\ closes = [t \in Token |-> 0]
  /\ doneCh = [t \in Token |-> "empty"]
  /\ worker = [t \in Token |-> "none"]
  /\ closing = NoToken
  /\ claim = [t \in Token |-> NoClaim]
  /\ fate = [t \in Token |-> "none"]

-----------------------------------------------------------------------------
(* Building blocks.                                                        *)

Goes(c, from, to) == at[c] = from /\ at' = [at EXCEPT ![c] = to]

(* A call returns.  The caller forgets the session.                         *)
Leaves(c, from) ==
  /\ Goes(c, from, "idle")
  /\ tok' = [tok EXCEPT ![c] = NoToken]
  /\ who' = [who EXCEPT ![c] = NoOwner]

LeaveSigOpen(t) == UNCHANGED closes  \* mutant: the close is missing
CloseSig(t) == closes' = [closes EXCEPT ![t] = @ + 1]

(* Receiving from doneCh; blocks while it is empty.                         *)
ReceiveDone(t) ==
  /\ doneCh[t] # "empty"
  /\ doneCh' = [doneCh EXCEPT ![t] = "empty"]

(* delete(m.sessions, token), under the mutex.                              *)
Keep(T) == UNCHANGED sessions  \* mutant: the delete is missing
Delete(T) == sessions' = sessions \ T

(* The worker's only send on doneCh: the result of sign.Sign, or of the     *)
(* recovered panic.                                                         *)
FinishesSilently(t, result) ==  \* mutant: the recover sends nothing
  /\ worker' = [worker EXCEPT ![t] = "exited"]
  /\ UNCHANGED doneCh
Finishes(t, result) ==
  /\ doneCh[t] = "empty"
  /\ doneCh' = [doneCh EXCEPT ![t] = result]
  /\ worker' = [worker EXCEPT ![t] = "exited"]

StoredFor(o) == {t \in sessions : owner[t] = o}

(* What Prepare compares with maxPerOwner: the stored sessions and the      *)
(* calls in flight.                                                         *)
InUseStored(o) == Cardinality(StoredFor(o))  \* mutant: only stored sessions
InUse(o) == preparing[o] + Cardinality(StoredFor(o))

-----------------------------------------------------------------------------
(* Prepare.                                                                *)

(* The quota check and the reservation, one critical section.  A refused    *)
(* call changes nothing and is left out.                                    *)
QuotaAllows(o) == MaxPerOwner > 0 => InUse(o) < MaxPerOwner

Reserve(o) ==
  preparing' = IF MaxPerOwner > 0 THEN [preparing EXCEPT ![o] = @ + 1] ELSE preparing

PrepareBegin(c, o) ==
  /\ Goes(c, "idle", "parsing")
  /\ QuotaAllows(o)
  /\ Reserve(o)
  /\ who' = [who EXCEPT ![c] = o]
  /\ UNCHANGED <<tok, sessions, owner, pastTTL, channelVars, worker, janitorVars, historyVars>>

(* The document does not parse, or no token can be drawn.                   *)
PrepareUnparsable(c) ==
  /\ Goes(c, "parsing", "failing")
  /\ UNCHANGED <<tok, who, managerVars, channelVars, worker, janitorVars, historyVars>>

(* newToken, the Session with its channels and ExpiresAt, and the worker.   *)
PrepareSpawn(c, t) ==
  /\ Goes(c, "parsing", "awaitDigest")
  /\ worker[t] = "none"
  /\ tok' = [tok EXCEPT ![c] = t]
  /\ owner' = [owner EXCEPT ![t] = who[c]]
  /\ worker' = [worker EXCEPT ![t] = "running"]
  /\ UNCHANGED <<who, sessions, preparing, pastTTL, channelVars, janitorVars, historyVars>>

(* The digest surfaced: the session is stored.  The deferred release of     *)
(* the reservation is a critical section of its own, later.                 *)
PrepareStore(c) ==
  /\ Goes(c, "awaitDigest", "returning")
  /\ tok[c] \in digestCh
  /\ digestCh' = digestCh \ {tok[c]}
  /\ sessions' = sessions \union {tok[c]}
  /\ UNCHANGED <<tok, who, preparing, owner, pastTTL, closes, doneCh, worker, janitorVars,
                 historyVars>>

(* Signing failed before it needed the signature.                           *)
PrepareFails(c) ==
  /\ Goes(c, "awaitDigest", "failing")
  /\ ReceiveDone(tok[c])
  /\ UNCHANGED <<tok, who, managerVars, digestCh, closes, worker, janitorVars, historyVars>>

(* digestWait ran out.  A value sent to a waiting select is never lost to   *)
(* the timer, so the timer wins only while both channels are empty.         *)
PrepareTimeout(c) ==
  /\ Goes(c, "awaitDigest", "abandoning")
  /\ tok[c] \notin digestCh /\ doneCh[tok[c]] = "empty"
  /\ CloseSig(tok[c])
  /\ UNCHANGED <<tok, who, managerVars, digestCh, doneCh, worker, janitorVars, historyVars>>

PrepareAbandonedAtOnce(c) ==  \* mutant: the timeout does not wait for the worker
  /\ Goes(c, "abandoning", "failing")
  /\ UNCHANGED <<tok, who, managerVars, channelVars, worker, janitorVars, historyVars>>
PrepareAbandoned(c) ==
  /\ Goes(c, "abandoning", "failing")
  /\ ReceiveDone(tok[c])
  /\ UNCHANGED <<tok, who, managerVars, digestCh, closes, worker, janitorVars, historyVars>>

(* releasePreparing, deferred only when a slot was reserved.                *)
ReleaseForgotten(o) == UNCHANGED preparing  \* mutant: the defer is missing
ReleaseTwice(o) == preparing' = [preparing EXCEPT ![o] = @ - 2]  \* mutant
ReleasePreparing(o) ==
  preparing' = IF MaxPerOwner > 0
               THEN [preparing EXCEPT ![o] = IF @ <= 1 THEN 0 ELSE @ - 1]
               ELSE preparing

(* Prepare returns an error, or the session whose token the client learns.  *)
PrepareReturn(c) ==
  /\ \/ Leaves(c, "failing") /\ UNCHANGED issued
     \/ Leaves(c, "returning") /\ issued' = issued \union {tok[c]}
  /\ ReleasePreparing(who[c])
  /\ UNCHANGED <<sessions, owner, pastTTL, channelVars, worker, janitorVars, claim, fate>>

-----------------------------------------------------------------------------
(* Complete and Cancel.                                                    *)

(* takeOwned: hands out a stored session to its owner, and only once.  A    *)
(* call that finds nothing returns ErrNotFound and changes nothing.         *)
EntitledAnyone(t, o) == t \in sessions  \* mutant: no owner check
Entitled(t, o) == t \in sessions /\ owner[t] = o

TakeOwned(c, t, o, why) ==
  /\ Entitled(t, o)
  /\ Delete({t})
  /\ tok' = [tok EXCEPT ![c] = t]
  /\ who' = [who EXCEPT ![c] = o]
  /\ claim' = [claim EXCEPT ![t] = [why |-> why, by |-> o]]

(* Complete takes the session and verifies the raw signature against the    *)
(* certificate of the session: it goes on to send it, or to close sigCh.    *)
CompleteTake(c, t, o) ==
  /\ t \in issued
  /\ \/ Goes(c, "idle", "sending") /\ TakeOwned(c, t, o, "finish")
     \/ Goes(c, "idle", "closing") /\ TakeOwned(c, t, o, "reject")
  /\ UNCHANGED <<preparing, owner, pastTTL, channelVars, worker, janitorVars, issued, fate>>

(* The rendezvous on sigCh with a parked worker.                            *)
CompleteSend(c) ==
  /\ Goes(c, "sending", "awaitDone")
  /\ worker[tok[c]] = "parked"
  /\ worker' = [worker EXCEPT ![tok[c]] = "embedding"]
  /\ UNCHANGED <<tok, who, managerVars, channelVars, janitorVars, historyVars>>

(* finishWait ran out before the worker came to receive: the call returns   *)
(* an error and leaves sigCh as it is.  The worker of a stored session has  *)
(* only two channel operations to go, so this needs a starved worker.       *)
CompleteSendTimeout(c) ==
  /\ Starvation
  /\ Leaves(c, "sending")
  /\ worker[tok[c]] # "parked"
  /\ doneCh' = [doneCh EXCEPT ![tok[c]] = "empty"]
  /\ fate' = [fate EXCEPT ![tok[c]] = "ended"]
  /\ UNCHANGED <<managerVars, digestCh, closes, worker, janitorVars, issued, claim>>

(* The worker is done: the signed document, or the error it met.            *)
CompleteReturn(c) ==
  /\ Leaves(c, "awaitDone")
  /\ ReceiveDone(tok[c])
  /\ fate' = [fate EXCEPT ![tok[c]] = IF doneCh[tok[c]] = "ok" THEN "signed" ELSE "ended"]
  /\ UNCHANGED <<managerVars, digestCh, closes, worker, janitorVars, issued, claim>>

(* finishWait ran out during the embedding: "timed out embedding            *)
(* signature".  Here too sigCh is left as it is.                            *)
CompleteTimeout(c) ==
  /\ Leaves(c, "awaitDone")
  /\ doneCh[tok[c]] = "empty"
  /\ fate' = [fate EXCEPT ![tok[c]] = "ended"]
  /\ UNCHANGED <<managerVars, channelVars, worker, janitorVars, issued, claim>>

CancelTake(c, t, o) ==
  /\ t \in issued
  /\ Goes(c, "idle", "closing")
  /\ TakeOwned(c, t, o, "cancel")
  /\ UNCHANGED <<preparing, owner, pastTTL, channelVars, worker, janitorVars, issued, fate>>

(* Cancel, and Complete with a signature that does not verify: close sigCh, *)
(* then wait for the worker.                                                *)
CloseTaken(c) ==
  /\ Goes(c, "closing", "draining")
  /\ CloseSig(tok[c])
  /\ UNCHANGED <<tok, who, managerVars, digestCh, doneCh, worker, janitorVars, historyVars>>

Drained(c) ==
  /\ Leaves(c, "draining")
  /\ ReceiveDone(tok[c])
  /\ fate' = [fate EXCEPT ![tok[c]] = "ended"]
  /\ UNCHANGED <<managerVars, digestCh, closes, worker, janitorVars, issued, claim>>

-----------------------------------------------------------------------------
(* The worker: sign.Sign with an externalSigner.                           *)

WorkerFrame == UNCHANGED <<callerVars, managerVars, closes, janitorVars, historyVars>>

(* The PDF layer asks for the signature: the digest goes out on digestCh.   *)
Publish(t) ==
  /\ t \notin digestCh
  /\ digestCh' = digestCh \union {t}
  /\ worker' = [worker EXCEPT ![t] = "surfaced"]
  /\ UNCHANGED doneCh

RequestSignature(t) == worker[t] = "running" /\ Publish(t) /\ WorkerFrame

Park(t) ==
  /\ worker[t] = "surfaced"
  /\ worker' = [worker EXCEPT ![t] = "parked"]
  /\ UNCHANGED <<channelVars>> /\ WorkerFrame

(* The receive on a closed sigCh: Sign fails, and with it sign.Sign.        *)
WakeCancelled(t) ==
  /\ worker[t] = "parked" /\ closes[t] > 0
  /\ Finishes(t, "err")
  /\ UNCHANGED digestCh /\ WorkerFrame

(* An error of the PDF layer or of the TSA, or a panic.                     *)
WorkerFails(t) ==
  /\ worker[t] \in {"running", "embedding"}
  /\ Finishes(t, "err")
  /\ UNCHANGED digestCh /\ WorkerFrame

Embed(t) ==
  /\ worker[t] = "embedding"
  /\ Finishes(t, "ok")
  /\ UNCHANGED digestCh /\ WorkerFrame

(* The container does not fit: replaceSignature starts over with a larger   *)
(* placeholder, and SignPDF asks the external signer a second time.         *)
RetryOversize(t) ==
  /\ Oversize
  /\ worker[t] = "embedding"
  /\ Publish(t) /\ WorkerFrame

-----------------------------------------------------------------------------
(* Time and the janitor.                                                   *)

(* ExpiresAt is fixed before the worker starts.                             *)
Elapse(t) ==
  /\ worker[t] # "none" /\ t \notin pastTTL
  /\ pastTTL' = pastTTL \union {t}
  /\ UNCHANGED <<callerVars, sessions, preparing, owner, channelVars, worker, janitorVars,
                 historyVars>>

(* A tick: every expired session leaves the map in one critical section.    *)
Sweep ==
  /\ batch = {} /\ closing = NoToken
  /\ sessions \intersect pastTTL # {}
  /\ batch' = sessions \intersect pastTTL
  /\ Delete(sessions \intersect pastTTL)
  /\ claim' = [t \in Token |-> IF t \in sessions \intersect pastTTL
                               THEN [why |-> "expire", by |-> Janitor]
                               ELSE claim[t]]
  /\ UNCHANGED <<callerVars, preparing, owner, pastTTL, channelVars, worker, closing, issued,
                 fate>>

JanitorClose(t) ==
  /\ closing = NoToken /\ t \in batch
  /\ batch' = batch \ {t}
  /\ closing' = t
  /\ CloseSig(t)
  /\ UNCHANGED <<callerVars, managerVars, digestCh, doneCh, worker, historyVars>>

(* The worker is gone: onExpire may release what is keyed to the session.   *)
JanitorDrain ==
  /\ closing # NoToken
  /\ ReceiveDone(closing)
  /\ closing' = NoToken
  /\ fate' = [fate EXCEPT ![closing] = "ended"]
  /\ UNCHANGED <<callerVars, managerVars, digestCh, closes, worker, batch, issued, claim>>

-----------------------------------------------------------------------------
PrepareStep(c) ==
  \/ PrepareUnparsable(c) \/ \E t \in Token : PrepareSpawn(c, t)
  \/ PrepareStore(c) \/ PrepareFails(c) \/ PrepareTimeout(c) \/ PrepareAbandoned(c)
  \/ PrepareReturn(c)

CompleteStep(c) ==
  \/ CompleteSend(c) \/ CompleteSendTimeout(c) \/ CompleteReturn(c) \/ CompleteTimeout(c)

CancelStep(c) == CloseTaken(c) \/ Drained(c)

(* What a caller does inside the Manager, and what clients ask of it.       *)
CallerStep(c) == PrepareStep(c) \/ CompleteStep(c) \/ CancelStep(c)

Request(c) ==
  \E o \in Owner :
    \/ PrepareBegin(c, o)
    \/ \E t \in Token : CompleteTake(c, t, o) \/ CancelTake(c, t, o)

LocalWorkerStep(t) == RequestSignature(t) \/ Park(t) \/ WakeCancelled(t)
EmbeddingStep(t)   == WorkerFails(t) \/ Embed(t) \/ RetryOversize(t)
WorkerStep(t)      == LocalWorkerStep(t) \/ EmbeddingStep(t)

JanitorStep == Sweep \/ JanitorDrain \/ \E t \in Token : JanitorClose(t)

Next ==
  \/ \E c \in Caller : Request(c) \/ CallerStep(c)
  \/ \E t \in Token : WorkerStep(t) \/ Elapse(t)
  \/ JanitorStep

Spec == Init /\ [][Next]_vars

(* The Go scheduler runs every goroutine that can run, timers fire, the     *)
(* ticker ticks, and the PDF layer up to the signature is local work.       *)
(* Nothing makes a client send a request.  Nothing bounds the embedding     *)
(* either: the request to the TSA has no deadline.                          *)
Fairness ==
  /\ \A c \in Caller : WF_vars(CallerStep(c))
  /\ \A t \in Token : WF_vars(LocalWorkerStep(t)) /\ WF_vars(Elapse(t))
  /\ WF_vars(JanitorStep)

FairSpec == Spec /\ Fairness

(* The same with a TSA that answers, or refuses, eventually.                *)
TSAResponds == \A t \in Token : WF_vars(EmbeddingStep(t))

ResponsiveTSASpec == FairSpec /\ TSAResponds

-----------------------------------------------------------------------------
(* Properties.                                                             *)

(* No channel operation panics: sigCh is closed at most once, whoever ends  *)
(* the session, and nobody is about to send on it once it is closed         *)
(* (signing.go:349: one taker "makes closing or sending on sigCh            *)
(* race-free").                                                             *)
ChannelSafety ==
  \A t \in Token :
    /\ closes[t] <= 1
    /\ closes[t] = 1 => ~ \E c \in Caller : tok[c] = t /\ at[c] \in {"sending", "closing"}

Waiting == {"awaitDigest", "abandoning", "awaitDone", "draining"}

(* Whoever receives from doneCh gets a result: the worker cannot be gone    *)
(* with its single result already consumed or never sent, not even after a  *)
(* panic (signing.go:268: "must not ... strand a Complete caller").         *)
NobodyStranded ==
  /\ \A c \in Caller :
       at[c] \in Waiting => ~ (worker[tok[c]] = "exited" /\ doneCh[tok[c]] = "empty")
  /\ closing # NoToken => ~ (worker[closing] = "exited" /\ doneCh[closing] = "empty")

(* Custody: at every moment a session is stored, or with one caller, or     *)
(* with the janitor, never with two of them; and its channels are in the    *)
(* state its custodian relies on.  A stored session can be finished: its    *)
(* worker waits, or is about to, for a signature and nobody has closed its  *)
(* channel (signing.go:348-350).                                            *)
Custodian == {"awaitDigest", "abandoning", "sending", "awaitDone", "closing", "draining"}
Finishable(t) == closes[t] = 0 /\ doneCh[t] = "empty" /\ worker[t] \in {"surfaced", "parked"}
Answered(t) == worker[t] = "exited" => doneCh[t] # "empty"

CallerCustody(c) ==
  LET t == tok[c] IN
  /\ at[c] \in Custodian \union {"returning"} => t \in Token
  /\ at[c] \in Custodian =>
       /\ t \notin sessions \union batch /\ t # closing
       /\ worker[t] # "none" /\ Answered(t)
       /\ \A d \in Caller \ {c} : at[d] \in Custodian => tok[d] # t
  /\ at[c] \in {"sending", "closing"} => Finishable(t)
  /\ at[c] = "awaitDigest" => /\ closes[t] = 0 /\ worker[t] # "embedding"
                              /\ t \in digestCh => worker[t] \in {"surfaced", "parked"}
  /\ at[c] = "abandoning" => closes[t] = 1 /\ worker[t] # "embedding"
  /\ at[c] = "awaitDone" => closes[t] = 0 /\ worker[t] # "running"
  /\ at[c] = "draining" => closes[t] = 1 /\ worker[t] \in {"surfaced", "parked", "exited"}

JanitorCustody ==
  /\ sessions \intersect batch = {}
  /\ closing # NoToken =>
       /\ closing \notin sessions \union batch
       /\ closes[closing] = 1 /\ worker[closing] \in {"surfaced", "parked", "exited"}
       /\ Answered(closing)

ChannelsOf(t) ==
  /\ closes[t] <= 1
  /\ doneCh[t] # "empty" => worker[t] = "exited"
  /\ worker[t] = "none" => closes[t] = 0 /\ t \notin digestCh

Custody ==
  /\ \A c \in Caller : CallerCustody(c)
  /\ JanitorCustody
  /\ \A t \in sessions \union batch : Finishable(t)
  /\ \A t \in Token : ChannelsOf(t)

Reserving == {"parsing", "awaitDigest", "abandoning", "returning", "failing"}

(* Manager.preparing counts the Prepare calls that run, on every path       *)
(* through Prepare: a slot neither leaks nor is given back twice.           *)
ReservationsExact ==
  MaxPerOwner > 0 =>
    \A o \in Owner :
      preparing[o] = Cardinality({c \in Caller : at[c] \in Reserving /\ who[c] = o})

(* "A burst of concurrent creates cannot exceed maxPerOwner"                *)
(* (signing.go:202): no owner has more sessions stored.                     *)
StoredWithinQuota ==
  MaxPerOwner > 0 => \A o \in Owner : Cardinality(StoredFor(o)) <= MaxPerOwner

(* Complete returned without its worker having exited, after finishWait:    *)
(* the worker starved, embeds - the request to the TSA has no deadline      *)
(* (pdfsignature.go:405) - or waits for a second signature.                 *)
GaveUp(t) == claim[t].why = "finish" /\ fate[t] = "ended"

(* "maxPerOwner caps concurrent sessions - and therefore parked goroutines  *)
(* and in-memory documents" (signing.go:137).  The quota counts sessions,   *)
(* not goroutines.  It caps those that have not exited, whatever they do,   *)
(* because the worker of a session that is neither stored nor being         *)
(* prepared has somebody who ends it right now - but for those that         *)
(* Complete gave up on, which hold their document and are not counted,      *)
(* against the comment.                                                     *)
Ending ==
  batch \union {closing}
  \union {tok[c] : c \in {d \in Caller :
              at[d] \in {"abandoning", "sending", "awaitDone", "closing", "draining"}}}
HoldingFor(o) ==
  {t \in Token \ Ending : owner[t] = o /\ worker[t] \notin {"none", "exited"} /\ ~GaveUp(t)}
WorkersWithinQuota ==
  MaxPerOwner > 0 => \A o \in Owner : Cardinality(HoldingFor(o)) <= MaxPerOwner

(* Implementation of the promise to the programs that use the engine.       *)
phase ==
  [t \in Token |-> IF t \in sessions THEN "open"
                   ELSE IF claim[t] = NoClaim THEN "fresh"
                   ELSE IF fate[t] = "none" THEN "claimed"
                   ELSE fate[t]]
openedFor == [t \in Token |-> IF phase[t] = "fresh" THEN NoOwner ELSE owner[t]]

Promise == INSTANCE SigningSessions WITH owner <- openedFor

(* Each session is claimed once, by its own owner or by expiry; a document  *)
(* is delivered only for a signature that verified; a session never comes   *)
(* back; no owner ever has more than MaxPerOwner sessions stored, however   *)
(* the Prepare calls interleave.                                            *)
ImplementsPromise == Promise!SessionSpec

(* Every call into the Manager returns, whatever the TSA does.              *)
CallsReturn == \A c \in Caller : at[c] # "idle" ~> at[c] = "idle"

(* No session stays open for ever, even one whose client went away or whose *)
(* token was never delivered.                                               *)
SessionsEnd == \A t \in Token : t \in sessions ~> t \notin sessions

(* With a TSA that responds, a worker that parks does not stay: sessions    *)
(* that end take their goroutine and their copy of the document with them.  *)
(* The exception is one that parks and that Complete has given up on.       *)
WorkersEnd ==
  TSAResponds =>
    \A t \in Token :
      worker[t] = "parked" ~> worker[t] = "exited" \/ (worker[t] = "parked" /\ GaveUp(t))

(* "On any error the session is closed" (signing.go:300), read as its       *)
(* purpose: when Complete fails, the parked worker goes away.               *)
ErrorClosesSession ==
  \A t \in Token : fate[t] = "ended" /\ claim[t].why = "finish" ~> worker[t] = "exited"
=============================================================================
