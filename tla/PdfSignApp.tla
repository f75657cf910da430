------------------------------ MODULE PdfSignApp ------------------------------
(***************************************************************************)
(* The approval web app, cmd/pdf-sign: the sign/start and sign/finish      *)
(* handlers, the item locks, the three data directories, the listing, and  *)
(* a crash with a restart.  The signing engine is the one SigningSessions  *)
(* promises: a handler's call into it is that module's action, and the     *)
(* call is over when the session is.  Sessions are owned by the item ID    *)
(* (main.go:93), so Owner is the set of items.                             *)
(***************************************************************************)
EXTENDS SigningSessions

CONSTANTS
  Handler,   \* HTTP requests in progress at one time
  NoFile,    \* a path with no file
  Partial,   \* a file whose writing began and did not end
  Samples,   \* the items ensureSamplePDFs generates; the others are put there
  Crashes    \* may the process die?

ASSUME AppAssumption ==
  /\ MaxPerOwner = 0
  /\ Crashes \in BOOLEAN /\ Samples \subseteq Owner
  /\ {NoFile, Partial} \intersect Token = {} /\ NoFile # Partial
  /\ Handler \intersect Token = {}

Item == Owner

VARIABLES
  at,        \* where each request handler is
  item,      \* the item it works on
  tok,       \* the session it completes
  locked,    \* itemLocks.m
  pending,   \* data/pending
  archived,  \* data/archive
  signed,    \* data/signed/<item>.pdf: the session that made it
  tmp,       \* data/signed/<item>.pdf.tmp
  scanned,   \* a listing in progress: what it read of the first directory
  listed     \* what the last complete listing showed

handlerVars == <<at, item, tok>>
fileVars    == <<pending, archived, signed, tmp>>
listVars    == <<scanned, listed>>
vars == <<sessionVars, handlerVars, locked, fileVars, listVars>>

Sites == {"idle", "read", "preparing", "owned", "completing", "creating", "writing",
          "written", "archiving", "releasing"}
Content == Token \union {NoFile, Partial}
NoListing == [on |-> FALSE, items |-> {}]

AppTypeOK ==
  /\ SessionTypeOK
  /\ at \in [Handler -> Sites]
  /\ item \in [Handler -> Item \union {NoOwner}]
  /\ tok \in [Handler -> Token \union {NoFile}]
  /\ locked \in SUBSET Item /\ pending \in SUBSET Item /\ archived \in SUBSET Item
  /\ signed \in [Item -> Content] /\ tmp \in [Item -> Content]
  /\ scanned \in [on : BOOLEAN, items : SUBSET Item]
  /\ listed \in SUBSET Item
  /\ \A h \in Handler : at[h] # "idle" => item[h] # NoOwner

Init ==
  /\ SessionInit
  /\ at = [h \in Handler |-> "idle"]
  /\ item = [h \in Handler |-> NoOwner]
  /\ tok = [h \in Handler |-> NoFile]
  /\ locked = {} /\ archived = {} /\ pending = Item
  /\ signed = [i \in Item |-> NoFile] /\ tmp = [i \in Item |-> NoFile]
  /\ scanned = NoListing /\ listed = Item

-----------------------------------------------------------------------------
Goes(h, from, to) == at[h] = from /\ at' = [at EXCEPT ![h] = to]

(* The handler writes its response.                                         *)
Responds(h, from) ==
  /\ Goes(h, from, "idle")
  /\ item' = [item EXCEPT ![h] = NoOwner]
  /\ tok' = [tok EXCEPT ![h] = NoFile]

ReserveAlways(i) == locked' = locked \union {i}  \* mutant: reserve never refuses
Reserve(i) == i \notin locked /\ locked' = locked \union {i}
KeepLock(i) == UNCHANGED locked                  \* mutant: release does nothing
Release(i) == locked' = locked \ {i}

(* POST /api/sign/start: the document is read first ...                     *)
StartRead(h, i) ==
  /\ Goes(h, "idle", "read")
  /\ i \in pending
  /\ item' = [item EXCEPT ![h] = i]
  /\ UNCHANGED <<sessionVars, tok, locked, fileVars, listVars>>

(* ... then the item is locked, or the request answered 409.                *)
StartReserve(h) ==
  /\ Goes(h, "read", "preparing")
  /\ Reserve(item[h])
  /\ UNCHANGED <<sessionVars, item, tok, fileVars, listVars>>

StartConflict(h) ==
  /\ Responds(h, "read")
  /\ item[h] \in locked
  /\ UNCHANGED <<sessionVars, locked, fileVars, listVars>>

(* Prepare succeeds: the session, and the lock, outlive the request.        *)
StartPrepared(h, t) ==
  /\ Responds(h, "preparing")
  /\ Open(t, item[h])
  /\ UNCHANGED <<locked, fileVars, listVars>>

StartFailed(h) ==
  /\ Goes(h, "preparing", "releasing")
  /\ UNCHANGED <<sessionVars, item, tok, locked, fileVars, listVars>>

(* POST /api/sign/finish: Owner resolves the bare token.                    *)
FinishLookupUnchecked(h, t) ==  \* mutant: Owner's second result is ignored
  /\ Goes(h, "idle", "owned")
  /\ item' = [item EXCEPT ![h] = owner[t]]
  /\ tok' = [tok EXCEPT ![h] = t]
  /\ UNCHANGED <<sessionVars, locked, fileVars, listVars>>
FinishLookup(h, t) ==
  /\ Goes(h, "idle", "owned")
  /\ phase[t] = "open"
  /\ item' = [item EXCEPT ![h] = owner[t]]
  /\ tok' = [tok EXCEPT ![h] = t]
  /\ UNCHANGED <<sessionVars, locked, fileVars, listVars>>

(* Complete, by the owner just looked up, takes the session ...             *)
FinishTake(h) ==
  /\ Goes(h, "owned", "completing")
  /\ \E why \in {"finish", "reject"} : Claim(tok[h], why, item[h])
  /\ UNCHANGED <<item, tok, locked, fileVars, listVars>>

(* ... or finds it gone: 404, and the lock is somebody else's business.     *)
FinishNotFoundReleases(h) ==  \* mutant: the errors.Is(err, ErrNotFound) test is missing
  /\ Goes(h, "owned", "releasing")
  /\ phase[tok[h]] # "open"
  /\ UNCHANGED <<sessionVars, item, tok, locked, fileVars, listVars>>
FinishNotFound(h) ==
  /\ Responds(h, "owned")
  /\ phase[tok[h]] # "open"
  /\ UNCHANGED <<sessionVars, locked, fileVars, listVars>>

FinishSigned(h) ==
  /\ Goes(h, "completing", "creating")
  /\ Deliver(tok[h])
  /\ UNCHANGED <<item, tok, locked, fileVars, listVars>>

FinishFailed(h) ==
  /\ Goes(h, "completing", "releasing")
  /\ End(tok[h])
  /\ UNCHANGED <<item, tok, locked, fileVars, listVars>>

(* publishSigned, one system call at a time; each may fail, which ends the  *)
(* publication and leaves what was done so far.  Writing truncates first.   *)
PublishFails(h, f) == f' = f /\ at' = [at EXCEPT ![h] = "releasing"]

PublishCreate(h) ==
  /\ at[h] = "creating"
  /\ \/ /\ at' = [at EXCEPT ![h] = "writing"]
        /\ tmp' = [tmp EXCEPT ![item[h]] = Partial]
     \/ PublishFails(h, tmp)
  /\ UNCHANGED <<sessionVars, item, tok, locked, pending, archived, signed, listVars>>

PublishWrite(h) ==
  /\ at[h] = "writing"
  /\ \/ /\ at' = [at EXCEPT ![h] = "written"]
        /\ tmp' = [tmp EXCEPT ![item[h]] = tok[h]]
     \/ PublishFails(h, tmp)
  /\ UNCHANGED <<sessionVars, item, tok, locked, pending, archived, signed, listVars>>

PublishRenameUnchecked(h) ==  \* mutant: the error of os.Rename is dropped
  /\ Goes(h, "written", "archiving")
  /\ \/ signed' = [signed EXCEPT ![item[h]] = tmp[item[h]]]
     \/ UNCHANGED signed
  /\ tmp' = [tmp EXCEPT ![item[h]] = NoFile]
  /\ UNCHANGED <<sessionVars, item, tok, locked, pending, archived, listVars>>
PublishRename(h) ==
  /\ at[h] = "written"
  /\ \/ /\ tmp[item[h]] # NoFile
        /\ at' = [at EXCEPT ![h] = "archiving"]
        /\ signed' = [signed EXCEPT ![item[h]] = tmp[item[h]]]
     \/ PublishFails(h, signed)  \* and the temp file is removed
  /\ tmp' = [tmp EXCEPT ![item[h]] = NoFile]
  /\ UNCHANGED <<sessionVars, item, tok, locked, pending, archived, listVars>>

PublishArchive(h) ==
  /\ Goes(h, "archiving", "releasing")
  /\ \/ /\ item[h] \in pending
        /\ pending' = pending \ {item[h]}
        /\ archived' = archived \union {item[h]}
     \/ UNCHANGED <<pending, archived>>
  /\ UNCHANGED <<sessionVars, item, tok, locked, signed, tmp, listVars>>

(* locks.release, explicit or deferred, then the response.                  *)
ReleaseLock(h) ==
  /\ Responds(h, "releasing")
  /\ Release(item[h])
  /\ UNCHANGED <<sessionVars, fileVars, listVars>>

-----------------------------------------------------------------------------
(* The engine's janitor with this program's onExpire, called when the       *)
(* session is over.  It sweeps again only when it is through with the       *)
(* sessions it claimed.                                                     *)
Expired == {t \in Token : phase[t] = "claimed" /\ claim[t].why = "expire"}

JanitorSweep(T) ==
  /\ Expired = {}
  /\ Expire(T)
  /\ UNCHANGED <<handlerVars, locked, fileVars, listVars>>

JanitorExpires(t) ==
  /\ t \in Expired
  /\ End(t)
  /\ Release(owner[t])
  /\ UNCHANGED <<handlerVars, fileVars, listVars>>

(* listItems: one directory after the other, with nothing held in between.  *)
SignedFirst == <<"signed", "pending">>  \* mutant: the signed documents are read first
ScanOrder == <<"pending", "signed">>

Found(dir) == IF dir = "pending" THEN pending ELSE {i \in Item : signed[i] # NoFile}

ListFirst ==
  /\ ~scanned.on
  /\ scanned' = [on |-> TRUE, items |-> Found(ScanOrder[1])]
  /\ UNCHANGED <<sessionVars, handlerVars, locked, fileVars, listed>>

ListSecond ==
  /\ scanned.on
  /\ listed' = scanned.items \union Found(ScanOrder[2])
  /\ scanned' = NoListing
  /\ UNCHANGED <<sessionVars, handlerVars, locked, fileVars>>

(* The process dies and is started again: sessions, locks and requests are  *)
(* gone, the files stay, and ensureSamplePDFs refills an empty queue.       *)
CrashRestart ==
  /\ Crashes
  /\ phase' = [t \in Token |-> IF phase[t] \in {"open", "claimed"} THEN "ended" ELSE phase[t]]
  /\ at' = [h \in Handler |-> "idle"]
  /\ item' = [h \in Handler |-> NoOwner]
  /\ tok' = [h \in Handler |-> NoFile]
  /\ locked' = {}
  /\ pending' = IF pending = {} THEN Samples ELSE pending
  /\ scanned' = NoListing
  /\ UNCHANGED <<owner, claim, archived, signed, tmp, listed>>

-----------------------------------------------------------------------------
StartStep(h) ==
  \/ StartReserve(h) \/ StartConflict(h) \/ StartFailed(h)
  \/ \E t \in Token : StartPrepared(h, t)

FinishStep(h) ==
  \/ FinishTake(h) \/ FinishNotFound(h) \/ FinishSigned(h) \/ FinishFailed(h)

PublishStep(h) ==
  \/ PublishCreate(h) \/ PublishWrite(h) \/ PublishRename(h) \/ PublishArchive(h)

HandlerStep(h) == StartStep(h) \/ FinishStep(h) \/ PublishStep(h) \/ ReleaseLock(h)

Next ==
  \/ \E h \in Handler :
       \/ HandlerStep(h)
       \/ \E i \in Item : StartRead(h, i)
       \/ \E t \in Token : FinishLookup(h, t)
  \/ \E T \in SUBSET Token : JanitorSweep(T)
  \/ \E t \in Token : JanitorExpires(t)
  \/ ListFirst \/ ListSecond
  \/ CrashRestart

Spec == Init /\ [][Next]_vars

(* Handlers run to their response - every call into the engine returns,     *)
(* which SigningManager's CallsReturn shows - and the engine expires every  *)
(* session that stays open (its SessionsEnd).                               *)
FairSpec ==
  /\ Spec
  /\ \A h \in Handler : WF_vars(HandlerStep(h))
  /\ \A t \in Token : /\ WF_vars(JanitorExpires(t))
                      /\ WF_vars(\E T \in SUBSET Token : t \in T /\ JanitorSweep(T))

-----------------------------------------------------------------------------
(* Properties.                                                             *)

(* Who answers for the lock of an item: a request between reserve and       *)
(* release, or a session that is open, or expired and not yet reported.     *)
Holding == {"preparing", "completing", "creating", "writing", "written", "archiving",
            "releasing"}
HandlersFor(i) == {h \in Handler : at[h] \in Holding /\ item[h] = i}
SessionsFor(i) == {t \in Token : owner[t] = i /\ (phase[t] = "open" \/ t \in Expired)}
Holders(i) == HandlersFor(i) \union SessionsFor(i)

(* "itemLocks prevents two concurrent signing sessions for the same item"   *)
(* (main.go:196): an item is locked exactly while one request or session    *)
(* answers for it, so the lock is never lost, never freed under somebody    *)
(* who relies on it, and never held by nobody.                              *)
LockHasOneHolder ==
  \A i \in Item : IF i \in locked THEN \E x \in Handler \union Token : Holders(i) = {x}
                                    ELSE Holders(i) = {}

(* What is on disk under signed/ is the whole document of a session of that *)
(* very item, delivered for a signature that verified - also after crashes  *)
(* and failed writes ("a failure never truncates an existing signed         *)
(* document", handlers.go:203).                                             *)
SignedIsGenuine ==
  \A i \in Item : signed[i] # NoFile =>
    /\ signed[i] # Partial
    /\ phase[signed[i]] = "signed"
    /\ claim[signed[i]].why = "finish"
    /\ owner[signed[i]] = i

(* An item leaves the queue only with its source archived and its signed    *)
(* document in place, whatever fails and whenever the process dies: "pending *)
(* items stay pending and users just retry" (deployment.md:258).            *)
SourceKept == \A i \in Item : i \in pending \/ (i \in archived /\ signed[i] # NoFile)

(* A listing shows every item, although it reads the two directories one    *)
(* after the other while documents move between them.                       *)
ListingComplete == listed = Item

(* "When one expires, free the item so it can be signed again"              *)
(* (main.go:93): an abandoned approval does not block its item for ever.    *)
LocksReleased == \A i \in Item : i \in locked ~> i \notin locked

(* publishSigned "places the signed PDF and retires the pending item"       *)
(* (handlers.go:202): there is a pending item to retire.                    *)
PublishRetiresPending ==
  \A h \in Handler : at[h] = "archiving" => item[h] \in pending
=============================================================================
