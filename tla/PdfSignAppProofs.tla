--------------------------- MODULE PdfSignAppProofs ---------------------------
(***************************************************************************)
(* Proofs about PdfSignApp, for any requests, items and sessions, with and *)
(* without crashes.                                                        *)
(***************************************************************************)
EXTENDS PdfSignApp, TLAPS

(* What a finish handler knows of the session it looked up, took, or        *)
(* publishes.                                                               *)
Publishing == {"creating", "writing", "written", "archiving"}

HandlerKnows(h) ==
  /\ at[h] # "idle" => item[h] \in Item
  /\ at[h] \in {"owned", "completing"} \union Publishing =>
       tok[h] \in Token /\ owner[tok[h]] = item[h]
  /\ at[h] = "owned" => phase[tok[h]] # "fresh"
  /\ at[h] = "completing" => phase[tok[h]] = "claimed" /\ claim[tok[h]].why # "expire"
  /\ at[h] \in Publishing => phase[tok[h]] = "signed" /\ claim[tok[h]].why = "finish"
  /\ at[h] = "written" => tmp[item[h]] = tok[h]
  /\ at[h] = "archiving" => signed[item[h]] # NoFile

SessionKnows(t) == phase[t] # "fresh" => owner[t] \in Item

Locking ==
  /\ LockHasOneHolder
  /\ \A h \in Handler : HandlerKnows(h)
  /\ \A t \in Token : SessionKnows(t)

Inv == AppTypeOK /\ Locking /\ SignedIsGenuine

LEMMA InitInv == Init => Inv
  BY AppAssumption, SessionAssumption
  DEF Init, SessionInit, Inv, AppTypeOK, SessionTypeOK, Phases, Claims, Sites, Content, NoListing,
      Item, Locking, LockHasOneHolder, Holders, HandlersFor, SessionsFor, Holding, Expired,
      HandlerKnows, SessionKnows, Publishing, SignedIsGenuine, NoClaim

-----------------------------------------------------------------------------
(* Steps that leave every item with the holders it had: what is at stake is *)
(* what the handlers know, and what is on disk.                             *)
LEMMA StartFailedInv ==
  ASSUME Inv, NEW h \in Handler, StartFailed(h)
  PROVE  Inv'
<1> USE AppAssumption, SessionAssumption DEF Inv, Locking, Item, sessionVars, handlerVars,
     fileVars,
        listVars, Goes, StartFailed
<1>1. AppTypeOK'
  BY DEF AppTypeOK, SessionTypeOK, Phases, Reasons, NoClaim, Claims, Sites, Content,
       HandlerKnows, Publishing
<1>2. \A i \in Item : Holders(i)' = Holders(i)
  BY DEF AppTypeOK, SessionTypeOK, Sites, Holders, HandlersFor, SessionsFor, Holding,
       Expired, HandlerKnows
<1>3. LockHasOneHolder'
  BY <1>2 DEF LockHasOneHolder
<1>4. ASSUME NEW x \in Handler PROVE HandlerKnows(x)'
  BY DEF AppTypeOK, SessionTypeOK, Phases, Reasons, NoClaim, Claims, Sites, Content,
       Locking, HandlerKnows, SessionKnows, Publishing, LockHasOneHolder, Holders,
       HandlersFor, Holding, Expired
<1>5. ASSUME NEW x \in Token PROVE SessionKnows(x)'
  BY DEF AppTypeOK, SessionTypeOK, HandlerKnows, SessionKnows
<1>6. SignedIsGenuine'
  BY DEF AppTypeOK, SessionTypeOK, Phases, Reasons, NoClaim, Claims, Content, Locking,
       HandlerKnows, SignedIsGenuine, Publishing
<1> QED
  BY <1>1, <1>3, <1>4, <1>5, <1>6

LEMMA FinishNotFoundInv ==
  ASSUME Inv, NEW h \in Handler, FinishNotFound(h)
  PROVE  Inv'
<1> USE AppAssumption, SessionAssumption DEF Inv, Locking, Item, sessionVars, handlerVars,
     fileVars,
        listVars, Goes, FinishNotFound, Responds
<1>1. AppTypeOK'
  BY DEF AppTypeOK, SessionTypeOK, Phases, Reasons, NoClaim, Claims, Sites, Content,
       HandlerKnows, Publishing
<1>2. \A i \in Item : Holders(i)' = Holders(i)
  BY DEF AppTypeOK, SessionTypeOK, Sites, Holders, HandlersFor, SessionsFor, Holding,
       Expired, HandlerKnows
<1>3. LockHasOneHolder'
  BY <1>2 DEF LockHasOneHolder
<1>4. ASSUME NEW x \in Handler PROVE HandlerKnows(x)'
  BY DEF AppTypeOK, SessionTypeOK, Phases, Reasons, NoClaim, Claims, Sites, Content,
       Locking, HandlerKnows, SessionKnows, Publishing, LockHasOneHolder, Holders,
       HandlersFor, Holding, Expired
<1>5. ASSUME NEW x \in Token PROVE SessionKnows(x)'
  BY DEF AppTypeOK, SessionTypeOK, HandlerKnows, SessionKnows
<1>6. SignedIsGenuine'
  BY DEF AppTypeOK, SessionTypeOK, Phases, Reasons, NoClaim, Claims, Content, Locking,
       HandlerKnows, SignedIsGenuine, Publishing
<1> QED
  BY <1>1, <1>3, <1>4, <1>5, <1>6

LEMMA PublishCreateInv ==
  ASSUME Inv, NEW h \in Handler, PublishCreate(h)
  PROVE  Inv'
<1> USE AppAssumption, SessionAssumption DEF Inv, Locking, Item, sessionVars, handlerVars,
     fileVars,
        listVars, Goes, PublishCreate, PublishFails
<1>1. AppTypeOK'
  BY DEF AppTypeOK, SessionTypeOK, Phases, Reasons, NoClaim, Claims, Sites, Content,
       HandlerKnows, Publishing
<1>2. \A i \in Item : Holders(i)' = Holders(i)
  BY DEF AppTypeOK, SessionTypeOK, Sites, Holders, HandlersFor, SessionsFor, Holding,
       Expired, HandlerKnows
<1>3. LockHasOneHolder'
  BY <1>2 DEF LockHasOneHolder
<1>4. ASSUME NEW x \in Handler PROVE HandlerKnows(x)'
  BY DEF AppTypeOK, SessionTypeOK, Phases, Reasons, NoClaim, Claims, Sites, Content,
       Locking, HandlerKnows, SessionKnows, Publishing, LockHasOneHolder, Holders,
       HandlersFor, Holding, Expired
<1>5. ASSUME NEW x \in Token PROVE SessionKnows(x)'
  BY DEF AppTypeOK, SessionTypeOK, HandlerKnows, SessionKnows
<1>6. SignedIsGenuine'
  BY DEF AppTypeOK, SessionTypeOK, Phases, Reasons, NoClaim, Claims, Content, Locking,
       HandlerKnows, SignedIsGenuine, Publishing
<1> QED
  BY <1>1, <1>3, <1>4, <1>5, <1>6

LEMMA PublishWriteInv ==
  ASSUME Inv, NEW h \in Handler, PublishWrite(h)
  PROVE  Inv'
<1> USE AppAssumption, SessionAssumption DEF Inv, Locking, Item, sessionVars, handlerVars,
     fileVars,
        listVars, Goes, PublishWrite, PublishFails
<1>1. AppTypeOK'
  BY DEF AppTypeOK, SessionTypeOK, Phases, Reasons, NoClaim, Claims, Sites, Content,
       HandlerKnows, Publishing
<1>2. \A i \in Item : Holders(i)' = Holders(i)
  BY DEF AppTypeOK, SessionTypeOK, Sites, Holders, HandlersFor, SessionsFor, Holding,
       Expired, HandlerKnows
<1>3. LockHasOneHolder'
  BY <1>2 DEF LockHasOneHolder
<1>4. ASSUME NEW x \in Handler PROVE HandlerKnows(x)'
  BY DEF AppTypeOK, SessionTypeOK, Phases, Reasons, NoClaim, Claims, Sites, Content,
       Locking, HandlerKnows, SessionKnows, Publishing, LockHasOneHolder, Holders,
       HandlersFor, Holding, Expired
<1>5. ASSUME NEW x \in Token PROVE SessionKnows(x)'
  BY DEF AppTypeOK, SessionTypeOK, HandlerKnows, SessionKnows
<1>6. SignedIsGenuine'
  BY DEF AppTypeOK, SessionTypeOK, Phases, Reasons, NoClaim, Claims, Content, Locking,
       HandlerKnows, SignedIsGenuine, Publishing
<1> QED
  BY <1>1, <1>3, <1>4, <1>5, <1>6

LEMMA PublishRenameInv ==
  ASSUME Inv, NEW h \in Handler, PublishRename(h)
  PROVE  Inv'
<1> USE AppAssumption, SessionAssumption DEF Inv, Locking, Item, sessionVars, handlerVars,
     fileVars,
        listVars, Goes, PublishRename, PublishFails
<1>1. AppTypeOK'
  BY DEF AppTypeOK, SessionTypeOK, Phases, Reasons, NoClaim, Claims, Sites, Content,
       HandlerKnows, Publishing
<1>2. \A i \in Item : Holders(i)' = Holders(i)
  BY DEF AppTypeOK, SessionTypeOK, Sites, Holders, HandlersFor, SessionsFor, Holding,
       Expired, HandlerKnows
<1>3. LockHasOneHolder'
  BY <1>2 DEF LockHasOneHolder
<1>4. ASSUME NEW x \in Handler PROVE HandlerKnows(x)'
  BY DEF AppTypeOK, SessionTypeOK, Phases, Reasons, NoClaim, Claims, Sites, Content,
       Locking, HandlerKnows, SessionKnows, Publishing, LockHasOneHolder, Holders,
       HandlersFor, Holding, Expired
<1>5. ASSUME NEW x \in Token PROVE SessionKnows(x)'
  BY DEF AppTypeOK, SessionTypeOK, HandlerKnows, SessionKnows
<1>6. SignedIsGenuine'
  BY DEF AppTypeOK, SessionTypeOK, Phases, Reasons, NoClaim, Claims, Content, Locking,
       HandlerKnows, SignedIsGenuine, Publishing
<1> QED
  BY <1>1, <1>3, <1>4, <1>5, <1>6

LEMMA JanitorSweepInv ==
  ASSUME Inv, NEW T \in SUBSET Token, JanitorSweep(T)
  PROVE  Inv'
<1> USE AppAssumption, SessionAssumption DEF Inv, Locking, Item, sessionVars, handlerVars,
     fileVars,
        listVars, Goes, JanitorSweep, Expire
<1>1. AppTypeOK'
  BY DEF AppTypeOK, SessionTypeOK, Phases, Reasons, NoClaim, Claims, Sites, Content,
       HandlerKnows, Publishing
<1>2. \A i \in Item : Holders(i)' = Holders(i)
  BY DEF AppTypeOK, SessionTypeOK, Sites, Holders, HandlersFor, SessionsFor, Holding,
       Expired, HandlerKnows
<1>3. LockHasOneHolder'
  BY <1>2 DEF LockHasOneHolder
<1>4. ASSUME NEW x \in Handler PROVE HandlerKnows(x)'
  BY DEF AppTypeOK, SessionTypeOK, Phases, Reasons, NoClaim, Claims, Sites, Content,
       Locking, HandlerKnows, SessionKnows, Publishing, LockHasOneHolder, Holders,
       HandlersFor, Holding, Expired
<1>5. ASSUME NEW x \in Token PROVE SessionKnows(x)'
  BY DEF AppTypeOK, SessionTypeOK, HandlerKnows, SessionKnows
<1>6. SignedIsGenuine'
  BY DEF AppTypeOK, SessionTypeOK, Phases, Reasons, NoClaim, Claims, Content, Locking,
       HandlerKnows, SignedIsGenuine, Publishing
<1> QED
  BY <1>1, <1>3, <1>4, <1>5, <1>6

(* All other steps, by the request or the thread that takes them.          *)
LEMMA StartInv ==
  ASSUME Inv, NEW h \in Handler, StartStep(h)
  PROVE  Inv'
<1> USE AppAssumption, SessionAssumption
<1> USE DEF Inv, Item, sessionVars, handlerVars, fileVars, listVars, Goes, AppTypeOK, SessionTypeOK,
        Phases, Reasons, NoClaim, Claims, Sites, Content, Locking, LockHasOneHolder, Holders,
        HandlersFor, SessionsFor, Holding, Expired, HandlerKnows, SessionKnows, Publishing,
        SignedIsGenuine
<1>1. CASE StartReserve(h)
  BY <1>1 DEF StartReserve, Reserve
<1>2. CASE StartConflict(h)
  BY <1>2 DEF StartConflict, Responds
<1>3. CASE StartFailed(h)
  BY <1>3, StartFailedInv
<1>4. ASSUME NEW t \in Token, StartPrepared(h, t) PROVE Inv'
  BY <1>4 DEF StartPrepared, Responds, Open
<1> QED
  BY <1>1, <1>2, <1>3, <1>4 DEF StartStep

LEMMA FinishInv ==
  ASSUME Inv, NEW h \in Handler, FinishStep(h)
  PROVE  Inv'
<1> USE AppAssumption, SessionAssumption
<1> USE DEF Inv, Item, sessionVars, handlerVars, fileVars, listVars, Goes, AppTypeOK, SessionTypeOK,
        Phases, Reasons, NoClaim, Claims, Sites, Content, Locking, LockHasOneHolder, Holders,
        HandlersFor, SessionsFor, Holding, Expired, HandlerKnows, SessionKnows, Publishing,
        SignedIsGenuine
<1>1. CASE FinishTake(h)
  BY <1>1 DEF FinishTake, Claim
<1>2. CASE FinishNotFound(h)
  BY <1>2, FinishNotFoundInv
<1>3. CASE FinishSigned(h)
  <2>1. AppTypeOK' /\ LockHasOneHolder'
    BY <1>3 DEF FinishSigned, Deliver
  <2>2. \A x \in Handler : HandlerKnows(x)'
    BY <1>3 DEF FinishSigned, Deliver
  <2>3. (\A t \in Token : SessionKnows(t)') /\ SignedIsGenuine'
    BY <1>3 DEF FinishSigned, Deliver
  <2> QED
    BY <2>1, <2>2, <2>3
<1>4. CASE FinishFailed(h)
  BY <1>4 DEF FinishFailed, End
<1> QED
  BY <1>1, <1>2, <1>3, <1>4 DEF FinishStep

LEMMA PublishInv ==
  ASSUME Inv, NEW h \in Handler, PublishStep(h)
  PROVE  Inv'
<1> USE AppAssumption, SessionAssumption
<1> USE DEF Inv, Item, sessionVars, handlerVars, fileVars, listVars, Goes, AppTypeOK, SessionTypeOK,
        Phases, Reasons, NoClaim, Claims, Sites, Content, Locking, LockHasOneHolder, Holders,
        HandlersFor, SessionsFor, Holding, Expired, HandlerKnows, SessionKnows, Publishing,
        SignedIsGenuine
<1>1. CASE PublishCreate(h)
  BY <1>1, PublishCreateInv
<1>2. CASE PublishWrite(h)
  BY <1>2, PublishWriteInv
<1>3. CASE PublishRename(h)
  BY <1>3, PublishRenameInv
<1>4. CASE PublishArchive(h)
  BY <1>4 DEF PublishArchive
<1> QED
  BY <1>1, <1>2, <1>3, <1>4 DEF PublishStep

LEMMA RequestInv ==
  ASSUME Inv, NEW h \in Handler,
         ReleaseLock(h) \/ (\E i \in Item : StartRead(h, i)) \/ \E t \in Token : FinishLookup(h, t)
  PROVE  Inv'
<1> USE AppAssumption, SessionAssumption
<1> USE DEF Inv, Item, sessionVars, handlerVars, fileVars, listVars, Goes, AppTypeOK, SessionTypeOK,
        Phases, Reasons, NoClaim, Claims, Sites, Content, Locking, LockHasOneHolder, Holders,
        HandlersFor, SessionsFor, Holding, Expired, HandlerKnows, SessionKnows, Publishing,
        SignedIsGenuine
<1>1. CASE ReleaseLock(h)
  BY <1>1 DEF ReleaseLock, Responds, Release
<1>2. ASSUME NEW i \in Item, StartRead(h, i) PROVE Inv'
  BY <1>2 DEF StartRead
<1>3. ASSUME NEW t \in Token, FinishLookup(h, t) PROVE Inv'
  BY <1>3 DEF FinishLookup
<1> QED
  BY <1>1, <1>2, <1>3

LEMMA BackgroundInv ==
  ASSUME Inv,
         \/ \E T \in SUBSET Token : JanitorSweep(T)
         \/ \E t \in Token : JanitorExpires(t)
         \/ ListFirst \/ ListSecond \/ CrashRestart
  PROVE  Inv'
<1> USE AppAssumption, SessionAssumption
<1> USE DEF Inv, Item, sessionVars, handlerVars, fileVars, listVars, Goes, AppTypeOK, SessionTypeOK,
        Phases, Reasons, NoClaim, Claims, Sites, Content, Locking, LockHasOneHolder, Holders,
        HandlersFor, SessionsFor, Holding, Expired, HandlerKnows, SessionKnows, Publishing,
        SignedIsGenuine
<1>1. ASSUME NEW T \in SUBSET Token, JanitorSweep(T) PROVE Inv'
  BY <1>1, JanitorSweepInv
<1>2. ASSUME NEW t \in Token, JanitorExpires(t) PROVE Inv'
  BY <1>2 DEF JanitorExpires, End, Release
<1>3. CASE ListFirst
  BY <1>3 DEF ListFirst, NoListing, Found, ScanOrder
<1>4. CASE ListSecond
  BY <1>4 DEF ListSecond, NoListing, Found, ScanOrder
<1>5. CASE CrashRestart
  BY <1>5 DEF CrashRestart, NoListing
<1> QED
  BY <1>1, <1>2, <1>3, <1>4, <1>5

LEMMA StepInv == Inv /\ [Next]_vars => Inv'
<1> SUFFICES ASSUME Inv, [Next]_vars PROVE Inv'
  OBVIOUS
<1>1. ASSUME NEW h \in Handler, HandlerStep(h) PROVE Inv'
  BY <1>1, StartInv, FinishInv, PublishInv, RequestInv DEF HandlerStep
<1>2. CASE UNCHANGED vars
  BY <1>2 DEF vars, sessionVars, handlerVars, fileVars, listVars, Inv, AppTypeOK, SessionTypeOK,
     Locking, LockHasOneHolder, Holders, HandlersFor, SessionsFor, Expired, HandlerKnows,
     SessionKnows, SignedIsGenuine
<1> QED
  BY <1>1, <1>2, RequestInv, BackgroundInv DEF Next

LEMMA AlwaysInv == Spec => []Inv
  BY InitInv, StepInv, PTL DEF Spec

-----------------------------------------------------------------------------
(* Every variable of the app has its type: a handler is at one of its        *)
(* sites, and what a file holds came from a session or a torn write.        *)
THEOREM AppTypeCorrect == Spec => []AppTypeOK
<1>1. Inv => AppTypeOK
  BY DEF Inv
<1> QED
  BY <1>1, AlwaysInv, PTL

(* An item is locked exactly while one request or one session answers for  *)
(* it: sign/start, sign/finish and the janitor hand the lock on or free it,*)
(* and none of them frees it twice or forgets it.                          *)
THEOREM LockNeverLost == Spec => []LockHasOneHolder
<1>1. Inv => LockHasOneHolder
  BY DEF Inv, Locking
<1> QED
  BY <1>1, AlwaysInv, PTL

(* A file under signed/ is never torn, never of another item, and never    *)
(* without a signature that verified.  It rests on the lock: the one       *)
(* publisher of an item is the one writer of its temp file.                *)
THEOREM OnlyGenuineFiles == Spec => []SignedIsGenuine
<1>1. Inv => SignedIsGenuine
  BY DEF Inv
<1> QED
  BY <1>1, AlwaysInv, PTL

-----------------------------------------------------------------------------
(* The files: a listing half-way through has every item that is not signed, *)
(* and an item leaves the queue only signed and archived.                   *)
Scanning == scanned.on => \A i \in Item : i \in scanned.items \/ signed[i] # NoFile

Files == SourceKept /\ Scanning /\ ListingComplete

(* A signed document is replaced, never removed.                            *)
LEMMA SignedStays ==
  ASSUME Inv, [Next]_vars, NEW i \in Item, signed[i] # NoFile
  PROVE  signed'[i] # NoFile
<1>1. ASSUME NEW h \in Handler, PublishRename(h) PROVE signed'[i] # NoFile
  BY <1>1 DEF PublishRename, PublishFails, Inv, AppTypeOK
<1>2. CASE signed' = signed
  BY <1>2
<1> QED
  BY <1>1, <1>2
  DEF Next, HandlerStep, StartStep, FinishStep, PublishStep, StartReserve, StartConflict,
      StartFailed, StartPrepared, StartRead, FinishLookup, FinishTake, FinishNotFound, FinishSigned,
      FinishFailed, PublishCreate, PublishWrite, PublishArchive, ReleaseLock, JanitorSweep,
      JanitorExpires, ListFirst, ListSecond, CrashRestart, vars, fileVars

LEMMA FilesInv == Inv /\ Files /\ [Next]_vars => Files'
<1> SUFFICES ASSUME Inv, Files, [Next]_vars PROVE Files'
  OBVIOUS
<1> USE DEF Files, SourceKept, Scanning, ListingComplete
<1>1. \A i \in Item : signed[i] # NoFile => signed'[i] # NoFile
  BY SignedStays
<1>2. CASE UNCHANGED <<pending, archived, listVars>>
  BY <1>1, <1>2 DEF listVars
<1>3. ASSUME NEW h \in Handler, PublishArchive(h) PROVE Files'
  <2>1. signed[item[h]] # NoFile
    BY <1>3 DEF PublishArchive, Goes, Inv, Locking, HandlerKnows
  <2> QED
    BY <1>1, <1>3, <2>1 DEF PublishArchive, listVars
<1>4. CASE ListFirst
  BY <1>1, <1>4 DEF ListFirst, Found, ScanOrder, fileVars
<1>5. CASE ListSecond
  BY <1>1, <1>5 DEF ListSecond, Found, ScanOrder, fileVars, NoListing, Inv, AppTypeOK
<1>6. CASE CrashRestart
  BY <1>1, <1>6, AppAssumption DEF CrashRestart, NoListing, Item
<1> QED
  BY <1>2, <1>3, <1>4, <1>5, <1>6
  DEF Next, HandlerStep, StartStep, FinishStep, PublishStep, StartReserve, StartConflict,
      StartFailed, StartPrepared, StartRead, FinishLookup, FinishTake, FinishNotFound, FinishSigned,
      FinishFailed, PublishCreate, PublishWrite, PublishRename, ReleaseLock, JanitorSweep,
      JanitorExpires, vars, fileVars

LEMMA AlwaysFiles == Spec => []Files
<1>1. Init => Files
  BY DEF Init, Files, SourceKept, Scanning, ListingComplete, NoListing
<1> QED
  BY <1>1, FilesInv, AlwaysInv, PTL DEF Spec

(* An item leaves the queue only with its source archived and its signed    *)
(* document in place, whatever fails and whenever the process dies.         *)
THEOREM NothingIsLost == Spec => []SourceKept
<1>1. Files => SourceKept
  BY DEF Files
<1> QED
  BY <1>1, AlwaysFiles, PTL

(* A listing never misses an item that moves while it is taken.             *)
THEOREM ListingMissesNothing == Spec => []ListingComplete
<1>1. Files => ListingComplete
  BY DEF Files
<1> QED
  BY <1>1, AlwaysFiles, PTL
=============================================================================
