------------------------ MODULE SigningRefinementProofs ------------------------
(***************************************************************************)
(* Proof that the engine, with its goroutines, channels and locks, keeps   *)
(* the promise of SigningSessions, for any finite set of callers and       *)
(* tokens.                                                                 *)
(***************************************************************************)
EXTENDS SigningQuotaProofs

(* What the history of a session says agrees with where the session is: an  *)
(* open session is nobody's yet, and nothing has come of a session that     *)
(* somebody is still ending.                                                *)
Recorded(t) ==
  /\ t \in sessions => claim[t] = NoClaim /\ owner[t] \in Owner
  /\ worker[t] = "none" => claim[t] = NoClaim
  /\ claim[t] = NoClaim => fate[t] = "none"
  /\ t \in batch \/ t = closing => claim[t] # NoClaim /\ fate[t] = "none"
Holds(c) ==
  /\ at[c] \in {"awaitDigest", "abandoning"} => claim[tok[c]] = NoClaim
  /\ at[c] \in {"sending", "awaitDone", "closing", "draining"} =>
       claim[tok[c]] # NoClaim /\ fate[tok[c]] = "none"
  /\ at[c] \in {"sending", "awaitDone"} => claim[tok[c]].why = "finish"
HistoryInv == (\A t \in Token : Recorded(t)) /\ (\A c \in Caller : Holds(c))

LEMMA ClaimsDiffer ==
  /\ \A why \in Reasons, by \in Owner \union {Janitor} : [why |-> why, by |-> by] # NoClaim
  /\ NoClaim.why = "none"
  BY DEF Reasons, NoClaim

LEMMA InitHistory == Init => HistoryInv
  BY ManagerAssumption DEF Init, HistoryInv, Recorded, Holds

-----------------------------------------------------------------------------
LEMMA RequestHistory ==
  ASSUME Inv, HistoryInv, NEW c \in Caller, Request(c)
  PROVE  HistoryInv'
<1> USE DEF Inv, TypeOK, HistoryInv, Recorded, Holds, callerVars, managerVars, channelVars,
            janitorVars, historyVars, Goes
<1>1. ASSUME NEW o \in Owner, PrepareBegin(c, o) PROVE HistoryInv'
  BY <1>1 DEF PrepareBegin
<1>2. ASSUME NEW t \in Token, NEW o \in Owner, CompleteTake(c, t, o) \/ CancelTake(c, t, o)
      PROVE  HistoryInv'
  <2>1. PICK why \in Reasons :
          /\ TakeOwned(c, t, o, why)
          /\ \/ Goes(c, "idle", "sending") /\ why = "finish"
             \/ Goes(c, "idle", "closing")
          /\ UNCHANGED <<batch, closing, owner, worker, fate>>
    BY <1>2 DEF CompleteTake, CancelTake, Reasons
  <2>2. /\ t \in sessions /\ claim[t] = NoClaim /\ fate[t] = "none"
        /\ t \notin batch /\ t # closing /\ worker[t] # "none"
    BY <2>1 DEF TakeOwned, Entitled, Custody, JanitorCustody, Finishable
  <2>3. claim' = [claim EXCEPT ![t] = [why |-> why, by |-> o]] /\ claim'[t] # NoClaim
        /\ claim'[t].why = why
    BY <2>1, ClaimsDiffer DEF TakeOwned
  <2>4. ASSUME NEW u \in Token PROVE Recorded(u)'
    BY <2>1, <2>2, <2>3 DEF TakeOwned, Delete
  <2>5. ASSUME NEW d \in Caller PROVE Holds(d)'
    <3>1. CASE d = c
      BY <2>1, <2>2, <2>3, <3>1 DEF TakeOwned
    <3>2. CASE d # c
      <4>1. at'[d] = at[d] /\ tok'[d] = tok[d]
        BY <2>1, <3>2 DEF TakeOwned
      <4>2. at[d] \in Custodian => tok[d] # t
        BY <2>2 DEF Custody, CallerCustody
      <4> QED
        BY <2>1, <2>3, <4>1, <4>2 DEF Custodian
    <3> QED
      BY <3>1, <3>2
  <2> QED
    BY <2>4, <2>5
<1> QED
  BY <1>1, <1>2 DEF Request

LEMMA PrepareHistory ==
  ASSUME Inv, QuotaInv, HistoryInv, NEW c \in Caller, PrepareStep(c)
  PROVE  HistoryInv'
<1> USE DEF Inv, TypeOK, HistoryInv, Recorded, Holds, callerVars, managerVars, channelVars,
            janitorVars, historyVars, Goes, Leaves
<1>1. CASE PrepareUnparsable(c)
  BY <1>1 DEF PrepareUnparsable
<1>2. ASSUME NEW t \in Token, PrepareSpawn(c, t) PROVE HistoryInv'
  <2>1. t \notin sessions /\ claim[t] = NoClaim
    BY <1>2 DEF PrepareSpawn, Custody, Finishable
  <2>2. ASSUME NEW u \in Token PROVE Recorded(u)'
    BY <1>2, <2>1 DEF PrepareSpawn
  <2>3. ASSUME NEW d \in Caller PROVE Holds(d)'
    BY <1>2, <2>1 DEF PrepareSpawn
  <2> QED
    BY <2>2, <2>3
<1>3. CASE PrepareStore(c)
  <2>1. /\ tok[c] \in Token /\ owner[tok[c]] \in Owner /\ claim[tok[c]] = NoClaim
    BY <1>3 DEF PrepareStore, QuotaInv, CallersKnow, CallerKnows, Custody, CallerCustody,
       Custodian
  <2> QED
    BY <1>3, <2>1 DEF PrepareStore
<1>4. CASE PrepareFails(c) \/ PrepareAbandoned(c) \/ PrepareTimeout(c)
  BY <1>4 DEF PrepareFails, PrepareAbandoned, PrepareTimeout
<1>5. CASE PrepareReturn(c)
  BY <1>5 DEF PrepareReturn
<1> QED
  BY <1>1, <1>2, <1>3, <1>4, <1>5 DEF PrepareStep

(* Whoever lets go of a session leaves nobody behind who still holds it.    *)
LEMMA LettingGo ==
  ASSUME Inv, HistoryInv, NEW c \in Caller,
         at[c] \in {"sending", "awaitDone", "draining"},
         Leaves(c, at[c]), fate'[tok[c]] # "none",
         \A t \in Token : t # tok[c] => fate'[t] = fate[t],
         UNCHANGED <<sessions, owner, worker, batch, closing, claim>>
  PROVE  HistoryInv'
<1>1. tok[c] \in Token /\ tok[c] \notin sessions \union batch /\ tok[c] # closing
  BY DEF Inv, Custody, CallerCustody, Custodian
<1>2. claim[tok[c]] # NoClaim
  BY DEF HistoryInv, Holds
<1>3. ASSUME NEW t \in Token PROVE Recorded(t)'
  BY <1>1, <1>2 DEF HistoryInv, Recorded
<1>4. ASSUME NEW d \in Caller PROVE Holds(d)'
  <2>1. CASE d = c
    BY <2>1 DEF Leaves, Goes, Holds, Inv, TypeOK
  <2>2. CASE d # c
    <3>1. at'[d] = at[d] /\ tok'[d] = tok[d]
      BY <2>2 DEF Leaves, Goes, Inv, TypeOK
    <3>2. at[d] \in Custodian => tok[d] # tok[c] /\ tok[d] \in Token
      BY <2>2 DEF Inv, Custody, CallerCustody, Custodian
    <3> QED
      BY <3>1, <3>2 DEF HistoryInv, Holds, Custodian
  <2> QED
    BY <2>1, <2>2
<1> QED
  BY <1>3, <1>4 DEF HistoryInv

LEMMA EndingHistory ==
  ASSUME Inv, HistoryInv, NEW c \in Caller, CompleteStep(c) \/ CancelStep(c)
  PROVE  HistoryInv'
<1>1. CASE CompleteSend(c)
  <2>1. tok[c] \in Token
    BY <1>1 DEF CompleteSend, Goes, Inv, Custody, CallerCustody, Custodian
  <2> QED
    BY <1>1, <2>1 DEF CompleteSend, Goes, Inv, TypeOK, HistoryInv, Recorded, Holds, managerVars,
       channelVars, janitorVars, historyVars
<1>2. CASE CompleteSendTimeout(c) \/ CompleteReturn(c) \/ CompleteTimeout(c) \/ Drained(c)
  <2>1. /\ at[c] \in {"sending", "awaitDone", "draining"} /\ Leaves(c, at[c])
        /\ UNCHANGED <<sessions, owner, worker, batch, closing, claim>>
        /\ \E end \in {"signed", "ended"} : fate' = [fate EXCEPT ![tok[c]] = end]
    BY <1>2 DEF CompleteSendTimeout, CompleteReturn, CompleteTimeout, Drained, Leaves, Goes,
       managerVars, channelVars, janitorVars
  <2>2. tok[c] \in Token
    BY <2>1 DEF Inv, Custody, CallerCustody, Custodian
  <2>3. fate'[tok[c]] # "none" /\ \A t \in Token : t # tok[c] => fate'[t] = fate[t]
    BY <2>1, <2>2 DEF Inv, TypeOK
  <2> QED
    BY <2>1, <2>3, LettingGo
<1>3. CASE CloseTaken(c)
  BY <1>3 DEF CloseTaken, Goes, Inv, TypeOK, HistoryInv, Recorded, Holds, managerVars,
     janitorVars, historyVars
<1> QED
  BY <1>1, <1>2, <1>3 DEF CompleteStep, CancelStep

LEMMA BackgroundHistory ==
  ASSUME Inv, HistoryInv,
         \/ \E t \in Token : WorkerStep(t) \/ Elapse(t)
         \/ JanitorStep
         \/ UNCHANGED vars
  PROVE  HistoryInv'
<1> USE DEF HistoryInv, Recorded, Holds, Inv, TypeOK,
            callerVars, managerVars, channelVars, janitorVars, historyVars
<1>1. ASSUME NEW t \in Token, WorkerStep(t) PROVE HistoryInv'
  <2>1. /\ worker'[t] # "none" /\ \A u \in Token \ {t} : worker'[u] = worker[u]
        /\ UNCHANGED <<callerVars, managerVars, janitorVars, historyVars>>
    BY <1>1 DEF WorkerStep, LocalWorkerStep, EmbeddingStep, RequestSignature, Publish, Park,
       WakeCancelled, WorkerFails, Embed, RetryOversize, Finishes, WorkerFrame
  <2> QED
    BY <2>1
<1>2. ASSUME NEW t \in Token, Elapse(t) PROVE HistoryInv'
  BY <1>2 DEF Elapse
<1>3. CASE Sweep
  <2>1. /\ claim' = [t \in Token |-> IF t \in sessions \intersect pastTTL
                                     THEN [why |-> "expire", by |-> Janitor]
                                     ELSE claim[t]]
        /\ [why |-> "expire", by |-> Janitor] # NoClaim
    BY <1>3, ClaimsDiffer DEF Sweep, Reasons
  <2>2. ASSUME NEW t \in Token PROVE Recorded(t)'
    BY <1>3, <2>1 DEF Sweep, Delete, Custody, Finishable
  <2>3. ASSUME NEW c \in Caller PROVE Holds(c)'
    <3>1. at[c] \in Custodian => tok[c] \in Token \ sessions
      BY DEF Custody, CallerCustody
    <3> QED
      BY <1>3, <2>1, <3>1 DEF Sweep, Custodian
  <2> QED
    BY <2>2, <2>3
<1>4. ASSUME NEW t \in Token, JanitorClose(t) PROVE HistoryInv'
  BY <1>4 DEF JanitorClose
<1>5. CASE JanitorDrain
  <2>1. /\ closing \in Token /\ closing \notin sessions \union batch /\ claim[closing] # NoClaim
        /\ closing' = NoToken /\ NoToken \notin Token
        /\ fate' = [fate EXCEPT ![closing] = "ended"]
        /\ UNCHANGED <<at, tok, sessions, owner, worker, batch, claim>>
    BY <1>5, ManagerAssumption DEF JanitorDrain, Custody, JanitorCustody
  <2>2. ASSUME NEW t \in Token PROVE Recorded(t)'
    BY <2>1
  <2>3. ASSUME NEW c \in Caller PROVE Holds(c)'
    <3>1. at[c] \in Custodian => tok[c] \in Token /\ tok[c] # closing
      BY DEF Custody, CallerCustody
    <3> QED
      BY <2>1, <3>1 DEF Custodian
  <2> QED
    BY <2>2, <2>3
<1>6. CASE UNCHANGED vars
  BY <1>6 DEF vars
<1> QED
  BY <1>1, <1>2, <1>3, <1>4, <1>5, <1>6 DEF JanitorStep

LEMMA StepHistory == Inv /\ QuotaInv /\ HistoryInv /\ [Next]_vars => HistoryInv'
<1> SUFFICES ASSUME Inv, QuotaInv, HistoryInv, [Next]_vars PROVE HistoryInv'
  OBVIOUS
<1>1. ASSUME NEW c \in Caller, Request(c) \/ CallerStep(c) PROVE HistoryInv'
  BY <1>1, RequestHistory, PrepareHistory, EndingHistory DEF CallerStep
<1> QED
  BY <1>1, BackgroundHistory DEF Next

LEMMA AlwaysHistory == Spec => [](Inv /\ QuotaInv /\ HistoryInv)
  BY AlwaysQuota, InitHistory, StepHistory, PTL DEF Spec
-----------------------------------------------------------------------------
(* What the steps of the engine are to its user.                           *)

LEMMA Phases ==
  ASSUME NEW t \in Token
  PROVE  /\ phase[t] = IF t \in sessions THEN "open"
                       ELSE IF claim[t] = NoClaim THEN "fresh"
                       ELSE IF fate[t] = "none" THEN "claimed"
                       ELSE fate[t]
         /\ openedFor[t] = IF phase[t] = "fresh" THEN NoOwner ELSE owner[t]
  BY DEF phase, openedFor

(* Nothing a user could see happens, as long as the maps, the claims and    *)
(* the owners of the sessions handed out stay what they are.                *)
LEMMA Unseen ==
  ASSUME UNCHANGED <<sessions, claim, fate>>,
         \A t \in Token : phase[t] # "fresh" => owner'[t] = owner[t]
  PROVE  UNCHANGED Promise!sessionVars
<1>1. phase' = phase
  BY DEF phase
<1>2. openedFor' = openedFor
  BY <1>1, Zenon DEF openedFor
<1> QED
  BY <1>1, <1>2 DEF Promise!sessionVars

LEMMA Opens ==
  ASSUME Inv, QuotaInv, HistoryInv, NEW c \in Caller, PrepareStore(c)
  PROVE  Promise!Open(tok[c], who[c])
<1> DEFINE t == tok[c]
<1>1. /\ t \in Token /\ t \notin sessions /\ claim[t] = NoClaim /\ fate[t] = "none"
      /\ owner[t] = who[c] /\ who[c] \in Owner
  BY DEF PrepareStore, Goes, Inv, Custody, CallerCustody, Custodian, HistoryInv, Holds, Recorded,
     QuotaInv, CallersKnow, CallerKnows
<1>2. /\ sessions' = sessions \union {t} /\ UNCHANGED <<owner, claim, fate>>
  BY DEF PrepareStore, historyVars
<1>3. phase' = [phase EXCEPT ![t] = "open"] /\ phase[t] = "fresh"
  BY <1>1, <1>2 DEF phase
<1>4. openedFor' = [openedFor EXCEPT ![t] = who[c]]
  BY <1>1, <1>2, <1>3 DEF openedFor, phase
<1>5. MaxPerOwner = 0 \/ Promise!Cardinality(Promise!OpenFor(who[c])) < MaxPerOwner
  <2> SUFFICES ASSUME MaxPerOwner > 0
               PROVE  Promise!Cardinality(Promise!OpenFor(who[c])) < MaxPerOwner
    BY ManagerAssumption
  <2>1. Promise!OpenFor(who[c]) = StoredFor(who[c])
    BY <1>1 DEF Promise!OpenFor, StoredFor, Inv, TypeOK, phase, openedFor, HistoryInv, Recorded
  <2>2. c \in UnstoredFor(who[c])
    BY DEF UnstoredFor, Unstored, PrepareStore, Goes
  <2>3. Cardinality(UnstoredFor(who[c])) > 0
    BY <1>1, <2>2, FiniteSets, FS_EmptySet DEF Inv
  <2>4. Cardinality(StoredFor(who[c])) < MaxPerOwner
    BY <1>1, <2>3, FiniteSets, ManagerAssumption DEF QuotaInv, PlacesLeft, Inv
  <2>5. Promise!Cardinality(StoredFor(who[c])) = Cardinality(StoredFor(who[c]))
    BY DEF Promise!Cardinality, Cardinality
  <2> QED
    BY <2>1, <2>4, <2>5
<1> QED
  BY <1>2, <1>3, <1>4, <1>5 DEF Promise!Open

LEMMA Claimed ==
  ASSUME Inv, HistoryInv, NEW c \in Caller, NEW t \in Token, NEW o \in Owner,
         CompleteTake(c, t, o) \/ CancelTake(c, t, o)
  PROVE  \E why \in Reasons : Promise!Claim(t, why, o)
<1>1. PICK why \in {"finish", "reject", "cancel"} :
        TakeOwned(c, t, o, why) /\ UNCHANGED <<owner, fate>>
  BY DEF CompleteTake, CancelTake
<1>2. /\ t \in sessions /\ owner[t] = o /\ claim[t] = NoClaim /\ fate[t] = "none"
      /\ sessions' = sessions \ {t}
  BY <1>1 DEF TakeOwned, Entitled, Delete, HistoryInv, Recorded
<1>3. claim' = [claim EXCEPT ![t] = [why |-> why, by |-> o]] /\ claim'[t] # NoClaim
  BY <1>1, ClaimsDiffer DEF TakeOwned, Inv, TypeOK, Reasons
<1>4. phase' = [phase EXCEPT ![t] = "claimed"] /\ phase[t] = "open"
  BY <1>1, <1>2, <1>3 DEF phase, Inv, TypeOK
<1>5. openedFor' = openedFor /\ openedFor[t] = o
  BY <1>1, <1>2, <1>4 DEF openedFor, phase
<1> QED
  BY <1>1, <1>3, <1>4, <1>5 DEF Promise!Claim, Reasons

LEMMA Expires ==
  ASSUME Inv, HistoryInv, Sweep
  PROVE  Promise!Expire(sessions \intersect pastTTL)
<1> DEFINE T == sessions \intersect pastTTL
<1>1. /\ T # {} /\ T \in SUBSET Token /\ sessions' = sessions \ T
      /\ claim' = [t \in Token |-> IF t \in T THEN [why |-> "expire", by |-> Janitor]
                                   ELSE claim[t]]
      /\ UNCHANGED <<owner, fate>>
  BY DEF Sweep, Delete, Inv, TypeOK
<1>2. /\ [why |-> "expire", by |-> Janitor] # NoClaim
      /\ \A t \in T : fate[t] = "none" /\ phase[t] = "open"
  BY <1>1, ClaimsDiffer DEF Reasons, HistoryInv, Recorded, phase
<1> HIDE DEF T
<1>3. phase' = [t \in Token |-> IF t \in T THEN "claimed" ELSE phase[t]]
  BY <1>1, <1>2 DEF phase
<1>4. openedFor' = openedFor
  BY <1>1, <1>2, <1>3 DEF openedFor
<1>5. Promise!Expire(T)
  BY <1>1, <1>2, <1>3, <1>4 DEF Promise!Expire
<1> QED
  BY <1>5 DEF T

(* A session that is being ended meets its fate.                            *)
LEMMA Fated ==
  ASSUME Inv, NEW t \in Token, t \notin sessions, claim[t] # NoClaim, fate[t] = "none",
         NEW end \in {"signed", "ended"}, fate' = [fate EXCEPT ![t] = end],
         UNCHANGED <<sessions, owner, claim>>,
         end = "signed" => claim[t].why = "finish"
  PROVE  Promise!Deliver(t) \/ Promise!End(t)
<1>1. phase' = [phase EXCEPT ![t] = end] /\ phase[t] = "claimed"
  BY DEF phase, Inv, TypeOK
<1>2. openedFor' = openedFor
  BY <1>1 DEF openedFor, phase
<1> QED
  BY <1>1, <1>2 DEF Promise!Deliver, Promise!End

LEMMA Ends ==
  ASSUME Inv, HistoryInv, NEW c \in Caller,
         CompleteSendTimeout(c) \/ CompleteReturn(c) \/ CompleteTimeout(c) \/ Drained(c)
  PROVE  Promise!Deliver(tok[c]) \/ Promise!End(tok[c])
<1>1. at[c] \in {"sending", "awaitDone", "draining"}
  BY DEF CompleteSendTimeout, CompleteReturn, CompleteTimeout, Drained, Leaves, Goes
<1>2. /\ tok[c] \in Token /\ tok[c] \notin sessions
      /\ claim[tok[c]] # NoClaim /\ fate[tok[c]] = "none"
  BY <1>1 DEF Inv, Custody, CallerCustody, Custodian, HistoryInv, Holds
<1>3. PICK end \in {"signed", "ended"} :
        /\ fate' = [fate EXCEPT ![tok[c]] = end]
        /\ end = "signed" => at[c] = "awaitDone"
        /\ UNCHANGED <<sessions, owner, claim>>
  BY DEF CompleteSendTimeout, CompleteReturn, CompleteTimeout, Drained, Leaves, Goes, managerVars
<1>4. end = "signed" => claim[tok[c]].why = "finish"
  BY <1>3 DEF HistoryInv, Holds
<1> QED
  BY <1>2, <1>3, <1>4, Fated

LEMMA JanitorEnds ==
  ASSUME Inv, HistoryInv, JanitorDrain
  PROVE  Promise!End(closing) /\ closing \in Token
<1>1. /\ closing \in Token /\ closing \notin sessions
      /\ claim[closing] # NoClaim /\ fate[closing] = "none"
  BY DEF JanitorDrain, Inv, TypeOK, Custody, JanitorCustody, HistoryInv, Recorded
<1>2. fate' = [fate EXCEPT ![closing] = "ended"] /\ UNCHANGED <<sessions, owner, claim>>
  BY DEF JanitorDrain, managerVars
<1>3. phase' = [phase EXCEPT ![closing] = "ended"] /\ phase[closing] = "claimed"
  BY <1>1, <1>2 DEF phase, Inv, TypeOK
<1>4. openedFor' = openedFor
  BY <1>1, <1>2, <1>3 DEF openedFor, phase
<1> QED
  BY <1>1, <1>2, <1>3, <1>4 DEF Promise!End

-----------------------------------------------------------------------------
LEMMA CallerKeepsPromise ==
  ASSUME Inv, QuotaInv, HistoryInv, NEW c \in Caller, Request(c) \/ CallerStep(c)
  PROVE  Promise!SessionNext \/ UNCHANGED Promise!sessionVars
<1> USE DEF callerVars, managerVars, historyVars
<1>1. ASSUME NEW o \in Owner, PrepareBegin(c, o) PROVE UNCHANGED Promise!sessionVars
  BY <1>1, Unseen DEF PrepareBegin
<1>2. ASSUME NEW t \in Token, NEW o \in Owner, CompleteTake(c, t, o) \/ CancelTake(c, t, o)
      PROVE  Promise!SessionNext
  <2>1. PICK why \in Reasons : Promise!Claim(t, why, o)
    BY <1>2, Claimed
  <2> QED
    BY <2>1 DEF Promise!SessionNext, Promise!Reasons, Reasons
<1>3. CASE PrepareUnparsable(c) \/ PrepareFails(c) \/ PrepareTimeout(c) \/ PrepareAbandoned(c)
           \/ PrepareReturn(c) \/ CompleteSend(c) \/ CloseTaken(c)
  BY <1>3, Unseen DEF PrepareUnparsable, PrepareFails, PrepareTimeout, PrepareAbandoned,
     PrepareReturn, CompleteSend, CloseTaken
<1>4. ASSUME NEW t \in Token, PrepareSpawn(c, t) PROVE UNCHANGED Promise!sessionVars
  <2>1. phase[t] = "fresh"
    BY <1>4 DEF PrepareSpawn, phase, HistoryInv, Recorded, Inv, Custody, Finishable
  <2>2. \A u \in Token : phase[u] # "fresh" => owner'[u] = owner[u]
    BY <1>4, <2>1 DEF PrepareSpawn, Inv, TypeOK
  <2> QED
    BY <1>4, <2>2, Unseen DEF PrepareSpawn
<1>5. CASE PrepareStore(c)
  <2>1. tok[c] \in Token /\ who[c] \in Owner
    BY <1>5 DEF PrepareStore, Goes, Inv, Custody, CallerCustody, Custodian, QuotaInv,
       CallersKnow, CallerKnows
  <2> QED
    BY <1>5, <2>1, Opens DEF Promise!SessionNext
<1>6. CASE CompleteSendTimeout(c) \/ CompleteReturn(c) \/ CompleteTimeout(c) \/ Drained(c)
  <2>1. tok[c] \in Token
    BY <1>6 DEF CompleteSendTimeout, CompleteReturn, CompleteTimeout, Drained, Leaves, Goes, Inv,
       Custody, CallerCustody, Custodian
  <2> QED
    BY <1>6, <2>1, Ends DEF Promise!SessionNext
<1> QED
  BY <1>1, <1>2, <1>3, <1>4, <1>5, <1>6
     DEF Request, CallerStep, PrepareStep, CompleteStep, CancelStep

LEMMA BackgroundKeepsPromise ==
  ASSUME Inv, HistoryInv,
         \/ \E t \in Token : WorkerStep(t) \/ Elapse(t)
         \/ JanitorStep
         \/ UNCHANGED vars
  PROVE  Promise!SessionNext \/ UNCHANGED Promise!sessionVars
<1> USE DEF managerVars, historyVars
<1>1. ASSUME NEW t \in Token, WorkerStep(t) PROVE UNCHANGED Promise!sessionVars
  <2>1. UNCHANGED <<sessions, owner, claim, fate>>
    BY <1>1 DEF WorkerStep, LocalWorkerStep, EmbeddingStep, RequestSignature, Park,
       WakeCancelled, WorkerFails, Embed, RetryOversize, WorkerFrame
  <2> QED
    BY <2>1, Unseen
<1>2. ASSUME NEW t \in Token, Elapse(t) PROVE UNCHANGED Promise!sessionVars
  BY <1>2, Unseen DEF Elapse
<1>3. CASE Sweep
  <2>1. sessions \intersect pastTTL \in SUBSET Token
    BY DEF Inv, TypeOK
  <2> QED
    BY <1>3, <2>1, Expires DEF Promise!SessionNext
<1>4. ASSUME NEW t \in Token, JanitorClose(t) PROVE UNCHANGED Promise!sessionVars
  BY <1>4, Unseen DEF JanitorClose
<1>5. CASE JanitorDrain
  BY <1>5, JanitorEnds DEF Promise!SessionNext
<1>6. CASE UNCHANGED vars
  BY <1>6, Unseen DEF vars
<1> QED
  BY <1>1, <1>2, <1>3, <1>4, <1>5, <1>6 DEF JanitorStep

(* Every behaviour of the engine is one that SigningSessions allows:        *)
(* sessions are claimed once, by their owner or by expiry, documents are    *)
(* delivered only for a signature that verified, no session comes back, and *)
(* the quota holds however the Prepare calls interleave.                    *)
THEOREM EngineKeepsPromise == Spec => ImplementsPromise
<1>1. Init => Promise!SessionInit
  BY DEF Init, Promise!SessionInit, phase, openedFor, NoClaim, Promise!NoClaim
<1>2. /\ Inv /\ QuotaInv /\ HistoryInv /\ [Next]_vars
      => [Promise!SessionNext]_(Promise!sessionVars)
  <2> SUFFICES ASSUME Inv, QuotaInv, HistoryInv, [Next]_vars
               PROVE  Promise!SessionNext \/ UNCHANGED Promise!sessionVars
    OBVIOUS
  <2>1. ASSUME NEW c \in Caller, Request(c) \/ CallerStep(c)
        PROVE  Promise!SessionNext \/ UNCHANGED Promise!sessionVars
    BY <2>1, CallerKeepsPromise
  <2> QED
    BY <2>1, BackgroundKeepsPromise DEF Next
<1> QED
  BY <1>1, <1>2, AlwaysHistory, PTL DEF Spec, ImplementsPromise, Promise!SessionSpec
=============================================================================
