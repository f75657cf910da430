-------------------------- MODULE SigningQuotaProofs --------------------------
(***************************************************************************)
(* Proofs that the quota of SigningManager counts right, for any finite    *)
(* set of callers and tokens.                                              *)
(***************************************************************************)
EXTENDS SigningManagerProofs, FiniteSetTheorems

(* The Prepare calls that hold a reservation of an owner, and those among   *)
(* them whose session is not stored yet.                                    *)
ReservingFor(o) == {c \in Caller : at[c] \in Reserving /\ who[c] = o}
Unstored == {"parsing", "awaitDigest"}
UnstoredFor(o) == {c \in Caller : at[c] \in Unstored /\ who[c] = o}

(* A caller inside the Manager works for an owner, and a session being      *)
(* prepared is its caller's.                                                *)
CallerKnows(c) ==
  /\ at[c] # "idle" => who[c] \in Owner
  /\ at[c] = "awaitDigest" => owner[tok[c]] = who[c]
CallersKnow == \A c \in Caller : CallerKnows(c)

(* The heart of it: every reservation whose session is not stored yet is    *)
(* backed by a free place.                                                  *)
PlacesLeft ==
  MaxPerOwner > 0 =>
    \A o \in Owner : Cardinality(StoredFor(o)) + Cardinality(UnstoredFor(o)) <= MaxPerOwner

QuotaInv == CallersKnow /\ ReservationsExact /\ PlacesLeft

LEMMA FiniteSets ==
  ASSUME TypeOK, NEW o \in Owner
  PROVE  /\ IsFiniteSet(ReservingFor(o)) /\ IsFiniteSet(UnstoredFor(o))
         /\ IsFiniteSet(StoredFor(o))
         /\ Cardinality(ReservingFor(o)) \in Nat /\ Cardinality(UnstoredFor(o)) \in Nat
         /\ Cardinality(StoredFor(o)) \in Nat
         /\ Cardinality(UnstoredFor(o)) <= Cardinality(ReservingFor(o))
<1>1. ReservingFor(o) \in SUBSET Caller /\ UnstoredFor(o) \in SUBSET ReservingFor(o)
  BY DEF ReservingFor, UnstoredFor, Reserving, Unstored
<1>2. StoredFor(o) \in SUBSET Token
  BY DEF StoredFor, TypeOK
<1>3. IsFiniteSet(ReservingFor(o)) /\ IsFiniteSet(StoredFor(o))
  BY <1>1, <1>2, FinitenessAssumption, FS_Subset
<1>4. /\ IsFiniteSet(UnstoredFor(o))
      /\ Cardinality(UnstoredFor(o)) <= Cardinality(ReservingFor(o))
  BY <1>1, <1>3, FS_Subset
<1> QED
  BY <1>3, <1>4, FS_CardinalityType

LEMMA InitQuota == Init => QuotaInv
<1> SUFFICES ASSUME Init PROVE QuotaInv
  OBVIOUS
<1>1. \A o \in Owner : ReservingFor(o) = {} /\ UnstoredFor(o) = {} /\ StoredFor(o) = {}
  BY DEF Init, ReservingFor, UnstoredFor, StoredFor, Reserving, Unstored
<1>2. \A o \in Owner : preparing[o] = 0
  BY DEF Init
<1>3. CallersKnow
  BY DEF Init, CallersKnow, CallerKnows
<1>4. Cardinality({}) = 0
  BY FS_EmptySet
<1>5. ReservationsExact
  BY <1>1, <1>2, <1>4 DEF ReservationsExact, ReservingFor
<1>6. PlacesLeft
  BY <1>1, <1>4, ManagerAssumption DEF PlacesLeft
<1> QED
  BY <1>3, <1>5, <1>6 DEF QuotaInv

-----------------------------------------------------------------------------
(* Steps that leave the counted sets alone, or shrink them.                *)

LEMMA Uncounted ==
  ASSUME Inv, QuotaInv, TypeOK', CallersKnow', UNCHANGED preparing,
         \A o \in Owner : /\ ReservingFor(o)' = ReservingFor(o)
                          /\ UnstoredFor(o)' \subseteq UnstoredFor(o)
                          /\ StoredFor(o)' \subseteq StoredFor(o)
  PROVE  QuotaInv'
<1>1. ReservationsExact'
  BY DEF QuotaInv, ReservationsExact, ReservingFor
<1>2. ASSUME MaxPerOwner > 0, NEW o \in Owner
      PROVE  Cardinality(StoredFor(o)') + Cardinality(UnstoredFor(o)') <= MaxPerOwner
  <2>1. TypeOK
    BY DEF Inv
  <2>2. /\ IsFiniteSet(UnstoredFor(o)) /\ IsFiniteSet(StoredFor(o))
        /\ Cardinality(UnstoredFor(o)) \in Nat /\ Cardinality(StoredFor(o)) \in Nat
    BY <2>1, FiniteSets
  <2>3. /\ IsFiniteSet(UnstoredFor(o)') /\ Cardinality(UnstoredFor(o)') <= Cardinality(UnstoredFor(o))
        /\ IsFiniteSet(StoredFor(o)') /\ Cardinality(StoredFor(o)') <= Cardinality(StoredFor(o))
    BY <2>2, FS_Subset
  <2>4. Cardinality(UnstoredFor(o)') \in Nat /\ Cardinality(StoredFor(o)') \in Nat
    BY <2>3, FS_CardinalityType
  <2>5. Cardinality(StoredFor(o)) + Cardinality(UnstoredFor(o)) <= MaxPerOwner
    BY <1>2 DEF QuotaInv, PlacesLeft
  <2> QED
    BY <2>2, <2>3, <2>4, <2>5, ManagerAssumption
<1> QED
  BY <1>1, <1>2 DEF QuotaInv, PlacesLeft

-----------------------------------------------------------------------------
(* Prepare: one step takes a place and one gives it back.                  *)

LEMMA BeginQuota ==
  ASSUME Inv, QuotaInv, TypeOK', NEW c \in Caller, NEW o \in Owner, PrepareBegin(c, o)
  PROVE  QuotaInv'
<1>1. /\ at[c] = "idle" /\ at' = [at EXCEPT ![c] = "parsing"]
      /\ who' = [who EXCEPT ![c] = o]
      /\ UNCHANGED <<tok, sessions, owner>>
      /\ at \in [Caller -> Sites] /\ who \in [Caller -> Owner \union {NoOwner}]
      /\ preparing \in [Owner -> Nat] /\ TypeOK
  BY DEF PrepareBegin, Goes, Inv, TypeOK
<1>2. CallersKnow'
  BY <1>1 DEF QuotaInv, CallersKnow, CallerKnows
<1>3. ASSUME NEW p \in Owner, p # o
      PROVE  ReservingFor(p)' = ReservingFor(p) /\ UnstoredFor(p)' = UnstoredFor(p)
  BY <1>1, <1>3 DEF ReservingFor, UnstoredFor, Reserving, Unstored
<1>4. /\ ReservingFor(o)' = ReservingFor(o) \union {c} /\ c \notin ReservingFor(o)
      /\ UnstoredFor(o)' = UnstoredFor(o) \union {c} /\ c \notin UnstoredFor(o)
  BY <1>1 DEF ReservingFor, UnstoredFor, Reserving, Unstored
<1>5. \A p \in Owner : StoredFor(p)' = StoredFor(p)
  BY <1>1 DEF StoredFor
<1>6. /\ IsFiniteSet(ReservingFor(o)) /\ IsFiniteSet(UnstoredFor(o))
      /\ Cardinality(ReservingFor(o)) \in Nat /\ Cardinality(UnstoredFor(o)) \in Nat
      /\ Cardinality(StoredFor(o)) \in Nat
      /\ Cardinality(UnstoredFor(o)) <= Cardinality(ReservingFor(o))
  BY <1>1, FiniteSets
<1>7. /\ Cardinality(ReservingFor(o)') = Cardinality(ReservingFor(o)) + 1
      /\ Cardinality(UnstoredFor(o)') = Cardinality(UnstoredFor(o)) + 1
  BY <1>4, <1>6, FS_AddElement
<1>8. ASSUME MaxPerOwner > 0
      PROVE  /\ preparing' = [preparing EXCEPT ![o] = @ + 1]
             /\ preparing[o] = Cardinality(ReservingFor(o))
             /\ preparing[o] + Cardinality(StoredFor(o)) < MaxPerOwner
  BY <1>8 DEF PrepareBegin, Reserve, QuotaAllows, InUse, QuotaInv, ReservationsExact, ReservingFor
<1>9. ASSUME MaxPerOwner > 0, NEW p \in Owner
      PROVE  /\ preparing'[p] = Cardinality(ReservingFor(p)')
             /\ Cardinality(StoredFor(p)') + Cardinality(UnstoredFor(p)') <= MaxPerOwner
  <2>1. CASE p = o
    BY <1>1, <1>5, <1>6, <1>7, <1>8, <1>9, <2>1, ManagerAssumption
  <2>2. CASE p # o
    <3>1. /\ preparing[p] = Cardinality(ReservingFor(p))
          /\ Cardinality(StoredFor(p)) + Cardinality(UnstoredFor(p)) <= MaxPerOwner
      BY <1>9 DEF QuotaInv, ReservationsExact, PlacesLeft, ReservingFor
    <3> QED
      BY <1>1, <1>3, <1>5, <1>8, <1>9, <2>2, <3>1
  <2> QED
    BY <2>1, <2>2
<1> QED
  BY <1>2, <1>9 DEF QuotaInv, ReservationsExact, PlacesLeft, ReservingFor

(* The session takes the place that was kept for it.                        *)
LEMMA StoreQuota ==
  ASSUME Inv, QuotaInv, TypeOK', NEW c \in Caller, PrepareStore(c)
  PROVE  QuotaInv'
<1>1. /\ at[c] = "awaitDigest" /\ at' = [at EXCEPT ![c] = "returning"]
      /\ sessions' = sessions \union {tok[c]}
      /\ UNCHANGED <<tok, who, owner, preparing>>
      /\ at \in [Caller -> Sites] /\ TypeOK
  BY DEF PrepareStore, Goes, managerVars, Inv, TypeOK
<1>2. PICK o \in Owner : who[c] = o /\ owner[tok[c]] = o
  BY <1>1 DEF QuotaInv, CallersKnow, CallerKnows
<1>3. tok[c] \in Token \ sessions
  BY <1>1 DEF Inv, Custody, CallerCustody, Custodian
<1>4. CallersKnow'
  BY <1>1 DEF QuotaInv, CallersKnow, CallerKnows
<1>5. \A p \in Owner : ReservingFor(p)' = ReservingFor(p)
  BY <1>1 DEF ReservingFor, Reserving
<1>6. /\ StoredFor(o)' = StoredFor(o) \union {tok[c]} /\ tok[c] \notin StoredFor(o)
      /\ UnstoredFor(o)' = UnstoredFor(o) \ {c} /\ c \in UnstoredFor(o)
  BY <1>1, <1>2, <1>3 DEF StoredFor, UnstoredFor, Unstored
<1>7. ASSUME NEW p \in Owner, p # o
      PROVE  StoredFor(p)' = StoredFor(p) /\ UnstoredFor(p)' = UnstoredFor(p)
  BY <1>1, <1>2, <1>7 DEF StoredFor, UnstoredFor, Unstored
<1>8. /\ IsFiniteSet(UnstoredFor(o)) /\ IsFiniteSet(StoredFor(o))
      /\ Cardinality(UnstoredFor(o)) \in Nat /\ Cardinality(StoredFor(o)) \in Nat
  BY <1>1, <1>2, FiniteSets
<1>9. /\ Cardinality(StoredFor(o)') = Cardinality(StoredFor(o)) + 1
      /\ Cardinality(UnstoredFor(o)') = Cardinality(UnstoredFor(o)) - 1
  <2>1. Cardinality(StoredFor(o) \union {tok[c]}) = Cardinality(StoredFor(o)) + 1
    BY <1>6, <1>8, FS_AddElement
  <2>2. Cardinality(UnstoredFor(o) \ {c}) = Cardinality(UnstoredFor(o)) - 1
    BY <1>6, <1>8, FS_RemoveElement
  <2> QED
    BY <1>6, <2>1, <2>2
<1>10. ReservationsExact'
  BY <1>1, <1>5 DEF QuotaInv, ReservationsExact, ReservingFor
<1>11. ASSUME MaxPerOwner > 0, NEW p \in Owner
       PROVE  Cardinality(StoredFor(p)') + Cardinality(UnstoredFor(p)') <= MaxPerOwner
  <2>1. Cardinality(StoredFor(p)) + Cardinality(UnstoredFor(p)) <= MaxPerOwner
    BY <1>11 DEF QuotaInv, PlacesLeft
  <2>2. CASE p = o
    BY <1>8, <1>9, <2>1, <2>2, ManagerAssumption
  <2>3. CASE p # o
    BY <1>7, <2>1, <2>3
  <2> QED
    BY <2>2, <2>3
<1> QED
  BY <1>4, <1>10, <1>11 DEF QuotaInv, PlacesLeft

(* The reservation is given back, exactly once.                             *)
LEMMA ReturnQuota ==
  ASSUME Inv, QuotaInv, TypeOK', NEW c \in Caller, PrepareReturn(c)
  PROVE  QuotaInv'
<1>1. /\ at[c] \in {"failing", "returning"} /\ at' = [at EXCEPT ![c] = "idle"]
      /\ who' = [who EXCEPT ![c] = NoOwner] /\ tok' = [tok EXCEPT ![c] = NoToken]
      /\ UNCHANGED <<sessions, owner>>
      /\ at \in [Caller -> Sites] /\ who \in [Caller -> Owner \union {NoOwner}]
      /\ tok \in [Caller -> Token \union {NoToken}]
      /\ preparing \in [Owner -> Nat] /\ TypeOK
  BY DEF PrepareReturn, Leaves, Goes, Inv, TypeOK
<1>2. PICK o \in Owner : who[c] = o
  BY <1>1 DEF QuotaInv, CallersKnow, CallerKnows
<1>3. CallersKnow'
  BY <1>1 DEF QuotaInv, CallersKnow, CallerKnows
<1>4. ASSUME NEW p \in Owner PROVE UnstoredFor(p)' = UnstoredFor(p) /\ StoredFor(p)' = StoredFor(p)
  BY <1>1 DEF UnstoredFor, StoredFor, Unstored
<1>5. ASSUME NEW p \in Owner, p # o PROVE ReservingFor(p)' = ReservingFor(p)
  BY <1>1, <1>2, <1>5 DEF ReservingFor, Reserving
<1>6. ReservingFor(o)' = ReservingFor(o) \ {c} /\ c \in ReservingFor(o)
  BY <1>1, <1>2 DEF ReservingFor, Reserving
<1>7. IsFiniteSet(ReservingFor(o)) /\ Cardinality(ReservingFor(o)) \in Nat
  BY <1>1, FiniteSets
<1>8. Cardinality(ReservingFor(o)') = Cardinality(ReservingFor(o)) - 1
  <2>1. Cardinality(ReservingFor(o) \ {c}) = Cardinality(ReservingFor(o)) - 1
    BY <1>6, <1>7, FS_RemoveElement
  <2> QED
    BY <1>6, <2>1
<1>9. Cardinality(ReservingFor(o)') \in Nat
  <2>1. IsFiniteSet(ReservingFor(o) \ {c})
    BY <1>7, FS_RemoveElement
  <2> QED
    BY <1>6, <2>1, FS_CardinalityType
<1>10. ASSUME MaxPerOwner > 0, NEW p \in Owner
       PROVE  preparing'[p] = Cardinality(ReservingFor(p)')
  <2>1. preparing[p] = Cardinality(ReservingFor(p)) /\ preparing[o] = Cardinality(ReservingFor(o))
    BY <1>10 DEF QuotaInv, ReservationsExact, ReservingFor
  <2>2. preparing' = [preparing EXCEPT ![o] = IF @ <= 1 THEN 0 ELSE @ - 1]
    BY <1>2, <1>10 DEF PrepareReturn, ReleasePreparing
  <2>3. CASE p = o
    BY <1>1, <1>7, <1>8, <1>9, <2>1, <2>2, <2>3
  <2>4. CASE p # o
    BY <1>1, <1>5, <2>1, <2>2, <2>4
  <2> QED
    BY <2>3, <2>4
<1>11. PlacesLeft'
  BY <1>4 DEF QuotaInv, PlacesLeft
<1> QED
  BY <1>3, <1>10, <1>11 DEF QuotaInv, ReservationsExact, ReservingFor

-----------------------------------------------------------------------------
(* All other steps.                                                        *)

(* A step of a caller that stays inside Prepare, or outside of it.          *)
LEMMA SiteChange ==
  ASSUME Inv, QuotaInv, TypeOK', NEW c \in Caller, NEW site \in Sites,
         at' = [at EXCEPT ![c] = site],
         at[c] \in Reserving <=> site \in Reserving,
         site \in Unstored => at[c] \in Unstored,
         \/ at[c] \in Reserving /\ who' = who
         \/ /\ at[c] \notin Reserving
            /\ \E w \in Owner \union {NoOwner} : who' = [who EXCEPT ![c] = w]
  PROVE  \A o \in Owner : /\ ReservingFor(o)' = ReservingFor(o)
                          /\ UnstoredFor(o)' \subseteq UnstoredFor(o)
<1>1. at \in [Caller -> Sites] /\ who \in [Caller -> Owner \union {NoOwner}]
  BY DEF Inv, TypeOK
<1> QED
  BY <1>1 DEF ReservingFor, UnstoredFor, Reserving, Unstored

LEMMA TakeQuota ==
  ASSUME Inv, QuotaInv, TypeOK', NEW c \in Caller, NEW t \in Token, NEW o \in Owner,
         CompleteTake(c, t, o) \/ CancelTake(c, t, o)
  PROVE  QuotaInv'
<1>1. PICK site \in {"sending", "closing"} : at' = [at EXCEPT ![c] = site]
  BY DEF CompleteTake, CancelTake, Goes
<1>2. /\ at[c] = "idle" /\ who' = [who EXCEPT ![c] = o] /\ tok' = [tok EXCEPT ![c] = t]
      /\ sessions' \subseteq sessions
      /\ UNCHANGED <<preparing, owner>>
      /\ TypeOK
  BY DEF CompleteTake, CancelTake, Goes, TakeOwned, Delete, Inv
<1>3. CallersKnow'
  BY <1>1, <1>2 DEF QuotaInv, CallersKnow, CallerKnows, TypeOK
<1>4. \A p \in Owner : /\ ReservingFor(p)' = ReservingFor(p)
                       /\ UnstoredFor(p)' \subseteq UnstoredFor(p)
  BY <1>1, <1>2, SiteChange DEF Sites, Reserving, Unstored
<1>5. \A p \in Owner : StoredFor(p)' \subseteq StoredFor(p)
  BY <1>2 DEF StoredFor
<1> QED
  BY <1>2, <1>3, <1>4, <1>5, Uncounted

LEMMA PrepareQuota ==
  ASSUME Inv, QuotaInv, TypeOK', NEW c \in Caller, PrepareStep(c)
  PROVE  QuotaInv'
<1> USE DEF Goes, managerVars, Inv
<1>1. CASE PrepareUnparsable(c) \/ PrepareFails(c) \/ PrepareTimeout(c) \/ PrepareAbandoned(c)
  <2>1. /\ at[c] \in {"parsing", "awaitDigest", "abandoning"}
        /\ \E site \in {"failing", "abandoning"} : at' = [at EXCEPT ![c] = site]
        /\ UNCHANGED <<who, tok, sessions, preparing, owner>>
        /\ TypeOK
    BY <1>1 DEF PrepareUnparsable, PrepareFails, PrepareTimeout, PrepareAbandoned
  <2>2. CallersKnow'
    BY <2>1 DEF QuotaInv, CallersKnow, CallerKnows, TypeOK
  <2>3. \A p \in Owner : /\ ReservingFor(p)' = ReservingFor(p)
                         /\ UnstoredFor(p)' \subseteq UnstoredFor(p)
    BY <2>1, SiteChange DEF Sites, Reserving, Unstored
  <2>4. \A p \in Owner : StoredFor(p)' = StoredFor(p)
    BY <2>1 DEF StoredFor
  <2> QED
    BY <2>1, <2>2, <2>3, <2>4, Uncounted
<1>2. ASSUME NEW t \in Token, PrepareSpawn(c, t) PROVE QuotaInv'
  <2>1. /\ at[c] = "parsing" /\ at' = [at EXCEPT ![c] = "awaitDigest"]
        /\ tok' = [tok EXCEPT ![c] = t] /\ owner' = [owner EXCEPT ![t] = who[c]]
        /\ worker[t] = "none"
        /\ UNCHANGED <<who, sessions, preparing>>
        /\ TypeOK
    BY <1>2 DEF PrepareSpawn
  <2>2. t \notin sessions /\ \A d \in Caller : at[d] = "awaitDigest" => tok[d] # t
    BY <2>1 DEF Custody, CallerCustody, Custodian, Finishable
  <2>3. CallersKnow'
    BY <2>1, <2>2 DEF QuotaInv, CallersKnow, CallerKnows, TypeOK
  <2>4. \A p \in Owner : /\ ReservingFor(p)' = ReservingFor(p)
                         /\ UnstoredFor(p)' \subseteq UnstoredFor(p)
    BY <2>1, SiteChange DEF Sites, Reserving, Unstored
  <2>5. \A p \in Owner : StoredFor(p)' \subseteq StoredFor(p)
    BY <2>1, <2>2 DEF StoredFor, TypeOK
  <2> QED
    BY <2>1, <2>3, <2>4, <2>5, Uncounted
<1> QED
  BY <1>1, <1>2, StoreQuota, ReturnQuota DEF PrepareStep

LEMMA EndingQuota ==
  ASSUME Inv, QuotaInv, TypeOK', NEW c \in Caller, CompleteStep(c) \/ CancelStep(c)
  PROVE  QuotaInv'
<1>1. PICK site \in {"awaitDone", "draining", "idle"} : at' = [at EXCEPT ![c] = site]
  BY DEF CompleteStep, CancelStep, CompleteSend, CompleteSendTimeout, CompleteReturn,
         CompleteTimeout, CloseTaken, Drained, Leaves, Goes
<1>2. /\ at[c] \in {"sending", "awaitDone", "closing", "draining"}
      /\ \/ who' = who /\ tok' = tok
         \/ /\ site = "idle"
            /\ who' = [who EXCEPT ![c] = NoOwner] /\ tok' = [tok EXCEPT ![c] = NoToken]
      /\ UNCHANGED <<sessions, preparing, owner>>
      /\ TypeOK
  BY <1>1 DEF CompleteStep, CancelStep, CompleteSend, CompleteSendTimeout, CompleteReturn,
         CompleteTimeout, CloseTaken, Drained, Leaves, Goes, managerVars, Inv, TypeOK
<1>3. CallersKnow'
  BY <1>1, <1>2 DEF QuotaInv, CallersKnow, CallerKnows, TypeOK
<1>4. \E w \in Owner \union {NoOwner} : who' = [who EXCEPT ![c] = w]
  BY <1>2 DEF TypeOK
<1>5. \A p \in Owner : /\ ReservingFor(p)' = ReservingFor(p)
                       /\ UnstoredFor(p)' \subseteq UnstoredFor(p)
  BY <1>1, <1>2, <1>4, SiteChange DEF Sites, Reserving, Unstored
<1>6. \A p \in Owner : StoredFor(p)' = StoredFor(p)
  BY <1>2 DEF StoredFor
<1> QED
  BY <1>2, <1>3, <1>5, <1>6, Uncounted

(* Nobody else touches callers, reservations or owners.                     *)
LEMMA BackgroundQuota ==
  ASSUME Inv, QuotaInv, TypeOK', UNCHANGED <<at, who, tok, preparing, owner>>,
         sessions' \subseteq sessions
  PROVE  QuotaInv'
<1>1. CallersKnow'
  BY DEF QuotaInv, CallersKnow, CallerKnows
<1>2. \A o \in Owner : /\ ReservingFor(o)' = ReservingFor(o)
                       /\ UnstoredFor(o)' \subseteq UnstoredFor(o)
                       /\ StoredFor(o)' \subseteq StoredFor(o)
  BY DEF ReservingFor, UnstoredFor, StoredFor
<1> QED
  BY <1>1, <1>2, Uncounted

LEMMA StepQuota == Inv /\ QuotaInv /\ [Next]_vars /\ Inv' => QuotaInv'
<1> SUFFICES ASSUME Inv, QuotaInv, [Next]_vars, TypeOK' PROVE QuotaInv'
  BY DEF Inv
<1>1. ASSUME NEW c \in Caller, Request(c) PROVE QuotaInv'
  BY <1>1, BeginQuota, TakeQuota DEF Request
<1>2. ASSUME NEW c \in Caller, CallerStep(c) PROVE QuotaInv'
  BY <1>2, PrepareQuota, EndingQuota DEF CallerStep
<1> USE DEF callerVars, managerVars
<1>3. ASSUME NEW t \in Token, WorkerStep(t) PROVE QuotaInv'
  BY <1>3, BackgroundQuota DEF WorkerStep, LocalWorkerStep, EmbeddingStep, RequestSignature, Park,
     WakeCancelled, WorkerFails, Embed, RetryOversize, WorkerFrame
<1>4. ASSUME NEW t \in Token, Elapse(t) PROVE QuotaInv'
  BY <1>4, BackgroundQuota DEF Elapse
<1>5. CASE JanitorStep
  BY <1>5, BackgroundQuota DEF JanitorStep, Sweep, Delete, JanitorClose, JanitorDrain
<1>6. CASE UNCHANGED vars
  BY <1>6, BackgroundQuota DEF vars
<1> QED
  BY <1>1, <1>2, <1>3, <1>4, <1>5, <1>6 DEF Next

LEMMA AlwaysQuota == Spec => [](Inv /\ QuotaInv)
  BY InitQuota, StepQuota, InitInv, StepInv, PTL DEF Spec

(* preparing counts the Prepare calls in progress, on every path through    *)
(* Prepare and whatever else runs: no reservation leaks.                    *)
THEOREM NoReservationLeaks == Spec => []ReservationsExact
<1>1. QuotaInv => ReservationsExact
  BY DEF QuotaInv
<1> QED
  BY <1>1, AlwaysQuota, PTL

(* However the creates of an owner interleave, no more than maxPerOwner of  *)
(* its sessions are stored.                                                 *)
THEOREM QuotaHolds == Spec => []StoredWithinQuota
<1>1. Inv /\ QuotaInv => StoredWithinQuota
  <2> SUFFICES ASSUME Inv, QuotaInv, MaxPerOwner > 0, NEW o \in Owner
               PROVE  Cardinality(StoredFor(o)) <= MaxPerOwner
    BY DEF StoredWithinQuota
  <2>1. Cardinality(StoredFor(o)) \in Nat /\ Cardinality(UnstoredFor(o)) \in Nat
    BY FiniteSets DEF Inv
  <2>2. Cardinality(StoredFor(o)) + Cardinality(UnstoredFor(o)) <= MaxPerOwner
    BY DEF QuotaInv, PlacesLeft
  <2> QED
    BY <2>1, <2>2, ManagerAssumption
<1> QED
  BY <1>1, AlwaysQuota, PTL

-----------------------------------------------------------------------------
(* The quota caps the goroutines too.                                      *)

Alive(t) == worker[t] \notin {"none", "exited"}
EndingSites == {"abandoning", "sending", "awaitDone", "closing", "draining"}

(* A worker that has not exited belongs to a session that is stored, being  *)
(* prepared, or being ended, or that Complete gave up on.                   *)
HasEnder(t) ==
  Alive(t) =>
    \/ t \in sessions \union batch \/ t = closing
    \/ \E c \in Caller : tok[c] = t /\ at[c] \in EndingSites \union {"awaitDigest"}
    \/ GaveUp(t)
EndersKnown ==
  /\ \A t \in Token : HasEnder(t)
  /\ \A c \in Caller : at[c] \in {"sending", "awaitDone"} => claim[tok[c]].why = "finish"

LEMMA InitEnders == Init => EndersKnown
  BY DEF Init, EndersKnown, HasEnder, Alive

LEMMA CallerEnders ==
  ASSUME Inv, EndersKnown, NEW c \in Caller, Request(c) \/ CallerStep(c)
  PROVE  EndersKnown'
<1> USE DEF EndersKnown, HasEnder, Alive, GaveUp, EndingSites, Inv, TypeOK, Goes, Leaves,
            callerVars, managerVars, channelVars, janitorVars, historyVars
<1>1. ASSUME NEW o \in Owner, PrepareBegin(c, o) PROVE EndersKnown'
  BY <1>1 DEF PrepareBegin
<1>2. ASSUME NEW t \in Token, NEW o \in Owner, CompleteTake(c, t, o) \/ CancelTake(c, t, o)
      PROVE  EndersKnown'
  <2>1. /\ at[c] = "idle" /\ t \in sessions /\ sessions' = sessions \ {t}
        /\ \/ at' = [at EXCEPT ![c] = "closing"]
           \/ at' = [at EXCEPT ![c] = "sending"] /\ claim'[t].why = "finish"
        /\ tok' = [tok EXCEPT ![c] = t]
        /\ \A u \in Token \ {t} : claim'[u] = claim[u]
        /\ UNCHANGED <<batch, closing, worker, fate>>
    BY <1>2 DEF CompleteTake, CancelTake, TakeOwned, Entitled, Delete
  <2>2. /\ at'[c] \in {"closing", "sending"} /\ tok'[c] = t
        /\ at'[c] = "sending" => claim'[t].why = "finish"
    BY <2>1
  <2>3. \A d \in Caller \ {c} : at'[d] = at[d] /\ tok'[d] = tok[d]
    BY <2>1
  <2>4. \A d \in Caller : at[d] \in {"sending", "awaitDone"} => tok[d] \in Token \ {t}
    BY <2>1 DEF Custody, CallerCustody, Custodian
  <2>5. ASSUME NEW u \in Token PROVE HasEnder(u)'
    <3>1. CASE u = t
      BY <2>2, <3>1
    <3>2. CASE u # t
      BY <2>1, <2>3, <3>2
    <3> QED
      BY <3>1, <3>2
  <2>6. ASSUME NEW d \in Caller, at'[d] \in {"sending", "awaitDone"}
        PROVE  claim'[tok'[d]].why = "finish"
    <3>1. CASE d = c
      BY <2>2, <2>6, <3>1
    <3>2. CASE d # c
      BY <2>1, <2>3, <2>4, <2>6, <3>2
    <3> QED
      BY <3>1, <3>2
  <2> QED
    BY <2>5, <2>6
<1>3. CASE PrepareUnparsable(c)
  BY <1>3 DEF PrepareUnparsable
<1>4. ASSUME NEW t \in Token, PrepareSpawn(c, t) PROVE EndersKnown'
  BY <1>4 DEF PrepareSpawn, Custody, CallerCustody, Custodian
<1>5. CASE PrepareStore(c)
  BY <1>5 DEF PrepareStore
<1>6. CASE PrepareFails(c) \/ PrepareAbandoned(c)
  BY <1>6 DEF PrepareFails, PrepareAbandoned, ReceiveDone, Custody, ChannelsOf, CallerCustody,
     Custodian
<1>7. CASE PrepareTimeout(c)
  BY <1>7 DEF PrepareTimeout
<1>8. CASE PrepareReturn(c)
  BY <1>8 DEF PrepareReturn
<1>9. CASE CompleteSend(c)
  BY <1>9 DEF CompleteSend, Custody, CallerCustody, Custodian
<1>10. CASE CompleteSendTimeout(c)
  BY <1>10 DEF CompleteSendTimeout, Custody, CallerCustody, Custodian
<1>11. CASE CompleteReturn(c)
  BY <1>11 DEF CompleteReturn, ReceiveDone, Custody, ChannelsOf, CallerCustody, Custodian
<1>12. CASE CompleteTimeout(c)
  BY <1>12 DEF CompleteTimeout, Custody, CallerCustody, Custodian
<1>13. CASE CloseTaken(c)
  BY <1>13 DEF CloseTaken
<1>14. CASE Drained(c)
  BY <1>14 DEF Drained, ReceiveDone, Custody, ChannelsOf, CallerCustody, Custodian
<1> QED
  BY <1>1, <1>2, <1>3, <1>4, <1>5, <1>6, <1>7, <1>8, <1>9, <1>10, <1>11, <1>12, <1>13, <1>14
     DEF Request, CallerStep, PrepareStep, CompleteStep, CancelStep

LEMMA BackgroundEnders ==
  ASSUME Inv, EndersKnown,
         \/ \E t \in Token : WorkerStep(t) \/ Elapse(t)
         \/ JanitorStep
         \/ UNCHANGED vars
  PROVE  EndersKnown'
<1> USE DEF EndersKnown, HasEnder, Alive, GaveUp, EndingSites, Inv, TypeOK,
            callerVars, managerVars, channelVars, janitorVars, historyVars
<1>1. ASSUME NEW t \in Token, WorkerStep(t) PROVE EndersKnown'
  <2>1. CASE RequestSignature(t)
    BY <2>1 DEF RequestSignature, Publish, WorkerFrame
  <2>2. CASE Park(t)
    BY <2>2 DEF Park, WorkerFrame
  <2>3. CASE WakeCancelled(t) \/ WorkerFails(t) \/ Embed(t)
    <3>1. /\ worker' = [worker EXCEPT ![t] = "exited"]
          /\ UNCHANGED <<at, tok, sessions, batch, closing, claim, fate>>
      BY <2>3 DEF WakeCancelled, WorkerFails, Embed, Finishes, WorkerFrame
    <3>2. ASSUME NEW u \in Token PROVE HasEnder(u)'
      BY <3>1
    <3> QED
      BY <3>1, <3>2
  <2>4. CASE RetryOversize(t)
    BY <2>4 DEF RetryOversize, Publish, WorkerFrame
  <2> QED
    BY <1>1, <2>1, <2>2, <2>3, <2>4 DEF WorkerStep, LocalWorkerStep, EmbeddingStep
<1>2. ASSUME NEW t \in Token, Elapse(t) PROVE EndersKnown'
  BY <1>2 DEF Elapse
<1>3. CASE Sweep
  BY <1>3 DEF Sweep, Delete, Custody, CallerCustody, Custodian
<1>4. ASSUME NEW t \in Token, JanitorClose(t) PROVE EndersKnown'
  <2>1. /\ closing = NoToken /\ closing' = t /\ batch' = batch \ {t}
        /\ UNCHANGED <<at, tok, sessions, worker, claim, fate>>
    BY <1>4 DEF JanitorClose
  <2>2. \A u \in Token : u # closing
    BY <2>1, ManagerAssumption
  <2> QED
    BY <2>1, <2>2
<1>5. CASE JanitorDrain
  BY <1>5 DEF JanitorDrain, ReceiveDone, Custody, ChannelsOf
<1>6. CASE UNCHANGED vars
  BY <1>6 DEF vars
<1> QED
  BY <1>1, <1>2, <1>3, <1>4, <1>5, <1>6 DEF JanitorStep

(* The workers of an owner that count: those of its stored sessions, and one *)
(* for each session being prepared.                                         *)
LEMMA HoldingCounted ==
  ASSUME Inv, QuotaInv, EndersKnown, MaxPerOwner > 0, NEW o \in Owner
  PROVE  Cardinality(HoldingFor(o)) <= MaxPerOwner
<1> DEFINE Awaiting == {c \in UnstoredFor(o) : at[c] = "awaitDigest"}
           Fresh == {tok[c] : c \in Awaiting}
           theirs == [c \in Awaiting |-> tok[c]]
<1>1. HoldingFor(o) \in SUBSET (StoredFor(o) \union Fresh)
  <2> SUFFICES ASSUME NEW t \in HoldingFor(o), t \notin StoredFor(o) PROVE t \in Fresh
    OBVIOUS
  <2>1. t \in Token \ Ending /\ owner[t] = o /\ Alive(t) /\ ~GaveUp(t)
    BY DEF HoldingFor, Alive
  <2>2. PICK c \in Caller : tok[c] = t /\ at[c] = "awaitDigest"
    BY <2>1 DEF EndersKnown, HasEnder, Ending, EndingSites, StoredFor
  <2>3. who[c] = o
    BY <2>1, <2>2 DEF QuotaInv, CallersKnow, CallerKnows
  <2> QED
    BY <2>2, <2>3 DEF UnstoredFor, Unstored
<1>2. /\ IsFiniteSet(StoredFor(o)) /\ IsFiniteSet(UnstoredFor(o))
      /\ Cardinality(StoredFor(o)) \in Nat /\ Cardinality(UnstoredFor(o)) \in Nat
  BY FiniteSets DEF Inv
<1>3. /\ IsFiniteSet(Awaiting) /\ Cardinality(Awaiting) <= Cardinality(UnstoredFor(o))
      /\ Cardinality(Awaiting) \in Nat
  <2>1. Awaiting \in SUBSET UnstoredFor(o)
    OBVIOUS
  <2>2. IsFiniteSet(Awaiting) /\ Cardinality(Awaiting) <= Cardinality(UnstoredFor(o))
    BY <1>2, <2>1, FS_Subset
  <2> QED
    BY <2>2, FS_CardinalityType
<1>4. /\ IsFiniteSet(Fresh) /\ Cardinality(Fresh) <= Cardinality(Awaiting)
      /\ Cardinality(Fresh) \in Nat
  <2>1. theirs \in Surjection(Awaiting, Fresh)
    BY DEF Surjection
  <2>2. IsFiniteSet(Fresh) /\ Cardinality(Fresh) <= Cardinality(Awaiting)
    BY <1>3, <2>1, FS_Surjection
  <2> QED
    BY <2>2, FS_CardinalityType
<1> HIDE DEF Awaiting, Fresh, theirs
<1>5. /\ IsFiniteSet(StoredFor(o) \union Fresh)
      /\ Cardinality(StoredFor(o) \union Fresh) <= Cardinality(StoredFor(o)) + Cardinality(Fresh)
      /\ Cardinality(StoredFor(o) \union Fresh) \in Nat
  <2>1. /\ IsFiniteSet(StoredFor(o) \union Fresh)
        /\ Cardinality(StoredFor(o) \union Fresh) =
             Cardinality(StoredFor(o)) + Cardinality(Fresh) - Cardinality(StoredFor(o) \intersect Fresh)
    BY <1>2, <1>4, FS_Union
  <2>2. IsFiniteSet(StoredFor(o) \intersect Fresh)
    BY <1>2, FS_Subset
  <2>3. /\ Cardinality(StoredFor(o) \intersect Fresh) \in Nat
        /\ Cardinality(StoredFor(o) \union Fresh) \in Nat
    BY <2>1, <2>2, FS_CardinalityType
  <2> QED
    BY <1>2, <1>4, <2>1, <2>3
<1>6. /\ Cardinality(HoldingFor(o)) <= Cardinality(StoredFor(o) \union Fresh)
      /\ IsFiniteSet(HoldingFor(o))
  BY <1>1, <1>5, FS_Subset
<1>7. Cardinality(HoldingFor(o)) \in Nat
  BY <1>6, FS_CardinalityType
<1>8. Cardinality(StoredFor(o)) + Cardinality(UnstoredFor(o)) <= MaxPerOwner
  BY DEF QuotaInv, PlacesLeft
<1> QED
  BY <1>2, <1>3, <1>4, <1>5, <1>6, <1>7, <1>8, ManagerAssumption

(* The quota, which counts sessions, caps the goroutines and documents as   *)
(* well, but for those that Complete gave up on (SigningManager's           *)
(* WorkersWithinQuota) - with starved workers, containers that outgrow      *)
(* their placeholders and TSAs that do not answer.                          *)
THEOREM QuotaCapsWorkers == Spec => []WorkersWithinQuota
<1>1. Inv /\ EndersKnown /\ [Next]_vars => EndersKnown'
  BY CallerEnders, BackgroundEnders DEF Next
<1>2. Inv /\ QuotaInv /\ EndersKnown => WorkersWithinQuota
  BY HoldingCounted DEF WorkersWithinQuota
<1> QED
  BY <1>1, <1>2, InitEnders, AlwaysQuota, PTL DEF Spec
=============================================================================
