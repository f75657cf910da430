------------------------- MODULE SigningManagerProofs -------------------------
(***************************************************************************)
(* Proofs about SigningManager, for any callers, owners, tokens and quota, *)
(* with oversize containers and starved workers allowed or not.            *)
(***************************************************************************)
EXTENDS SigningManager, TLAPS

Inv == TypeOK /\ Custody

LEMMA InitInv == Init => Inv
  BY ManagerAssumption DEF Init, Inv, TypeOK, Custody, CallerCustody, JanitorCustody, ChannelsOf,
       Finishable, Answered, Custodian, Sites, WorkerSites, Results, Claims, NoClaim, Reasons

-----------------------------------------------------------------------------
LEMMA RequestTyped ==
  ASSUME TypeOK, Custody, NEW c \in Caller, Request(c)
  PROVE  TypeOK'
<1> USE DEF TypeOK, Sites, WorkerSites, Results, Claims, NoClaim, Reasons,
        callerVars, managerVars, channelVars, janitorVars, historyVars, Goes, Leaves
<1>1. ASSUME NEW o \in Owner, PrepareBegin(c, o) PROVE TypeOK'
  BY <1>1 DEF PrepareBegin, QuotaAllows, Reserve
<1>2. ASSUME NEW t \in Token, NEW o \in Owner, CompleteTake(c, t, o) PROVE TypeOK'
  <2>1. claim' \in [Token -> Claims]
    BY <1>2 DEF CompleteTake, TakeOwned
  <2> QED
    BY <1>2, <2>1 DEF CompleteTake, TakeOwned, Delete
<1>3. ASSUME NEW t \in Token, NEW o \in Owner, CancelTake(c, t, o) PROVE TypeOK'
  <2>1. claim' \in [Token -> Claims]
    BY <1>3 DEF CancelTake, TakeOwned
  <2> QED
    BY <1>3, <2>1 DEF CancelTake, TakeOwned, Delete
<1> QED
  BY <1>1, <1>2, <1>3 DEF Request

LEMMA PrepareStepTyped ==
  ASSUME TypeOK, Custody, NEW c \in Caller, PrepareStep(c)
  PROVE  TypeOK'
<1> USE DEF TypeOK, Sites, WorkerSites, Results, Claims, NoClaim, Reasons,
        callerVars, managerVars, channelVars, janitorVars, historyVars, Goes, Leaves
<1>1. CASE PrepareUnparsable(c)
  BY <1>1 DEF PrepareUnparsable
<1>2. ASSUME NEW t \in Token, PrepareSpawn(c, t) PROVE TypeOK'
  BY <1>2 DEF PrepareSpawn
<1>3. CASE PrepareStore(c)
  BY <1>3 DEF PrepareStore
<1>4. CASE PrepareFails(c)
  BY <1>4 DEF PrepareFails, ReceiveDone
<1>5. CASE PrepareTimeout(c)
  <2>1. tok[c] \in Token
    BY <1>5 DEF PrepareTimeout, Custody, CallerCustody, Custodian
  <2> QED
    BY <1>5, <2>1 DEF PrepareTimeout, CloseSig
<1>6. CASE PrepareAbandoned(c)
  BY <1>6 DEF PrepareAbandoned, ReceiveDone
<1>7. CASE PrepareReturn(c)
  <2>1. issued' \in SUBSET Token
    BY <1>7 DEF PrepareReturn, Custody, CallerCustody
  <2>2. \A n \in Nat : (IF n <= 1 THEN 0 ELSE n - 1) \in Nat
    OBVIOUS
  <2>3. preparing' \in [Owner -> Nat]
    BY <1>7, <2>2, Zenon DEF PrepareReturn, ReleasePreparing
  <2> QED
    BY <1>7, <2>1, <2>3 DEF PrepareReturn
<1> QED
  BY <1>1, <1>2, <1>3, <1>4, <1>5, <1>6, <1>7 DEF PrepareStep

LEMMA CompleteStepTyped ==
  ASSUME TypeOK, Custody, NEW c \in Caller, CompleteStep(c)
  PROVE  TypeOK'
<1> USE DEF TypeOK, Sites, WorkerSites, Results, Claims, NoClaim, Reasons,
        callerVars, managerVars, channelVars, janitorVars, historyVars, Goes, Leaves
<1>1. CASE CompleteSend(c)
  BY <1>1 DEF CompleteSend
<1>2. CASE CompleteSendTimeout(c)
  BY <1>2 DEF CompleteSendTimeout
<1>3. CASE CompleteReturn(c)
  BY <1>3 DEF CompleteReturn, ReceiveDone
<1>4. CASE CompleteTimeout(c)
  BY <1>4 DEF CompleteTimeout
<1> QED
  BY <1>1, <1>2, <1>3, <1>4 DEF CompleteStep

LEMMA CancelStepTyped ==
  ASSUME TypeOK, Custody, NEW c \in Caller, CancelStep(c)
  PROVE  TypeOK'
<1> USE DEF TypeOK, Sites, WorkerSites, Results, Claims, NoClaim, Reasons,
        callerVars, managerVars, channelVars, janitorVars, historyVars, Goes, Leaves
<1>1. CASE CloseTaken(c)
  <2>1. tok[c] \in Token
    BY <1>1 DEF CloseTaken, Custody, CallerCustody, Custodian
  <2> QED
    BY <1>1, <2>1 DEF CloseTaken, CloseSig
<1>2. CASE Drained(c)
  BY <1>2 DEF Drained, ReceiveDone
<1> QED
  BY <1>1, <1>2 DEF CancelStep

LEMMA WorkerStepTyped ==
  ASSUME TypeOK, Custody, NEW t \in Token, WorkerStep(t)
  PROVE  TypeOK'
<1> USE DEF TypeOK, Sites, WorkerSites, Results, Claims, NoClaim, Reasons,
        callerVars, managerVars, channelVars, janitorVars, historyVars, Goes, Leaves
<1>1. CASE RequestSignature(t)
  BY <1>1 DEF RequestSignature, Publish, WorkerFrame
<1>2. CASE Park(t)
  BY <1>2 DEF Park, WorkerFrame
<1>3. CASE WakeCancelled(t)
  BY <1>3 DEF WakeCancelled, Finishes, WorkerFrame
<1>4. CASE WorkerFails(t)
  BY <1>4 DEF WorkerFails, Finishes, WorkerFrame
<1>5. CASE Embed(t)
  BY <1>5 DEF Embed, Finishes, WorkerFrame
<1>6. CASE RetryOversize(t)
  BY <1>6 DEF RetryOversize, Publish, WorkerFrame
<1> QED
  BY <1>1, <1>2, <1>3, <1>4, <1>5, <1>6 DEF WorkerStep, LocalWorkerStep, EmbeddingStep

LEMMA JanitorStepTyped ==
  ASSUME TypeOK, Custody, JanitorStep
  PROVE  TypeOK'
<1> USE DEF TypeOK, Sites, WorkerSites, Results, Claims, NoClaim, Reasons,
        callerVars, managerVars, channelVars, janitorVars, historyVars, Goes, Leaves
<1>1. CASE Sweep
  BY <1>1 DEF Sweep, Delete
<1>2. ASSUME NEW t \in Token, JanitorClose(t) PROVE TypeOK'
  BY <1>2 DEF JanitorClose, CloseSig
<1>3. CASE JanitorDrain
  BY <1>3 DEF JanitorDrain, ReceiveDone
<1> QED
  BY <1>1, <1>2, <1>3 DEF JanitorStep

LEMMA ElapseTyped ==
  ASSUME TypeOK, Custody, NEW t \in Token, Elapse(t)
  PROVE  TypeOK'
BY DEF Elapse, TypeOK, Sites, WorkerSites, Results, Claims, NoClaim, Reasons,
       callerVars, managerVars, channelVars, janitorVars, historyVars

-----------------------------------------------------------------------------
LEMMA RequestCustody ==
  ASSUME TypeOK, Custody, NEW c \in Caller, Request(c)
  PROVE  Custody'
<1> USE DEF TypeOK, Sites, WorkerSites, Results, Claims, NoClaim, Reasons,
        callerVars, managerVars, channelVars, janitorVars, historyVars, Goes, Leaves,
        Custody, CallerCustody, JanitorCustody, ChannelsOf, Finishable, Answered, Custodian
<1> USE ManagerAssumption
<1>1. ASSUME NEW o \in Owner, PrepareBegin(c, o) PROVE Custody'
  BY <1>1 DEF PrepareBegin, QuotaAllows, Reserve
<1>2. ASSUME NEW t \in Token, NEW o \in Owner, CompleteTake(c, t, o) PROVE Custody'
  BY <1>2 DEF CompleteTake, TakeOwned, Entitled, Delete
<1>3. ASSUME NEW t \in Token, NEW o \in Owner, CancelTake(c, t, o) PROVE Custody'
  BY <1>3 DEF CancelTake, TakeOwned, Entitled, Delete
<1> QED
  BY <1>1, <1>2, <1>3 DEF Request

LEMMA PrepareStepCustody ==
  ASSUME TypeOK, Custody, NEW c \in Caller, PrepareStep(c)
  PROVE  Custody'
<1> USE DEF TypeOK, Sites, WorkerSites, Results, Claims, NoClaim, Reasons,
        callerVars, managerVars, channelVars, janitorVars, historyVars, Goes, Leaves,
        Custody, CallerCustody, JanitorCustody, ChannelsOf, Finishable, Answered, Custodian
<1> USE ManagerAssumption
<1>1. CASE PrepareUnparsable(c)
  BY <1>1 DEF PrepareUnparsable
<1>2. ASSUME NEW t \in Token, PrepareSpawn(c, t) PROVE Custody'
  BY <1>2 DEF PrepareSpawn
<1>3. CASE PrepareStore(c)
  BY <1>3 DEF PrepareStore
<1>4. CASE PrepareFails(c)
  BY <1>4 DEF PrepareFails, ReceiveDone
<1>5. CASE PrepareTimeout(c)
  BY <1>5 DEF PrepareTimeout, CloseSig
<1>6. CASE PrepareAbandoned(c)
  BY <1>6 DEF PrepareAbandoned, ReceiveDone
<1>7. CASE PrepareReturn(c)
  <2>1. at[c] \notin Custodian /\ at'[c] \notin Custodian \union {"returning"}
    BY <1>7 DEF PrepareReturn
  <2>2. ASSUME NEW d \in Caller PROVE CallerCustody(d)'
    BY <1>7, <2>1, <2>2 DEF PrepareReturn
  <2>3. UNCHANGED <<sessions, batch, closing, channelVars, worker>>
    BY <1>7 DEF PrepareReturn
  <2> QED
    BY <2>2, <2>3
<1> QED
  BY <1>1, <1>2, <1>3, <1>4, <1>5, <1>6, <1>7 DEF PrepareStep

LEMMA CompleteStepCustody ==
  ASSUME TypeOK, Custody, NEW c \in Caller, CompleteStep(c)
  PROVE  Custody'
<1> USE DEF TypeOK, Sites, WorkerSites, Results, Claims, NoClaim, Reasons,
        callerVars, managerVars, channelVars, janitorVars, historyVars, Goes, Leaves,
        Custody, CallerCustody, JanitorCustody, ChannelsOf, Finishable, Answered, Custodian
<1> USE ManagerAssumption
<1>1. CASE CompleteSend(c)
  BY <1>1 DEF CompleteSend
<1>2. CASE CompleteSendTimeout(c)
  BY <1>2 DEF CompleteSendTimeout
<1>3. CASE CompleteReturn(c)
  BY <1>3 DEF CompleteReturn, ReceiveDone
<1>4. CASE CompleteTimeout(c)
  BY <1>4 DEF CompleteTimeout
<1> QED
  BY <1>1, <1>2, <1>3, <1>4 DEF CompleteStep

LEMMA CancelStepCustody ==
  ASSUME TypeOK, Custody, NEW c \in Caller, CancelStep(c)
  PROVE  Custody'
<1> USE DEF TypeOK, Sites, WorkerSites, Results, Claims, NoClaim, Reasons,
        callerVars, managerVars, channelVars, janitorVars, historyVars, Goes, Leaves,
        Custody, CallerCustody, JanitorCustody, ChannelsOf, Finishable, Answered, Custodian
<1> USE ManagerAssumption
<1>1. CASE CloseTaken(c)
  BY <1>1 DEF CloseTaken, CloseSig
<1>2. CASE Drained(c)
  BY <1>2 DEF Drained, ReceiveDone
<1> QED
  BY <1>1, <1>2 DEF CancelStep

LEMMA WorkerStepCustody ==
  ASSUME TypeOK, Custody, NEW t \in Token, WorkerStep(t)
  PROVE  Custody'
<1> USE DEF TypeOK, Sites, WorkerSites, Results, Claims, NoClaim, Reasons,
        callerVars, managerVars, channelVars, janitorVars, historyVars, Goes, Leaves,
        Custody, CallerCustody, JanitorCustody, ChannelsOf, Finishable, Answered, Custodian
<1> USE ManagerAssumption
<1>1. CASE RequestSignature(t)
  BY <1>1 DEF RequestSignature, Publish, WorkerFrame
<1>2. CASE Park(t)
  BY <1>2 DEF Park, WorkerFrame
<1>3. CASE WakeCancelled(t)
  BY <1>3 DEF WakeCancelled, Finishes, WorkerFrame
<1>4. CASE WorkerFails(t)
  BY <1>4 DEF WorkerFails, Finishes, WorkerFrame
<1>5. CASE Embed(t)
  BY <1>5 DEF Embed, Finishes, WorkerFrame
<1>6. CASE RetryOversize(t)
  BY <1>6 DEF RetryOversize, Publish, WorkerFrame
<1> QED
  BY <1>1, <1>2, <1>3, <1>4, <1>5, <1>6 DEF WorkerStep, LocalWorkerStep, EmbeddingStep

LEMMA JanitorStepCustody ==
  ASSUME TypeOK, Custody, JanitorStep
  PROVE  Custody'
<1> USE DEF TypeOK, Sites, WorkerSites, Results, Claims, NoClaim, Reasons,
        callerVars, managerVars, channelVars, janitorVars, historyVars, Goes, Leaves,
        Custody, CallerCustody, JanitorCustody, ChannelsOf, Finishable, Answered, Custodian
<1> USE ManagerAssumption
<1>1. CASE Sweep
  BY <1>1 DEF Sweep, Delete
<1>2. ASSUME NEW t \in Token, JanitorClose(t) PROVE Custody'
  BY <1>2 DEF JanitorClose, CloseSig
<1>3. CASE JanitorDrain
  BY <1>3 DEF JanitorDrain, ReceiveDone
<1> QED
  BY <1>1, <1>2, <1>3 DEF JanitorStep

LEMMA ElapseCustody ==
  ASSUME TypeOK, Custody, NEW t \in Token, Elapse(t)
  PROVE  Custody'
BY DEF Elapse, Custody, CallerCustody, JanitorCustody, ChannelsOf, Finishable, Answered, Custodian,
       callerVars, managerVars, channelVars, janitorVars, historyVars

-----------------------------------------------------------------------------
LEMMA StepInv == Inv /\ [Next]_vars => Inv'
<1> SUFFICES ASSUME TypeOK, Custody, [Next]_vars PROVE TypeOK' /\ Custody'
  BY DEF Inv
<1>1. ASSUME NEW c \in Caller, Request(c) PROVE TypeOK' /\ Custody'
  BY <1>1, RequestTyped, RequestCustody
<1>2. ASSUME NEW c \in Caller, CallerStep(c) PROVE TypeOK' /\ Custody'
  BY <1>2, PrepareStepTyped, PrepareStepCustody, CompleteStepTyped, CompleteStepCustody,
     CancelStepTyped, CancelStepCustody DEF CallerStep
<1>3. ASSUME NEW t \in Token, WorkerStep(t) PROVE TypeOK' /\ Custody'
  BY <1>3, WorkerStepTyped, WorkerStepCustody
<1>4. ASSUME NEW t \in Token, Elapse(t) PROVE TypeOK' /\ Custody'
  BY <1>4, ElapseTyped, ElapseCustody
<1>5. CASE JanitorStep
  BY <1>5, JanitorStepTyped, JanitorStepCustody
<1>6. CASE UNCHANGED vars
  BY <1>6 DEF vars, callerVars, managerVars, channelVars, janitorVars, historyVars, TypeOK,
     Custody, CallerCustody, JanitorCustody, ChannelsOf, Finishable, Answered
<1> QED
  BY <1>1, <1>2, <1>3, <1>4, <1>5, <1>6 DEF Next

LEMMA AlwaysInv == Spec => []Inv
  BY InitInv, StepInv, PTL DEF Spec

(* Type correctness of every reachable state.                              *)
THEOREM TypeCorrect == Spec => []TypeOK
<1>1. Inv => TypeOK
  BY DEF Inv
<1> QED
  BY <1>1, AlwaysInv, PTL

(* One custodian per session: no interleaving of Prepare, Complete, Cancel,*)
(* their timeouts and the janitor lets two of them act on one session.     *)
THEOREM SoleCustodian == Spec => []Custody
<1>1. Inv => Custody
  BY DEF Inv
<1> QED
  BY <1>1, AlwaysInv, PTL

(* sigCh is never closed twice, and never sent on after it is closed.      *)
THEOREM ChannelsNeverPanic == Spec => []ChannelSafety
<1>1. Inv => ChannelSafety
  BY DEF Inv, TypeOK, Custody, CallerCustody, ChannelsOf, Finishable, ChannelSafety
<1> QED
  BY <1>1, AlwaysInv, PTL

(* No caller, and not the janitor, waits for a result that never comes     *)
(* because it was lost.                                                    *)
THEOREM ResultsReachTheirWaiter == Spec => []NobodyStranded
<1>1. Inv => NobodyStranded
  BY DEF Inv, TypeOK, Custody, CallerCustody, JanitorCustody, Answered, Custodian, Waiting,
     NobodyStranded
<1> QED
  BY <1>1, AlwaysInv, PTL
=============================================================================
