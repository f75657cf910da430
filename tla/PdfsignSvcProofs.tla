--------------------------- MODULE PdfsignSvcProofs ---------------------------
(***************************************************************************)
(* Proofs about PdfsignSvc, for any tenants, handlers, documents, tokens,  *)
(* quota and number of incidents.                                          *)
(***************************************************************************)
EXTENDS PdfsignSvc, FiniteSetTheorems, TLAPS

Calls == [at : Sites, op : {"none", "create", "complete", "cancel"}, body : Bodies,
          tok : Token \union {NoToken}, cred : Creds, for : Flow \union {NoFlow},
          status : Statuses]

Custodial == {"finishing", "closing"}

(* What there is to know of a request at each site, and of the session it   *)
(* is about.                                                                *)
CallShape(h) ==
  LET c == call[h] IN
  /\ c.at = "idle" => c.op = "none" /\ c.status = 0 /\ c.for = NoFlow /\ c.tok = NoToken
  /\ c.at # "idle" => up /\ Reaches(c.cred) /\ c.op # "none"
  /\ c.status # 0 <=> c.at = "answering"
  /\ c.op = "create" => c.body \in Certs \union {"malformed"}
  /\ c.op = "create" /\ c.at \in {"received", "preparing"} => c.tok = NoToken
  /\ c.op \in {"complete", "cancel"} => c.tok \in Token
  /\ c.at = "preparing" \/ c.at = "stored" =>
       /\ c.op = "create" /\ c.body \in Certs /\ c.cred \in Owner
       /\ ~mode.dev => c.cred \in Tenant /\ c.body = "chained"
  /\ c.at = "stored" \/ c.status = 201 => c.op = "create" /\ c.tok \in Token
  /\ c.at = "finishing" \/ c.status = 200 => c.op = "complete"
  /\ c.at = "closing" \/ c.status = 204 => c.op = "cancel"
  /\ c.status = 404 => c.op \in {"complete", "cancel"}

CallKnows(h) ==
  LET c == call[h]  t == c.tok IN
  /\ c.op # "none" /\ t # NoToken => phase[t] # "fresh"
  /\ c.op = "create" /\ t # NoToken => owner[t] = c.cred
  /\ c.at \in Custodial => /\ phase[t] = "claimed" /\ owner[t] = c.cred
                           /\ claim[t].why # "expire" /\ claim[t].by = c.cred
  /\ c.at = "closing" => claim[t] = [why |-> "cancel", by |-> c.cred]
  /\ c.status \in {200, 204} => owner[t] = c.cred
  /\ AnswerTrue(h)

SessionKnows(t) ==
  /\ phase[t] # "fresh" => mode.on /\ owner[t] \in Owner
  /\ mode.on /\ ~mode.dev /\ phase[t] # "fresh" => owner[t] \in Tenant /\ cert[t] = "chained"

(* What a backend has been given stays a session.                           *)
FlowKnows(f) ==
  flow[f].at \in {"ready", "completing", "cancelling", "done"} =>
    flow[f].tok \in Token /\ phase[flow[f].tok] # "fresh"

OneTaker ==
  \A g, h \in Handler :
    call[g].at \in Custodial /\ call[h].at \in Custodial /\ call[g].tok = call[h].tok => g = h

Started == (up => mode.on) /\ (mode.on /\ ~mode.dev => mode.roots)

Inv ==
  /\ SvcTypeOK /\ Started /\ OneTaker
  /\ \A h \in Handler : CallShape(h) /\ CallKnows(h)
  /\ \A t \in Token : SessionKnows(t)
  /\ \A f \in Flow : FlowKnows(f)

LEMMA InitInv == Init => Inv
<1> SUFFICES ASSUME Init PROVE Inv
  OBVIOUS
<1> USE SvcAssumption, SessionAssumption DEF Init, SessionInit
<1>1. SvcTypeOK
  BY DEF SvcTypeOK, SessionTypeOK, Phases, Claims, NoClaim, Idle, Sites, Bodies, Creds, Statuses,
     FlowSites, Certs, NoCert
<1>2. \A h \in Handler : CallShape(h) /\ CallKnows(h)
  BY DEF CallShape, CallKnows, AnswerTrue, Idle, Custodial
<1> QED
  BY <1>1, <1>2 DEF Inv, Started, OneTaker, SessionKnows, FlowKnows, Idle, Custodial

-----------------------------------------------------------------------------
(* The sessions only ever move on.                                          *)
Onward == \A t \in Token :
  /\ phase[t] # "fresh" => phase'[t] # "fresh" /\ owner'[t] = owner[t]
  /\ phase[t] \notin {"fresh", "open"} => phase'[t] # "open"
  /\ phase[t] \in {"signed", "ended"} => phase'[t] = phase[t] /\ claim'[t] = claim[t]

(* What a handler knows stays true while others act, unless they touch a    *)
(* session it has taken.                                                    *)
LEMMA OthersKnow ==
  ASSUME Inv, Onward, UNCHANGED <<mode, up>>, NEW x \in Handler,
         call'[x] = call[x],
         call[x].at \in Custodial =>
           /\ phase'[call[x].tok] = phase[call[x].tok]
           /\ claim'[call[x].tok] = claim[call[x].tok]
  PROVE  CallShape(x)' /\ CallKnows(x)'
<1> DEFINE c == call[x]
<1>1. c \in Calls /\ CallShape(x) /\ CallKnows(x)
  BY DEF Inv, SvcTypeOK, Calls
<1>2. CallShape(x)'
  BY <1>1 DEF CallShape, Reaches
<1>3. AnswerTrue(x)'
  <2>1. CASE c.status \in {200, 204, 404}
    <3>1. c.tok \in Token /\ c.op # "none" /\ phase[c.tok] # "fresh"
      BY <1>1, <2>1, SvcAssumption DEF CallShape, CallKnows
    <3> QED
      BY <1>1, <2>1, <3>1 DEF AnswerTrue, CallKnows, Onward
  <2>2. CASE c.status = 201
    BY <1>1, <2>2 DEF AnswerTrue, CallShape, CallKnows, Onward
  <2>3. CASE c.status = 422
    BY <1>1, <2>3, SvcAssumption DEF AnswerTrue, CallShape, CallKnows, Onward
  <2> QED
    BY <2>1, <2>2, <2>3 DEF AnswerTrue
<1>4. c.op # "none" /\ c.tok # NoToken =>
        c.tok \in Token /\ phase'[c.tok] # "fresh" /\ owner'[c.tok] = owner[c.tok]
  BY <1>1 DEF CallKnows, Onward, Calls
<1>5. c.at \in Custodial \/ c.status \in {200, 204} => c.op # "none" /\ c.tok # NoToken
  BY <1>1, SvcAssumption DEF CallShape, Custodial
<1> QED
  BY <1>1, <1>2, <1>3, <1>4, <1>5 DEF CallKnows, Custodial

(* A handler goes on, or answers.                                           *)
Stays(h) ==
  /\ call'[h].op = call[h].op /\ call'[h].body = call[h].body /\ call'[h].tok = call[h].tok
  /\ call'[h].cred = call[h].cred /\ call'[h].for = call[h].for

LEMMA Going ==
  ASSUME call \in [Handler -> Calls], NEW h \in Handler, NEW from \in Sites, NEW to \in Sites,
         Goes(h, from, to)
  PROVE  /\ call' \in [Handler -> Calls] /\ \A x \in Handler \ {h} : call'[x] = call[x]
         /\ call[h].at = from /\ call'[h] = [call[h] EXCEPT !.at = to]
BY DEF Goes, Calls

LEMMA Answering ==
  ASSUME call \in [Handler -> Calls], NEW h \in Handler, NEW from \in Sites, NEW s \in Statuses,
         Answers(h, from, s)
  PROVE  /\ call' \in [Handler -> Calls] /\ \A x \in Handler \ {h} : call'[x] = call[x]
         /\ call[h].at = from /\ Stays(h) /\ call'[h].at = "answering" /\ call'[h].status = s
<1>1. call' = [call EXCEPT ![h] = [call[h] EXCEPT !.at = "answering", !.status = s]]
  BY DEF Answers
<1>2. [call[h] EXCEPT !.at = "answering", !.status = s] \in Calls
  BY DEF Calls, Sites
<1> QED
  BY <1>1, <1>2 DEF Answers, Stays, Calls

(* The parts of the invariant, put together after a step of one handler.    *)
LEMMA Together ==
  ASSUME Inv, Onward, UNCHANGED <<mode, up>>, NEW h \in Handler,
         SvcTypeOK', \A x \in Handler \ {h} : call'[x] = call[x],
         \A x \in Handler \ {h} : call[x].at \in Custodial =>
           /\ phase'[call[x].tok] = phase[call[x].tok]
           /\ claim'[call[x].tok] = claim[call[x].tok]
           /\ call'[h].at \in Custodial => call'[h].tok # call[x].tok,
         CallShape(h)', CallKnows(h)', \A t \in Token : SessionKnows(t)',
         \A f \in Flow : flow'[f] = flow[f] \/ FlowKnows(f)'
  PROVE  Inv'
<1>1. ASSUME NEW x \in Handler PROVE CallShape(x)' /\ CallKnows(x)'
  <2>1. CASE x # h
    BY <2>1, OthersKnow
  <2> QED
    BY <2>1
<1>2. OneTaker'
  BY DEF Inv, OneTaker
<1>3. ASSUME NEW f \in Flow PROVE FlowKnows(f)'
  BY DEF Inv, FlowKnows, Onward
<1> QED
  BY <1>1, <1>2, <1>3 DEF Inv, Started

LEMMA StartInv == Inv /\ Start => Inv'
<1> SUFFICES ASSUME Inv, Start PROVE Inv'
  OBVIOUS
<1>1. /\ up' = TRUE /\ UNCHANGED <<phase, owner, claim, call, flow, cert, incidents>>
      /\ \/ mode.on /\ mode' = mode
         \/ /\ ~mode.on
            /\ \E f \in Flags : /\ Accepts(f)
                                /\ mode' = [on |-> TRUE, dev |-> f.dev, roots |-> f.signCA = "good"]
  BY DEF Start, sessionVars
<1>2. /\ mode' \in [on : BOOLEAN, dev : BOOLEAN, roots : BOOLEAN]
      /\ mode'.on /\ (mode.on => mode' = mode) /\ (~mode'.dev => mode'.roots)
  <2>1. CASE mode.on /\ mode' = mode
    BY <2>1, <1>1 DEF Inv, SvcTypeOK, Started
  <2>2. CASE ~mode.on
    <3>1. PICK f \in Flags : /\ Accepts(f)
                             /\ mode' = [on |-> TRUE, dev |-> f.dev, roots |-> f.signCA = "good"]
      BY <2>2, <1>1
    <3>2. f.dev \in BOOLEAN /\ (~f.dev => f.signCA = "good")
      BY <3>1 DEF Flags, Files, Accepts
    <3> QED
      BY <3>1, <3>2, <2>2
  <2> QED
    BY <2>1, <2>2, <1>1
<1>3. SvcTypeOK'
  BY <1>1, <1>2 DEF Inv, SvcTypeOK, SessionTypeOK
<1>4. \A h \in Handler : call[h].at = "idle"
  BY DEF Start, Inv, CallShape
<1>5. ASSUME NEW h \in Handler PROVE CallShape(h)' /\ CallKnows(h)'
  BY <1>1, <1>4 DEF Inv, CallShape, CallKnows, AnswerTrue, Custodial
<1>6. ASSUME NEW t \in Token PROVE SessionKnows(t)'
  BY <1>1, <1>2 DEF Inv, SessionKnows
<1> QED
  BY <1>1, <1>2, <1>3, <1>5, <1>6 DEF Inv, Started, OneTaker, FlowKnows

LEMMA KillInv == Inv /\ Kill => Inv'
<1> SUFFICES ASSUME Inv, Kill PROVE Inv'
  OBVIOUS
<1>1. /\ \A h \in Handler : call'[h] = Idle
      /\ \A t \in Token : phase'[t] # "fresh" <=> phase[t] # "fresh"
      /\ UNCHANGED <<owner, claim, mode, flow, cert>> /\ up' = FALSE
  BY DEF Kill, Inv, SvcTypeOK, SessionTypeOK
<1>2. SvcTypeOK'
  <2>1. phase' \in [Token -> Phases]
    BY DEF Kill, Inv, SvcTypeOK, SessionTypeOK, Phases
  <2>2. incidents' \in Nat
    BY DEF Kill, Incident, Inv, SvcTypeOK
  <2>3. call' \in [Handler -> Calls]
    BY DEF Calls, Kill, Idle, Sites, Bodies, Creds, Statuses
  <2> QED
    BY <1>1, <2>1, <2>2, <2>3 DEF Inv, SvcTypeOK, SessionTypeOK, Calls
<1>3. ASSUME NEW h \in Handler PROVE CallShape(h)' /\ CallKnows(h)'
  BY <1>1 DEF CallShape, CallKnows, AnswerTrue, Idle, Custodial
<1>4. ASSUME NEW t \in Token PROVE SessionKnows(t)'
  BY <1>1 DEF Inv, SessionKnows
<1> QED
  BY <1>1, <1>2, <1>3, <1>4 DEF Inv, Started, OneTaker, FlowKnows, Idle, Custodial

-----------------------------------------------------------------------------
(* The steps that leave every session alone.                                *)
LEMMA Still ==
  ASSUME Inv, UNCHANGED <<phase, owner, claim, cert, mode, up, flow, incidents>>,
         NEW h \in Handler, call' \in [Handler -> Calls],
         \A x \in Handler \ {h} : call'[x] = call[x],
         call'[h].at \notin Custodial, CallShape(h)', CallKnows(h)'
  PROVE  Inv'
<1>1. SvcTypeOK'
  BY DEF Inv, SvcTypeOK, SessionTypeOK, Calls
<1>2. Onward /\ \A t \in Token : SessionKnows(t)'
  BY DEF Onward, Inv, SessionKnows
<1> QED
  BY <1>1, <1>2, Together

LEMMA RefuseInv == ASSUME Inv, NEW h \in Handler, Refuse(h) PROVE Inv'
<1>1. call \in [Handler -> Calls] /\ CallShape(h) /\ CallKnows(h)
  BY DEF Inv, SvcTypeOK, Calls
<1>2. PICK s \in {400, 401, 403} : s \in Statuses /\ "received" \in Sites /\ Answers(h, "received", s)
  BY DEF Refuse, Statuses, Sites
<1>3. /\ call' \in [Handler -> Calls] /\ \A x \in Handler \ {h} : call'[x] = call[x]
      /\ call[h].at = "received" /\ Stays(h) /\ call'[h].at = "answering" /\ call'[h].status = s
  BY <1>1, <1>2, Answering
<1>4. UNCHANGED <<phase, owner, claim, cert, mode, up, flow, incidents>>
  BY DEF Refuse, HandlerFrame, sessionVars
<1>5. CallShape(h)'
  BY <1>1, <1>3, <1>4 DEF CallShape, Reaches, Calls, Stays
<1>6. CallKnows(h)' /\ call'[h].at \notin Custodial
  BY <1>1, <1>3, <1>4 DEF CallKnows, AnswerTrue, Custodial, Calls, Stays
<1> QED
  BY <1>3, <1>4, <1>5, <1>6, Still

LEMMA ReserveInv == ASSUME Inv, NEW h \in Handler, Reserve(h) PROVE Inv'
<1>1. call \in [Handler -> Calls] /\ CallShape(h) /\ CallKnows(h)
  BY DEF Inv, SvcTypeOK, Calls
<1>2. UNCHANGED <<phase, owner, claim, cert, mode, up, flow, incidents>>
  BY DEF Reserve, HandlerFrame, sessionVars
<1>3. CASE QuotaReached(call[h].cred)
  <2>1. /\ call' \in [Handler -> Calls] /\ \A x \in Handler \ {h} : call'[x] = call[x]
        /\ call[h].at = "received" /\ call[h].op = "create"
        /\ Stays(h) /\ call'[h].at = "answering" /\ call'[h].status = 422
    <3>1. /\ Answers(h, "received", 422) /\ "received" \in Sites /\ 422 \in Statuses
          /\ call[h].op = "create"
      BY <1>3 DEF Reserve, Accepted, Sites, Statuses
    <3> QED
      BY <1>1, <3>1, Answering
  <2>2. CallShape(h)'
    BY <1>1, <1>2, <2>1 DEF CallShape, Reaches, Calls, Stays
  <2>3. CallKnows(h)' /\ call'[h].at \notin Custodial
    BY <1>1, <1>2, <2>1 DEF CallKnows, AnswerTrue, Custodial, Calls, Stays
  <2> QED
    BY <1>2, <2>1, <2>2, <2>3, Still
<1>4. CASE ~QuotaReached(call[h].cred)
  <2>1. /\ call' \in [Handler -> Calls] /\ \A x \in Handler \ {h} : call'[x] = call[x]
        /\ call[h].at = "received" /\ call[h].op = "create"
        /\ call'[h] = [call[h] EXCEPT !.at = "preparing"]
    BY <1>1, <1>4, Going DEF Sites, Reserve, Accepted
  <2>2. /\ call[h].body \in Certs /\ call[h].cred \in Owner
        /\ ~mode.dev => call[h].cred \in Tenant /\ call[h].body = "chained"
    BY <1>1, <2>1, SvcAssumption DEF Reserve, Accepted, Authentic, Decodes, ValidateCert, Inv,
       Started, CallShape, Reaches, Certs
  <2>3. CallShape(h)'
    BY <1>1, <1>2, <2>1, <2>2 DEF CallShape, Reaches, Calls, Stays
  <2>4. CallKnows(h)' /\ call'[h].at \notin Custodial
    BY <1>1, <1>2, <2>1 DEF CallKnows, AnswerTrue, Custodial, Calls, Stays
  <2> QED
    BY <1>2, <2>1, <2>3, <2>4, Still
<1> QED
  BY <1>3, <1>4

LEMMA CreatedInv == ASSUME Inv, NEW h \in Handler, Created(h) PROVE Inv'
<1>1. call \in [Handler -> Calls] /\ CallShape(h) /\ CallKnows(h)
  BY DEF Inv, SvcTypeOK, Calls
<1>2. UNCHANGED <<phase, owner, claim, cert, mode, up, flow, incidents>>
  BY DEF Created, HandlerFrame, sessionVars
<1>3. /\ call' \in [Handler -> Calls] /\ \A x \in Handler \ {h} : call'[x] = call[x]
      /\ call[h].at = "stored" /\ Stays(h) /\ call'[h].at = "answering" /\ call'[h].status = 201
  <2>1. Answers(h, "stored", 201) /\ "stored" \in Sites /\ 201 \in Statuses
    BY DEF Created, Sites, Statuses
  <2> QED
    BY <1>1, <2>1, Answering
<1>4. CallShape(h)'
  BY <1>1, <1>2, <1>3 DEF CallShape, Reaches, Calls, Stays
<1>5. CallKnows(h)' /\ call'[h].at \notin Custodial
  BY <1>1, <1>2, <1>3, SvcAssumption DEF CallShape, CallKnows, AnswerTrue, Custodial, Calls, Stays
<1> QED
  BY <1>2, <1>3, <1>4, <1>5, Still

LEMMA NotFoundInv == ASSUME Inv, NEW h \in Handler, NotFound(h) PROVE Inv'
<1>1. call \in [Handler -> Calls] /\ CallShape(h) /\ CallKnows(h)
  BY DEF Inv, SvcTypeOK, Calls
<1>2. UNCHANGED <<phase, owner, claim, cert, mode, up, flow, incidents>>
  BY DEF NotFound, HandlerFrame, sessionVars
<1>3. /\ call' \in [Handler -> Calls] /\ \A x \in Handler \ {h} : call'[x] = call[x]
      /\ call[h].at = "received" /\ Stays(h) /\ call'[h].at = "answering" /\ call'[h].status = 404
      /\ call[h].op \in {"complete", "cancel"} /\ ~Entitled(h)
  <2>1. /\ Answers(h, "received", 404) /\ "received" \in Sites /\ 404 \in Statuses
        /\ call[h].op \in {"complete", "cancel"} /\ ~Entitled(h)
    BY DEF NotFound, Accepted, Sites, Statuses
  <2> QED
    BY <1>1, <2>1, Answering
<1>4. CallShape(h)'
  BY <1>1, <1>2, <1>3 DEF CallShape, Reaches, Calls, Stays
<1>5. CallKnows(h)' /\ call'[h].at \notin Custodial
  BY <1>1, <1>2, <1>3 DEF CallKnows, AnswerTrue, Entitled, Actor, Custodial, Calls, Stays
<1> QED
  BY <1>2, <1>3, <1>4, <1>5, Still

-----------------------------------------------------------------------------
(* The steps that change a session.                                         *)
LEMMA PreparedInv == ASSUME Inv, NEW h \in Handler, NEW u \in Token, Prepared(h, u) PROVE Inv'
<1>1. call \in [Handler -> Calls] /\ call[h] \in Calls /\ CallShape(h) /\ CallKnows(h)
  BY DEF Inv, SvcTypeOK, Calls
<1>2. /\ call[h].at = "preparing" /\ phase[u] = "fresh"
      /\ phase' = [phase EXCEPT ![u] = "open"] /\ owner' = [owner EXCEPT ![u] = call[h].cred]
      /\ cert' = [cert EXCEPT ![u] = call[h].body]
      /\ UNCHANGED <<claim, mode, up, flow, incidents>>
  BY DEF Prepared, Open, HandlerFrame
<1>3. /\ call' \in [Handler -> Calls] /\ \A x \in Handler \ {h} : call'[x] = call[x]
      /\ call'[h].at = "stored" /\ call'[h].tok = u /\ call'[h].op = call[h].op
      /\ call'[h].body = call[h].body /\ call'[h].cred = call[h].cred
      /\ call'[h].status = call[h].status
  <2>1. call' = [call EXCEPT ![h] = [call[h] EXCEPT !.at = "stored", !.tok = u]]
    BY DEF Prepared
  <2>2. [call[h] EXCEPT !.at = "stored", !.tok = u] \in Calls
    BY <1>1 DEF Calls, Sites
  <2> QED
    BY <1>1, <2>1, <2>2 DEF Calls
<1>4. /\ call[h].op = "create" /\ call[h].body \in Certs /\ call[h].cred \in Owner
      /\ ~mode.dev => call[h].cred \in Tenant /\ call[h].body = "chained"
      /\ up /\ call[h].status = 0
  BY <1>1, <1>2 DEF CallShape
<1>5. SvcTypeOK'
  <2>1. /\ phase' \in [Token -> Phases] /\ owner' \in [Token -> Owner \union {NoOwner}]
        /\ cert' \in [Token -> Certs \union {NoCert}]
    BY <1>2, <1>4 DEF Inv, SvcTypeOK, SessionTypeOK, Phases
  <2> QED
    BY <1>2, <1>3, <2>1 DEF Inv, SvcTypeOK, SessionTypeOK, Calls
<1>6. Onward
  BY <1>2 DEF Onward, Inv, SvcTypeOK, SessionTypeOK
<1>7. ASSUME NEW x \in Handler \ {h}, call[x].at \in Custodial
      PROVE  /\ phase'[call[x].tok] = phase[call[x].tok]
             /\ call'[h].at \notin Custodial
  <2>1. call[x].tok \in Token /\ phase[call[x].tok] # "fresh"
    BY <1>2, <1>7 DEF Inv, CallShape, CallKnows, Custodial
  <2> QED
    BY <1>2, <1>3, <2>1 DEF Inv, SvcTypeOK, SessionTypeOK, Custodial
<1>8. CallShape(h)'
  BY <1>1, <1>2, <1>3, <1>4 DEF CallShape, Reaches
<1>9. CallKnows(h)'
  BY <1>1, <1>2, <1>3, <1>4 DEF CallKnows, AnswerTrue, Custodial, Inv, SvcTypeOK, SessionTypeOK
<1>10. ASSUME NEW t \in Token PROVE SessionKnows(t)'
  BY <1>2, <1>4 DEF SessionKnows, Inv, SvcTypeOK, SessionTypeOK, Started
<1> QED
  BY <1>2, <1>3, <1>5, <1>6, <1>7, <1>8, <1>9, <1>10, Together

LEMMA PrepareFailsInv == ASSUME Inv, NEW h \in Handler, PrepareFails(h) PROVE Inv'
<1>1. call \in [Handler -> Calls] /\ CallShape(h) /\ CallKnows(h)
  BY DEF Inv, SvcTypeOK, Calls
<1>2. UNCHANGED <<phase, owner, claim, cert, mode, up, flow>> /\ incidents' \in Nat
  BY DEF PrepareFails, Incident, sessionVars, Inv, SvcTypeOK
<1>3. /\ call' \in [Handler -> Calls] /\ \A x \in Handler \ {h} : call'[x] = call[x]
      /\ call[h].at = "preparing" /\ Stays(h) /\ call'[h].at = "answering" /\ call'[h].status = 422
  <2>1. Answers(h, "preparing", 422) /\ "preparing" \in Sites /\ 422 \in Statuses
    BY DEF PrepareFails, Sites, Statuses
  <2> QED
    BY <1>1, <2>1, Answering
<1>4. CallShape(h)'
  BY <1>1, <1>2, <1>3 DEF CallShape, Reaches, Calls, Stays
<1>5. CallKnows(h)' /\ call'[h].at \notin Custodial
  BY <1>1, <1>2, <1>3 DEF CallShape, CallKnows, AnswerTrue, Custodial, Calls, Stays
<1>6. SvcTypeOK'
  BY <1>2, <1>3 DEF Inv, SvcTypeOK, SessionTypeOK, Calls
<1>7. Onward /\ \A t \in Token : SessionKnows(t)'
  BY <1>2 DEF Onward, Inv, SessionKnows
<1> QED
  BY <1>2, <1>3, <1>4, <1>5, <1>6, <1>7, Together

(* What the owner's claim does to the sessions.                             *)
LEMMA Claiming ==
  ASSUME Inv, NEW t \in Token, NEW why \in {"finish", "reject", "cancel"}, Claim(t, why, owner[t]),
         UNCHANGED <<mode, cert>>
  PROVE  /\ SessionTypeOK' /\ Onward /\ \A u \in Token : SessionKnows(u)'
         /\ \A u \in Token \ {t} : phase'[u] = phase[u] /\ claim'[u] = claim[u]
         /\ phase[t] = "open" /\ phase'[t] = "claimed" /\ owner' = owner
         /\ claim'[t] = [why |-> why, by |-> owner[t]] /\ owner[t] \in Owner
<1>1. /\ phase[t] = "open" /\ phase' = [phase EXCEPT ![t] = "claimed"] /\ owner' = owner
      /\ claim' = [claim EXCEPT ![t] = [why |-> why, by |-> owner[t]]] /\ SessionTypeOK
  BY DEF Claim, Inv, SvcTypeOK
<1>2. owner[t] \in Owner
  BY <1>1 DEF Inv, SessionKnows
<1>3. SessionTypeOK'
  BY <1>1, <1>2 DEF SessionTypeOK, Phases, Claims, Reasons
<1> QED
  BY <1>1, <1>2, <1>3 DEF SessionTypeOK, Onward, Inv, SessionKnows

LEMMA TakeInv ==
  ASSUME Inv, NEW h \in Handler, NEW to \in Custodial, NEW why \in {"finish", "reject", "cancel"},
         call[h].op = (IF to = "finishing" THEN "complete" ELSE "cancel"),
         to = "closing" => why = "cancel",
         Entitled(h), Claim(call[h].tok, why, Actor(h)), Goes(h, "received", to),
         UNCHANGED cert, HandlerFrame
  PROVE  Inv'
<1> DEFINE t == call[h].tok
<1>1. call \in [Handler -> Calls] /\ call[h] \in Calls /\ CallShape(h) /\ CallKnows(h)
  BY DEF Inv, SvcTypeOK, Calls
<1>2. t \in Token /\ owner[t] = Actor(h) /\ Actor(h) = call[h].cred
  BY <1>1 DEF CallShape, Entitled, Actor, Custodial
<1>3. /\ SessionTypeOK' /\ Onward /\ \A u \in Token : SessionKnows(u)'
      /\ \A u \in Token \ {t} : phase'[u] = phase[u] /\ claim'[u] = claim[u]
      /\ phase[t] = "open" /\ phase'[t] = "claimed" /\ owner' = owner
      /\ claim'[t] = [why |-> why, by |-> owner[t]] /\ owner[t] \in Owner
  BY <1>2, Claiming DEF HandlerFrame
<1>4. UNCHANGED <<mode, up, flow, incidents, cert>>
  BY DEF HandlerFrame
<1>5. /\ call' \in [Handler -> Calls] /\ \A x \in Handler \ {h} : call'[x] = call[x]
      /\ call[h].at = "received" /\ call'[h] = [call[h] EXCEPT !.at = to]
  <2>1. "received" \in Sites /\ to \in Sites
    BY DEF Sites, Custodial
  <2> QED
    BY <1>1, <2>1, Going
<1>6. /\ call'[h].at = to /\ call'[h].op = call[h].op /\ call'[h].body = call[h].body
      /\ call'[h].tok = t /\ call'[h].cred = call[h].cred /\ call'[h].status = call[h].status
      /\ call'[h].for = call[h].for
  BY <1>1, <1>5 DEF Calls
<1>7. SvcTypeOK'
  BY <1>3, <1>4, <1>5 DEF Inv, SvcTypeOK, Calls
<1>8. CallShape(h)'
  BY <1>1, <1>4, <1>5, <1>6 DEF CallShape, Reaches, Custodial
<1>9. CallKnows(h)'
  <2>1. AnswerTrue(h)'
    BY <1>1, <1>5, <1>6 DEF AnswerTrue, CallShape
  <2> QED
    BY <1>1, <1>2, <1>3, <1>5, <1>6, <2>1 DEF CallKnows, CallShape, Custodial
<1>10. ASSUME NEW x \in Handler \ {h}, call[x].at \in Custodial PROVE call[x].tok \in Token \ {t}
  <2>1. CallShape(x) /\ CallKnows(x)
    BY DEF Inv
  <2> QED
    BY <1>3, <1>10, <2>1 DEF CallShape, CallKnows, Custodial
<1> QED
  BY <1>3, <1>4, <1>5, <1>6, <1>7, <1>8, <1>9, <1>10, Together

(* The session a handler has taken ends, one way or the other, and its      *)
(* caller is told.                                                          *)
LEMMA EndingInv ==
  ASSUME Inv, NEW h \in Handler,
         \/ /\ Answers(h, "finishing", 200) /\ claim[call[h].tok].why = "finish"
            /\ phase' = [phase EXCEPT ![call[h].tok] = "signed"]
         \/ /\ Answers(h, "finishing", 422) \/ Answers(h, "closing", 204)
            /\ phase' = [phase EXCEPT ![call[h].tok] = "ended"],
         incidents' \in Nat, UNCHANGED <<owner, claim, cert, mode, up, flow>>
  PROVE  Inv'
<1> DEFINE t == call[h].tok
<1>0. PICK site \in Custodial, s \in {200, 204, 422}, p \in {"signed", "ended"} :
        /\ Answers(h, site, s) /\ phase' = [phase EXCEPT ![t] = p]
        /\ s = 200 => p = "signed" /\ claim[t].why = "finish" /\ site = "finishing"
        /\ s # 200 => p = "ended"
        /\ s = 204 <=> site = "closing"
  BY DEF Custodial
<1>1. call \in [Handler -> Calls] /\ call[h] \in Calls /\ CallShape(h) /\ CallKnows(h)
  BY DEF Inv, SvcTypeOK, Calls
<1>2. /\ call' \in [Handler -> Calls] /\ \A x \in Handler \ {h} : call'[x] = call[x]
      /\ call[h].at = site /\ Stays(h) /\ call'[h].at = "answering" /\ call'[h].status = s
  <2>1. site \in Sites /\ s \in Statuses
    BY DEF Sites, Statuses, Custodial
  <2> QED
    BY <1>0, <1>1, <2>1, Answering
<1>3. /\ t \in Token /\ phase[t] = "claimed" /\ owner[t] = call[h].cred
      /\ claim[t].by = call[h].cred /\ claim[t] \in Claims
      /\ site = "closing" => claim[t] = [why |-> "cancel", by |-> call[h].cred]
  BY <1>1, <1>2 DEF CallShape, CallKnows, Custodial, Inv, SvcTypeOK, SessionTypeOK
<1>4. phase'[t] = p /\ \A u \in Token \ {t} : phase'[u] = phase[u]
  BY <1>0, <1>3 DEF Inv, SvcTypeOK, SessionTypeOK
<1>5. SvcTypeOK'
  <2>1. phase' \in [Token -> Phases]
    BY <1>0, <1>3 DEF Inv, SvcTypeOK, SessionTypeOK, Phases
  <2> QED
    BY <1>2, <2>1 DEF Inv, SvcTypeOK, SessionTypeOK, Calls
<1>6. Onward
  BY <1>3, <1>4 DEF Onward
<1>7. ASSUME NEW x \in Handler \ {h}, call[x].at \in Custodial PROVE call[x].tok \in Token \ {t}
  <2>1. CallShape(x) /\ CallKnows(x)
    BY DEF Inv
  <2>2. call[x].tok # t
    BY <1>2, <1>7 DEF Inv, OneTaker
  <2> QED
    BY <1>7, <2>1, <2>2 DEF CallShape, Custodial
<1>8. CallShape(h)'
  BY <1>0, <1>1, <1>2 DEF CallShape, Reaches, Calls, Stays, Custodial
<1>9. CallKnows(h)'
  <2>1. claim[t].why = "finish" => claim[t] = [why |-> "finish", by |-> call[h].cred]
    BY <1>3, SvcAssumption DEF Claims, NoClaim
  <2>2. AnswerTrue(h)'
    BY <1>0, <1>1, <1>2, <1>3, <1>4, <2>1 DEF AnswerTrue, Stays, Custodial
  <2> QED
    BY <1>1, <1>2, <1>3, <1>4, <2>2 DEF CallKnows, Stays, Custodial
<1>10. ASSUME NEW u \in Token PROVE SessionKnows(u)'
  BY <1>3, <1>4 DEF SessionKnows, Inv
<1> QED
  BY <1>2, <1>4, <1>5, <1>6, <1>7, <1>8, <1>9, <1>10, Together DEF Custodial

LEMMA HandlerInv == ASSUME Inv, NEW h \in Handler,
                           \/ CompleteTake(h) \/ CancelTake(h)
                           \/ Signed(h) \/ NotSigned(h) \/ Cancelled(h)
                    PROVE  Inv'
<1>1. CASE CompleteTake(h)
  BY <1>1, TakeInv DEF CompleteTake, Accepted, Custodial
<1>2. CASE CancelTake(h)
  BY <1>2, TakeInv DEF CancelTake, Accepted, Custodial
<1>3. CASE Signed(h)
  <2>1. /\ Answers(h, "finishing", 200) /\ claim[call[h].tok].why = "finish"
        /\ phase' = [phase EXCEPT ![call[h].tok] = "signed"] /\ incidents' \in Nat
        /\ UNCHANGED <<owner, claim, cert, mode, up, flow>>
    BY <1>3 DEF Signed, Deliver, HandlerFrame, Inv, SvcTypeOK
  <2> QED
    BY <2>1, EndingInv
<1>4. CASE NotSigned(h)
  <2>1. /\ Answers(h, "finishing", 422) /\ phase' = [phase EXCEPT ![call[h].tok] = "ended"]
        /\ UNCHANGED <<owner, claim, cert, mode, up, flow>>
    BY <1>4 DEF NotSigned, End
  <2>2. incidents' \in Nat
    BY <1>4 DEF NotSigned, Incident, Inv, SvcTypeOK
  <2> QED
    BY <2>1, <2>2, EndingInv
<1>5. CASE Cancelled(h)
  <2>1. /\ Answers(h, "closing", 204) /\ phase' = [phase EXCEPT ![call[h].tok] = "ended"]
        /\ UNCHANGED <<owner, claim, cert, mode, up, flow>> /\ incidents' \in Nat
    BY <1>5 DEF Cancelled, End, HandlerFrame, Inv, SvcTypeOK
  <2> QED
    BY <2>1, EndingInv
<1> QED
  BY <1>1, <1>2, <1>3, <1>4, <1>5

-----------------------------------------------------------------------------
(* Requests, answers and backends.                                          *)
LEMMA ArrivesInv ==
  ASSUME Inv, NEW h \in Handler, NEW r \in Requests, NEW cred \in Creds,
         NEW f \in Flow \union {NoFlow}, Arrives(h, r, cred, f),
         r.tok # NoToken => phase[r.tok] # "fresh",
         UNCHANGED <<phase, owner, claim, cert, mode, up>>, incidents' \in Nat,
         flow' \in [Flow -> [at : FlowSites, tok : Token \union {NoToken}]],
         \A g \in Flow : flow'[g] = flow[g] \/ FlowKnows(g)'
  PROVE  Inv'
<1>1. call \in [Handler -> Calls] /\ call[h] = Idle /\ up /\ Reaches(cred)
  BY DEF Arrives, Inv, SvcTypeOK, Calls
<1>2. /\ r.op \in {"create", "complete", "cancel"} /\ r.body \in Bodies
      /\ r.tok \in Token \union {NoToken}
      /\ r.op = "create" => r.body \in Certs \union {"malformed"} /\ r.tok = NoToken
      /\ r.op # "create" => r.tok \in Token
  BY DEF Requests, Bodies, Certs
<1> DEFINE d == [at |-> "received", op |-> r.op, body |-> r.body, tok |-> r.tok, cred |-> cred,
                 for |-> f, status |-> 0]
<1>3. d \in Calls
  BY <1>2 DEF Calls, Sites, Statuses
<1>4. call' = [call EXCEPT ![h] = d]
  BY DEF Arrives
<1> HIDE DEF d
<1>5. call'[h] = d /\ call' \in [Handler -> Calls] /\ \A x \in Handler \ {h} : call'[x] = call[x]
  BY <1>1, <1>3, <1>4
<1>6. SvcTypeOK'
  BY <1>5 DEF Inv, SvcTypeOK, SessionTypeOK, Calls
<1>7. CallShape(h)'
  BY <1>1, <1>2, <1>5 DEF CallShape, Reaches, d
<1>8. CallKnows(h)' /\ call'[h].at \notin Custodial
  BY <1>2, <1>5 DEF CallKnows, AnswerTrue, Custodial, d
<1>9. Onward /\ \A t \in Token : SessionKnows(t)'
  BY DEF Onward, Inv, SessionKnows
<1> QED
  BY <1>5, <1>6, <1>7, <1>8, <1>9, Together

LEMMA MovesOK ==
  ASSUME Inv, NEW f \in Flow, NEW to \in FlowSites, NEW t \in Token \union {NoToken},
         Moves(f, to, t), UNCHANGED phase,
         to \in {"ready", "completing", "cancelling", "done"} => t \in Token /\ phase[t] # "fresh"
  PROVE  /\ flow' \in [Flow -> [at : FlowSites, tok : Token \union {NoToken}]]
         /\ \A g \in Flow : flow'[g] = flow[g] \/ FlowKnows(g)'
BY DEF Moves, Inv, SvcTypeOK, FlowKnows

LEMMA SendInv ==
  ASSUME Inv, NEW f \in Flow, NEW site \in Waiting, NEW r \in Requests, Send(f, site, r),
         r.tok # NoToken => phase[r.tok] # "fresh",
         site # "creating" => flow[f].tok \in Token /\ phase[flow[f].tok] # "fresh"
  PROVE  Inv'
<1>1. UNCHANGED <<phase, owner, claim, cert, mode, up>>
  BY DEF Send, sessionVars
<1>2. /\ flow' \in [Flow -> [at : FlowSites, tok : Token \union {NoToken}]]
      /\ \A g \in Flow : flow'[g] = flow[g] \/ FlowKnows(g)'
  <2>1. site \in FlowSites /\ flow[f].tok \in Token \union {NoToken}
    BY DEF Waiting, FlowSites, Inv, SvcTypeOK
  <2>2. site \in {"ready", "completing", "cancelling", "done"} => site # "creating"
    OBVIOUS
  <2> QED
    BY <1>1, <2>1, <2>2, MovesOK DEF Send
<1>3. incidents' \in Nat
  BY DEF Send, Incident, Inv, SvcTypeOK
<1>4. CASE \E h \in Handler : Arrives(h, r, MyCred(f), f)
  <2>1. MyCred(f) \in Creds
    BY SvcAssumption DEF MyCred, Creds
  <2> QED
    BY <1>1, <1>2, <1>3, <1>4, <2>1, ArrivesInv
<1>5. CASE UNCHANGED call
  <2>1. SvcTypeOK'
    BY <1>1, <1>2, <1>3, <1>5 DEF Inv, SvcTypeOK, SessionTypeOK
  <2>2. ASSUME NEW g \in Flow PROVE FlowKnows(g)'
    BY <1>1, <1>2 DEF Inv, FlowKnows
  <2> QED
    BY <1>1, <1>5, <2>1, <2>2 DEF Inv, Started, OneTaker, CallShape, CallKnows, AnswerTrue, Reaches,
       SessionKnows
<1> QED
  BY <1>4, <1>5 DEF Send

LEMMA BackendInv ==
  ASSUME Inv, NEW f \in Flow, SendCreate(f) \/ SendSignature(f) \/ SendCancel(f)
  PROVE  Inv'
<1>1. CASE SendCreate(f)
  <2>1. [op |-> "create", body |-> "chained", tok |-> NoToken] \in Requests /\ "creating" \in Waiting
    BY DEF Requests, Certs, Waiting
  <2> QED
    BY <1>1, <2>1, SendInv DEF SendCreate
<1>2. flow[f].at = "ready" => flow[f].tok \in Token /\ phase[flow[f].tok] # "fresh"
  BY DEF Inv, FlowKnows
<1>3. CASE SendSignature(f)
  <2>1. PICK body \in {"verifies", "bad"} :
          Send(f, "completing", [op |-> "complete", body |-> body, tok |-> flow[f].tok])
    BY <1>3 DEF SendSignature
  <2>2. /\ [op |-> "complete", body |-> body, tok |-> flow[f].tok] \in Requests
        /\ "completing" \in Waiting
    BY <1>2, <1>3 DEF Requests, Waiting, SendSignature
  <2> QED
    BY <1>2, <1>3, <2>1, <2>2, SendInv DEF SendSignature
<1>4. CASE SendCancel(f)
  <2>1. /\ [op |-> "cancel", body |-> "none", tok |-> flow[f].tok] \in Requests
        /\ "cancelling" \in Waiting
    BY <1>2, <1>4 DEF Requests, Waiting, SendCancel
  <2> QED
    BY <1>2, <1>4, <2>1, SendInv DEF SendCancel
<1> QED
  BY <1>1, <1>3, <1>4

LEMMA StrayInv == ASSUME Inv, NEW h \in Handler, StrayCall(h) PROVE Inv'
<1>1. PICK r \in {q \in Requests : q.tok \in Known \union {NoToken}}, cred \in Creds :
        Arrives(h, r, cred, NoFlow)
  BY DEF StrayCall
<1>2. r.tok # NoToken => phase[r.tok] # "fresh"
  BY DEF Known
<1>3. UNCHANGED <<phase, owner, claim, cert, mode, up, flow>> /\ incidents' \in Nat
  BY DEF StrayCall, Incident, sessionVars, Inv, SvcTypeOK
<1>4. flow' \in [Flow -> [at : FlowSites, tok : Token \union {NoToken}]]
  BY <1>3 DEF Inv, SvcTypeOK
<1> QED
  BY <1>1, <1>2, <1>3, <1>4, ArrivesInv

LEMMA RespondInv == ASSUME Inv, NEW h \in Handler, Respond(h) PROVE Inv'
<1> DEFINE c == call[h]
<1>1. call \in [Handler -> Calls] /\ c \in Calls /\ CallShape(h) /\ CallKnows(h)
  BY DEF Inv, SvcTypeOK, Calls
<1>2. UNCHANGED <<phase, owner, claim, cert, mode, up>> /\ incidents' \in Nat
  BY DEF Respond, Incident, sessionVars, Inv, SvcTypeOK
<1>3. Idle \in Calls
  BY DEF Idle, Calls, Sites, Bodies, Creds, Statuses
<1>4. call' \in [Handler -> Calls] /\ call'[h] = Idle /\ \A x \in Handler \ {h} : call'[x] = call[x]
  BY <1>1, <1>3 DEF Respond
<1>5. /\ flow' \in [Flow -> [at : FlowSites, tok : Token \union {NoToken}]]
      /\ \A g \in Flow : flow'[g] = flow[g] \/ FlowKnows(g)'
  <2>1. CASE c.for # NoFlow /\ Follows(c.for, h)
    <3>1. c.for \in Flow /\ {"ready", "done", "start"} \subseteq FlowSites
      BY <1>1, <2>1 DEF Calls, FlowSites
    <3>2. CASE c.status \in {200, 201}
      <4>1. c.tok \in Token /\ phase[c.tok] # "fresh"
        BY <1>1, <3>2, SvcAssumption DEF CallShape, CallKnows
      <4> QED
        BY <1>2, <2>1, <3>1, <3>2, <4>1, MovesOK DEF Follows
    <3>3. CASE c.status \notin {200, 201}
      <4>1. Moves(c.for, "start", NoToken)
        BY <2>1, <3>3 DEF Follows
      <4> QED
        BY <1>2, <3>1, <4>1, MovesOK
    <3> QED
      BY <3>2, <3>3
  <2>2. CASE UNCHANGED flow
    BY <2>2 DEF Inv, SvcTypeOK
  <2> QED
    BY <2>1, <2>2 DEF Respond
<1>6. SvcTypeOK'
  BY <1>2, <1>4, <1>5 DEF Inv, SvcTypeOK, SessionTypeOK, Calls
<1>7. CallShape(h)' /\ CallKnows(h)' /\ call'[h].at \notin Custodial
  BY <1>4 DEF CallShape, CallKnows, AnswerTrue, Idle, Custodial
<1>8. Onward /\ \A t \in Token : SessionKnows(t)'
  BY <1>2 DEF Onward, Inv, SessionKnows
<1> QED
  BY <1>2, <1>4, <1>5, <1>6, <1>7, <1>8, Together

LEMMA GiveUpInv == ASSUME Inv, NEW f \in Flow, GiveUp(f) PROVE Inv'
<1>1. PICK h \in Handler : call' = [call EXCEPT ![h].for = NoFlow]
  BY DEF GiveUp
<1>2. UNCHANGED <<phase, owner, claim, cert, mode, up, flow>> /\ incidents' \in Nat
  BY DEF GiveUp, Incident, sessionVars, Inv, SvcTypeOK
<1>3. call \in [Handler -> Calls] /\ CallShape(h) /\ CallKnows(h)
  BY DEF Inv, SvcTypeOK, Calls
<1>4. /\ call' \in [Handler -> Calls] /\ \A x \in Handler \ {h} : call'[x] = call[x]
      /\ call'[h] = [call[h] EXCEPT !.for = NoFlow]
  BY <1>1, <1>3 DEF Calls
<1>5. /\ call'[h].at = call[h].at /\ call'[h].op = call[h].op /\ call'[h].body = call[h].body
      /\ call'[h].tok = call[h].tok /\ call'[h].cred = call[h].cred
      /\ call'[h].status = call[h].status /\ call'[h].for = NoFlow
  BY <1>3, <1>4 DEF Calls
<1>6. SvcTypeOK'
  BY <1>2, <1>4 DEF Inv, SvcTypeOK, SessionTypeOK, Calls
<1>7. CallShape(h)'
  BY <1>2, <1>3, <1>5 DEF CallShape, Reaches
<1>8. CallKnows(h)'
  BY <1>2, <1>3, <1>5 DEF CallKnows, AnswerTrue
<1>9. Onward /\ \A t \in Token : SessionKnows(t)'
  BY <1>2 DEF Onward, Inv, SessionKnows
<1>10. \A x \in Handler \ {h} : call[x].at \in Custodial /\ call[h].at \in Custodial
                                  => call[h].tok # call[x].tok
  BY DEF Inv, OneTaker
<1> QED
  BY <1>2, <1>4, <1>5, <1>6, <1>7, <1>8, <1>9, <1>10, Together

LEMMA CallLostInv == ASSUME Inv, NEW f \in Flow, CallLost(f) PROVE Inv'
<1>1. UNCHANGED <<phase, owner, claim, cert, mode, up, call, incidents>>
  BY DEF CallLost, sessionVars
<1>2. /\ flow' \in [Flow -> [at : FlowSites, tok : Token \union {NoToken}]]
      /\ \A g \in Flow : flow'[g] = flow[g] \/ FlowKnows(g)'
  <2>1. CASE Moves(f, "start", NoToken)
    BY <1>1, <2>1, MovesOK DEF FlowSites
  <2>2. CASE flow[f].at # "creating" /\ Moves(f, "ready", flow[f].tok)
    <3>1. flow[f].tok \in Token /\ phase[flow[f].tok] # "fresh"
      BY <2>2 DEF CallLost, Waiting, Inv, FlowKnows
    <3> QED
      BY <1>1, <2>2, <3>1, MovesOK DEF FlowSites
  <2> QED
    BY <2>1, <2>2 DEF CallLost
<1>3. SvcTypeOK'
  BY <1>1, <1>2 DEF Inv, SvcTypeOK, SessionTypeOK
<1>4. ASSUME NEW g \in Flow PROVE FlowKnows(g)'
  BY <1>1, <1>2 DEF Inv, FlowKnows
<1> QED
  BY <1>1, <1>3, <1>4 DEF Inv, Started, OneTaker, CallShape, CallKnows, AnswerTrue, Reaches,
     SessionKnows

-----------------------------------------------------------------------------
(* The janitor touches open sessions and those it has claimed itself.       *)
LEMMA JanitorInv ==
  ASSUME Inv, NEW t \in Token, ExpireOrphan(t) \/ ExpireFollowed(t) \/ EndExpired(t)
  PROVE  Inv'
<1>1. UNCHANGED <<owner, mode, up, call, flow, cert>> /\ incidents' \in Nat
  BY DEF ExpireOrphan, ExpireFollowed, EndExpired, Expire, End, Incident, Inv, SvcTypeOK
<1>2. /\ phase' \in [Token -> Phases] /\ claim' \in [Token -> Claims] /\ Onward
      /\ \A u \in Token : phase'[u] # "fresh" <=> phase[u] # "fresh"
      /\ \A u \in Token : phase[u] = "claimed" /\ claim[u].why # "expire" =>
           phase'[u] = phase[u] /\ claim'[u] = claim[u]
  <2>1. CASE ExpireOrphan(t) \/ ExpireFollowed(t)
    <3>1. Expire({t})
      BY <2>1 DEF ExpireOrphan, ExpireFollowed
    <3>2. /\ phase[t] = "open" /\ owner' = owner
          /\ phase' = [u \in Token |-> IF u = t THEN "claimed" ELSE phase[u]]
          /\ claim' = [u \in Token |-> IF u = t THEN [why |-> "expire", by |-> Janitor]
                                                ELSE claim[u]]
      BY <3>1 DEF Expire
    <3>3. phase' \in [Token -> Phases] /\ claim' \in [Token -> Claims]
      BY <3>2 DEF Inv, SvcTypeOK, SessionTypeOK, Phases, Claims, Reasons
    <3> QED
      BY <3>2, <3>3 DEF Onward
  <2>2. CASE EndExpired(t)
    BY <2>2 DEF EndExpired, End, Inv, SvcTypeOK, SessionTypeOK, Phases, Onward
  <2> QED
    BY <2>1, <2>2
<1>3. SvcTypeOK'
  BY <1>1, <1>2 DEF Inv, SvcTypeOK, SessionTypeOK
<1>4. ASSUME NEW x \in Handler PROVE CallShape(x)' /\ CallKnows(x)'
  <2>1. CallShape(x) /\ CallKnows(x)
    BY DEF Inv
  <2>2. call[x].at \in Custodial =>
          /\ call[x].tok \in Token /\ phase[call[x].tok] = "claimed"
          /\ claim[call[x].tok].why # "expire"
    BY <2>1 DEF CallShape, CallKnows, Custodial
  <2> QED
    BY <1>1, <1>2, <2>2, OthersKnow
<1>5. ASSUME NEW u \in Token PROVE SessionKnows(u)'
  BY <1>1, <1>2 DEF Inv, SessionKnows
<1>6. ASSUME NEW f \in Flow PROVE FlowKnows(f)'
  BY <1>1, <1>2 DEF Inv, FlowKnows
<1> QED
  BY <1>1, <1>3, <1>4, <1>5, <1>6 DEF Inv, Started, OneTaker

LEMMA StepInv == Inv /\ [Next]_vars => Inv'
<1> SUFFICES ASSUME Inv, [Next]_vars PROVE Inv'
  OBVIOUS
<1>1. CASE Start \/ Kill
  BY <1>1, StartInv, KillInv
<1>2. ASSUME NEW h \in Handler, HandlerStep(h) \/ PrepareFails(h) \/ StrayCall(h) PROVE Inv'
  BY <1>2, RefuseInv, ReserveInv, CreatedInv, PreparedInv, NotFoundInv, HandlerInv, RespondInv,
     PrepareFailsInv, StrayInv DEF HandlerStep
<1>3. ASSUME NEW f \in Flow, FlowStep(f) \/ SendCancel(f) \/ GiveUp(f) PROVE Inv'
  BY <1>3, BackendInv, CallLostInv, GiveUpInv DEF FlowStep
<1>4. CASE JanitorStep \/ \E t \in Token : ExpireFollowed(t)
  BY <1>4, JanitorInv DEF JanitorStep
<1>5. CASE UNCHANGED vars
  BY <1>5 DEF vars, sessionVars, Inv, SvcTypeOK, SessionTypeOK, Started, OneTaker, CallShape,
     CallKnows, AnswerTrue, Reaches, SessionKnows, FlowKnows
<1> QED
  BY <1>1, <1>2, <1>3, <1>4, <1>5 DEF Next

LEMMA AlwaysInv == Spec => []Inv
  BY InitInv, StepInv, PTL DEF Spec

-----------------------------------------------------------------------------
(* Every variable of the service has its type.                              *)
THEOREM SvcTypeCorrect == Spec => []SvcTypeOK
<1>1. Inv => SvcTypeOK
  BY DEF Inv
<1> QED
  BY <1>1, AlwaysInv, PTL

(* What a status code says of a session is so when the answer is read: no   *)
(* other handler and no sweep of the janitor makes it untrue meanwhile, and *)
(* 200 goes to the one caller whose signature was embedded.                 *)
THEOREM StatusCodesTellTheTruth == Spec => []AnswersAreTrue
<1>1. Inv => AnswersAreTrue
  BY DEF Inv, AnswersAreTrue, CallKnows
<1> QED
  BY <1>1, AlwaysInv, PTL

(* A service started without -dev has sessions of authenticated tenants     *)
(* only, each with a certificate that chains to a root of -sign-ca.         *)
THEOREM NothingUnvalidated == Spec => []ProductionValidates
<1>1. Inv => ProductionValidates
  BY DEF Inv, ProductionValidates, SessionKnows
<1> QED
  BY <1>1, AlwaysInv, PTL

-----------------------------------------------------------------------------
(* A request is made for at most one document, and a document has at most   *)
(* one request and one session, which no other document has.                *)
Serves(h) ==
  LET c == call[h]  f == c.for IN
  f # NoFlow =>
    /\ c.cred = MyCred(f)
    /\ c.op = "create" => flow[f].at = "creating"
    /\ c.op = "complete" => flow[f].at = "completing" /\ flow[f].tok = c.tok
    /\ c.op = "cancel" => flow[f].at = "cancelling" /\ flow[f].tok = c.tok

DocumentKnows(f) ==
  /\ flow[f].at \notin {"absent", "start"} => mode.on
  /\ flow[f].at \in {"absent", "start", "creating"} => flow[f].tok = NoToken
  /\ flow[f].tok # NoToken => owner[flow[f].tok] = MyCred(f)
  /\ flow[f].at = "done" => flow[f].tok # NoToken /\ phase[flow[f].tok] = "signed"

OneServer ==
  \A g, h \in Handler : call[g].for # NoFlow /\ call[g].for = call[h].for => g = h

Apart ==
  /\ \A f, g \in Flow : f # g /\ flow[f].tok # NoToken => flow[g].tok # flow[f].tok
  /\ \A h \in Handler : call[h].op = "create" /\ call[h].tok # NoToken =>
       /\ \A f \in Flow : flow[f].tok # call[h].tok
       /\ \A g \in Handler \ {h} : call[g].op = "create" => call[g].tok # call[h].tok

Served ==
  /\ OneServer /\ Apart
  /\ \A h \in Handler : Serves(h)
  /\ \A f \in Flow : DocumentKnows(f)

LEMMA InitServed == Init => Served
  BY SvcAssumption DEF Init, Idle, Served, OneServer, Apart, Serves, DocumentKnows

LEMMA DocumentsSessions ==
  ASSUME Inv, Served, NEW f \in Flow, flow[f].tok # NoToken
  PROVE  flow[f].tok \in Token /\ phase[flow[f].tok] # "fresh"
<1>1. flow[f].at \in FlowSites \ {"absent", "start", "creating"}
  BY DEF Inv, SvcTypeOK, Served, DocumentKnows
<1>2. FlowKnows(f)
  BY DEF Inv
<1> QED
  BY <1>1, <1>2 DEF FlowSites, FlowKnows

(* Steps of handlers and of the janitor that leave tokens and documents be. *)
LEMMA QuietServed ==
  ASSUME Inv, Served, Onward, UNCHANGED <<mode, flow>>, \A x \in Handler : Stays(x)
  PROVE  Served'
<1>1. ASSUME NEW f \in Flow PROVE DocumentKnows(f)'
  <2>1. flow[f].tok # NoToken => flow[f].tok \in Token /\ phase[flow[f].tok] # "fresh"
    BY DocumentsSessions
  <2> QED
    BY <2>1 DEF Served, DocumentKnows, Onward, MyCred
<1>2. ASSUME NEW h \in Handler PROVE Serves(h)'
  BY DEF Served, Serves, Stays, MyCred
<1>3. OneServer' /\ Apart'
  BY DEF Served, OneServer, Apart, Stays
<1> QED
  BY <1>1, <1>2, <1>3 DEF Served

LEMMA StartServed == Inv /\ Served /\ Start => Served'
<1> SUFFICES ASSUME Inv, Served, Start PROVE Served'
  OBVIOUS
<1>1. /\ UNCHANGED <<phase, owner, call, flow>>
      /\ mode.on => mode' = mode
  BY DEF Start, sessionVars
<1>2. \A h \in Handler : call[h].for = NoFlow
  BY DEF Start, Inv, CallShape
<1>3. ASSUME NEW f \in Flow PROVE DocumentKnows(f)'
  <2>1. flow[f].at \in {"absent", "start"} \/ mode.on
    BY DEF Served, DocumentKnows
  <2>2. flow[f].at \in {"absent", "start"} => flow[f].tok = NoToken
    BY DEF Served, DocumentKnows
  <2>3. CASE mode.on
    BY <1>1, <2>3 DEF Served, DocumentKnows, MyCred
  <2>4. CASE ~mode.on
    BY <1>1, <2>1, <2>2, <2>4 DEF DocumentKnows
  <2> QED
    BY <2>3, <2>4
<1>4. ASSUME NEW h \in Handler PROVE Serves(h)'
  BY <1>1, <1>2 DEF Serves
<1> QED
  BY <1>1, <1>3, <1>4 DEF Served, OneServer, Apart

LEMMA KillServed == Inv /\ Served /\ Kill => Served'
<1> SUFFICES ASSUME Inv, Served, Kill PROVE Served'
  OBVIOUS
<1>1. /\ \A h \in Handler : call'[h] = Idle
      /\ \A t \in Token : phase[t] = "signed" => phase'[t] = "signed"
      /\ UNCHANGED <<owner, mode, flow>>
  BY DEF Kill, Inv, SvcTypeOK, SessionTypeOK
<1>2. ASSUME NEW f \in Flow PROVE DocumentKnows(f)'
  BY <1>1 DEF Served, DocumentKnows, MyCred, Inv, FlowKnows
<1> QED
  BY <1>1, <1>2 DEF Served, Serves, OneServer, Apart, Idle

LEMMA PreparedServed ==
  ASSUME Inv, Served, NEW h \in Handler, NEW u \in Token, Prepared(h, u)
  PROVE  Served'
<1>1. call \in [Handler -> Calls] /\ CallShape(h)
  BY DEF Inv, SvcTypeOK, Calls
<1>2. /\ call[h].at = "preparing" /\ phase[u] = "fresh" /\ UNCHANGED <<mode, flow>>
      /\ phase' = [phase EXCEPT ![u] = "open"] /\ owner' = [owner EXCEPT ![u] = call[h].cred]
  BY DEF Prepared, Open, HandlerFrame
<1>3. /\ \A x \in Handler \ {h} : call'[x] = call[x]
      /\ call'[h].tok = u /\ call'[h].op = call[h].op /\ call'[h].cred = call[h].cred
      /\ call'[h].for = call[h].for /\ call[h].op = "create"
  BY <1>1, <1>2 DEF Prepared, Calls, CallShape
<1>4. /\ \A f \in Flow : flow[f].tok # NoToken => flow[f].tok \in Token \ {u}
      /\ \A x \in Handler : call[x].op = "create" => call[x].tok # u
  <2>1. ASSUME NEW f \in Flow, flow[f].tok # NoToken PROVE flow[f].tok \in Token \ {u}
    BY <1>2, <2>1, DocumentsSessions
  <2>2. ASSUME NEW x \in Handler, call[x].op = "create" PROVE call[x].tok # u
    <3>1. CallKnows(x)
      BY DEF Inv
    <3> QED
      BY <1>2, <2>2, <3>1, SvcAssumption DEF CallKnows
  <2> QED
    BY <2>1, <2>2
<1>5. ASSUME NEW f \in Flow PROVE DocumentKnows(f)'
  BY <1>2, <1>4 DEF Served, DocumentKnows, MyCred, Inv, SvcTypeOK, SessionTypeOK
<1>6. ASSUME NEW x \in Handler PROVE Serves(x)'
  BY <1>2, <1>3 DEF Served, Serves, MyCred
<1>7. OneServer'
  BY <1>3 DEF Served, OneServer
<1>8. Apart'
  BY <1>2, <1>3, <1>4, SvcAssumption DEF Served, Apart
<1> QED
  BY <1>5, <1>6, <1>7, <1>8 DEF Served

LEMMA HandlerServed ==
  ASSUME Inv, Served, NEW h \in Handler,
         \/ Refuse(h) \/ Reserve(h) \/ Created(h) \/ PrepareFails(h) \/ NotFound(h)
         \/ CompleteTake(h) \/ CancelTake(h) \/ Signed(h) \/ NotSigned(h) \/ Cancelled(h)
  PROVE  Served'
<1>1. call \in [Handler -> Calls] /\ CallShape(h)
  BY DEF Inv, SvcTypeOK, Calls
<1>2. UNCHANGED <<mode, flow>>
  BY DEF Refuse, Reserve, Created, PrepareFails, NotFound, CompleteTake, CancelTake, Signed,
     NotSigned, Cancelled, HandlerFrame
<1>3. \A x \in Handler : Stays(x)
  <2>1. \/ \E from \in Sites, s \in Statuses : Answers(h, from, s)
        \/ \E from, to \in Sites : Goes(h, from, to)
    BY DEF Refuse, Reserve, Created, PrepareFails, NotFound, CompleteTake, CancelTake, Signed,
       NotSigned, Cancelled, Sites, Statuses
  <2>2. CASE \E from \in Sites, s \in Statuses : Answers(h, from, s)
    <3>1. PICK from \in Sites, s \in Statuses : Answers(h, from, s)
      BY <2>2
    <3>2. Stays(h) /\ \A x \in Handler \ {h} : call'[x] = call[x]
      BY <1>1, <3>1, Answering
    <3> QED
      BY <3>2 DEF Stays
  <2>3. CASE \E from, to \in Sites : Goes(h, from, to)
    <3>1. PICK from \in Sites, to \in Sites : Goes(h, from, to)
      BY <2>3
    <3>2. call'[h] = [call[h] EXCEPT !.at = to] /\ \A x \in Handler \ {h} : call'[x] = call[x]
      BY <1>1, <3>1, Going
    <3> QED
      BY <1>1, <3>2 DEF Stays, Calls
  <2> QED
    BY <2>1, <2>2, <2>3
<1>4. Onward
  <2>1. CASE Refuse(h) \/ Reserve(h) \/ Created(h) \/ PrepareFails(h) \/ NotFound(h)
    BY <2>1 DEF Refuse, Reserve, Created, PrepareFails, NotFound, sessionVars, Onward
  <2>2. CASE CompleteTake(h) \/ CancelTake(h)
    BY <2>2 DEF CompleteTake, CancelTake, Claim, Onward, Inv, SvcTypeOK, SessionTypeOK
  <2>3. CASE Signed(h) \/ NotSigned(h) \/ Cancelled(h)
    BY <2>3 DEF Signed, NotSigned, Cancelled, Deliver, End, Onward, Inv, SvcTypeOK, SessionTypeOK
  <2> QED
    BY <2>1, <2>2, <2>3
<1> QED
  BY <1>2, <1>3, <1>4, QuietServed

LEMMA JanitorServed ==
  ASSUME Inv, Served, NEW t \in Token, ExpireOrphan(t) \/ ExpireFollowed(t) \/ EndExpired(t)
  PROVE  Served'
<1>1. UNCHANGED <<owner, mode, call, flow>>
  BY DEF ExpireOrphan, ExpireFollowed, EndExpired, Expire, End
<1>2. Onward
  BY <1>1 DEF ExpireOrphan, ExpireFollowed, EndExpired, Expire, End, Onward, Inv, SvcTypeOK,
     SessionTypeOK
<1> QED
  BY <1>1, <1>2, QuietServed DEF Stays

(* A backend that sends has no other request under way.                     *)
LEMMA SendServed ==
  ASSUME Inv, Served, NEW f \in Flow, SendCreate(f) \/ SendSignature(f) \/ SendCancel(f)
  PROVE  Served'
<1>1. PICK site \in Waiting, op \in {"create", "complete", "cancel"}, body \in Bodies,
           t \in Token \union {NoToken} :
        /\ Send(f, site, [op |-> op, body |-> body, tok |-> t])
        /\ \/ op = "create" /\ site = "creating" /\ t = NoToken /\ flow[f].at = "start"
           \/ op = "complete" /\ site = "completing" /\ t = flow[f].tok /\ flow[f].at = "ready"
           \/ op = "cancel" /\ site = "cancelling" /\ t = flow[f].tok /\ flow[f].at = "ready"
  <2>1. flow[f].tok \in Token \union {NoToken}
    BY DEF Inv, SvcTypeOK
  <2>2. CASE SendCreate(f)
    BY <2>2 DEF SendCreate, Waiting, Bodies, Certs
  <2>3. CASE SendSignature(f)
    <3>1. PICK body \in {"verifies", "bad"} :
            Send(f, "completing", [op |-> "complete", body |-> body, tok |-> flow[f].tok])
      BY <2>3 DEF SendSignature
    <3> QED
      BY <2>1, <2>3, <3>1 DEF SendSignature, Waiting, Bodies
  <2>4. CASE SendCancel(f)
    BY <2>1, <2>4 DEF SendCancel, Waiting, Bodies
  <2> QED
    BY <2>2, <2>3, <2>4
<1>2. /\ UNCHANGED <<phase, owner, mode>> /\ up /\ mode.on
      /\ flow[f].tok \in Token \union {NoToken}
      /\ flow' = [flow EXCEPT ![f] = [at |-> site, tok |-> flow[f].tok]]
  BY <1>1 DEF Send, Moves, Arrives, sessionVars, Inv, Started, SvcTypeOK
<1>3. /\ flow'[f].at = site /\ flow'[f].tok = flow[f].tok
      /\ \A g \in Flow \ {f} : flow'[g] = flow[g]
  BY <1>2 DEF Inv, SvcTypeOK
<1>4. \A h \in Handler : call[h].for # f
  <2>1. SUFFICES ASSUME NEW h \in Handler, call[h].for = f PROVE FALSE
    OBVIOUS
  <2>2. /\ Serves(h) /\ CallShape(h) /\ f # NoFlow
        /\ call[h].op \in {"none", "create", "complete", "cancel"}
        /\ call[h].at # "idle" => call[h].op # "none"
    BY SvcAssumption DEF Served, Inv, CallShape, SvcTypeOK
  <2> QED
    BY <1>1, <2>1, <2>2 DEF Serves, CallShape
<1>5. ASSUME NEW g \in Flow PROVE DocumentKnows(g)'
  <2>1. CASE g = f
    <3>1. site = "creating" => flow[f].tok = NoToken
      BY <1>1 DEF Served, DocumentKnows
    <3> QED
      BY <1>2, <1>3, <2>1, <3>1 DEF Served, DocumentKnows, MyCred, Waiting
  <2>2. CASE g # f
    BY <1>2, <1>3, <2>2 DEF Served, DocumentKnows, MyCred
  <2> QED
    BY <2>1, <2>2
<1>6. CASE UNCHANGED call
  <2>1. ASSUME NEW h \in Handler PROVE Serves(h)'
    <3>1. Serves(h) /\ call[h].for # f /\ call[h].for \in Flow \union {NoFlow}
      BY <1>4 DEF Served, Inv, SvcTypeOK
    <3> QED
      BY <1>2, <1>3, <1>6, <3>1 DEF Serves, MyCred
  <2>2. OneServer' /\ Apart'
    BY <1>3, <1>6 DEF Served, OneServer, Apart
  <2> QED
    BY <1>5, <2>1, <2>2 DEF Served
<1>7. CASE \E h \in Handler : Arrives(h, [op |-> op, body |-> body, tok |-> t], MyCred(f), f)
  <2>1. PICK h \in Handler : Arrives(h, [op |-> op, body |-> body, tok |-> t], MyCred(f), f)
    BY <1>7
  <2>2. /\ \A x \in Handler \ {h} : call'[x] = call[x]
        /\ call'[h].op = op /\ call'[h].tok = t /\ call'[h].cred = MyCred(f) /\ call'[h].for = f
    BY <2>1 DEF Arrives, Inv, SvcTypeOK
  <2>3. ASSUME NEW x \in Handler PROVE Serves(x)'
    <3>1. CASE x = h
      BY <1>1, <1>2, <1>3, <2>2, <3>1 DEF Serves, MyCred
    <3>2. CASE x # h
      <4>1. Serves(x) /\ call[x].for # f /\ call[x].for \in Flow \union {NoFlow}
        BY <1>4 DEF Served, Inv, SvcTypeOK
      <4> QED
        BY <1>2, <1>3, <2>2, <3>2, <4>1 DEF Serves, MyCred
    <3> QED
      BY <3>1, <3>2
  <2>4. OneServer'
    BY <1>4, <2>2 DEF Served, OneServer
  <2>5. Apart'
    BY <1>1, <1>3, <2>2 DEF Served, Apart
  <2> QED
    BY <1>5, <2>3, <2>4, <2>5 DEF Served
<1> QED
  BY <1>1, <1>6, <1>7 DEF Send

LEMMA StrayServed == ASSUME Inv, Served, NEW h \in Handler, StrayCall(h) PROVE Served'
<1>1. PICK r \in {q \in Requests : q.tok \in Known \union {NoToken}}, cred \in Creds :
        Arrives(h, r, cred, NoFlow)
  BY DEF StrayCall
<1>2. /\ \A x \in Handler \ {h} : call'[x] = call[x]
      /\ call'[h].op = r.op /\ call'[h].tok = r.tok /\ call'[h].for = NoFlow
  BY <1>1 DEF Arrives, Inv, SvcTypeOK
<1>3. r.op = "create" => r.tok = NoToken
  BY DEF Requests
<1>4. UNCHANGED <<phase, owner, mode, flow>>
  BY DEF StrayCall, sessionVars
<1>5. ASSUME NEW x \in Handler PROVE Serves(x)'
  BY <1>2, <1>4 DEF Served, Serves, MyCred
<1>6. ASSUME NEW f \in Flow PROVE DocumentKnows(f)'
  BY <1>4 DEF Served, DocumentKnows, MyCred
<1>7. OneServer' /\ Apart'
  BY <1>2, <1>3, <1>4 DEF Served, OneServer, Apart
<1> QED
  BY <1>5, <1>6, <1>7 DEF Served

LEMMA GiveUpServed == ASSUME Inv, Served, NEW f \in Flow, GiveUp(f) PROVE Served'
<1>1. PICK h \in Handler : call' = [call EXCEPT ![h].for = NoFlow]
  BY DEF GiveUp
<1>2. call \in [Handler -> Calls] /\ UNCHANGED <<phase, owner, mode, flow>>
  BY DEF GiveUp, sessionVars, Inv, SvcTypeOK, Calls
<1>3. /\ \A x \in Handler \ {h} : call'[x] = call[x]
      /\ call'[h].op = call[h].op /\ call'[h].tok = call[h].tok /\ call'[h].for = NoFlow
  BY <1>1, <1>2 DEF Calls
<1>4. ASSUME NEW x \in Handler PROVE Serves(x)'
  BY <1>2, <1>3 DEF Served, Serves, MyCred
<1>5. ASSUME NEW g \in Flow PROVE DocumentKnows(g)'
  BY <1>2 DEF Served, DocumentKnows, MyCred
<1>6. OneServer' /\ Apart'
  BY <1>2, <1>3 DEF Served, OneServer, Apart
<1> QED
  BY <1>4, <1>5, <1>6 DEF Served

(* What a move of one backend needs, its request (if any) being gone.       *)
LEMMA MoveServed ==
  ASSUME Inv, Served, NEW f \in Flow, NEW to \in FlowSites, NEW t \in Token \union {NoToken},
         Moves(f, to, t), UNCHANGED <<phase, owner, mode>>, mode.on,
         to \in {"absent", "start", "creating"} => t = NoToken,
         t # NoToken => owner[t] = MyCred(f),
         to = "done" => t # NoToken /\ phase[t] = "signed",
         t # NoToken => \A g \in Flow \ {f} : flow[g].tok # t,
         \A x \in Handler :
           \/ call'[x] = Idle
           \/ call'[x] = call[x] /\ call[x].for # f /\ (call[x].op = "create" /\ t # NoToken => call[x].tok # t)
  PROVE  Served'
<1>1. flow'[f].at = to /\ flow'[f].tok = t /\ \A g \in Flow \ {f} : flow'[g] = flow[g]
  BY DEF Moves, Inv, SvcTypeOK
<1>2. ASSUME NEW g \in Flow PROVE DocumentKnows(g)'
  <2>1. CASE g = f
    BY <1>1, <2>1 DEF DocumentKnows, MyCred
  <2>2. CASE g # f
    BY <1>1, <2>2 DEF Served, DocumentKnows, MyCred
  <2> QED
    BY <2>1, <2>2
<1>3. ASSUME NEW x \in Handler PROVE Serves(x)'
  <2>1. CASE call'[x] = Idle
    BY <2>1 DEF Serves, Idle
  <2>2. CASE call'[x] = call[x] /\ call[x].for # f
    <3>1. Serves(x) /\ call[x].for \in Flow \union {NoFlow}
      BY DEF Served, Inv, SvcTypeOK
    <3> QED
      BY <1>1, <2>2, <3>1 DEF Serves, MyCred
  <2> QED
    BY <2>1, <2>2
<1>4. OneServer'
  BY DEF Served, OneServer, Idle
<1>5. Apart'
  <2>1. ASSUME NEW a \in Flow, NEW b \in Flow, a # b, flow'[a].tok # NoToken
        PROVE  flow'[b].tok # flow'[a].tok
    BY <1>1, <2>1 DEF Served, Apart
  <2>2. ASSUME NEW x \in Handler, call'[x].op = "create", call'[x].tok # NoToken
        PROVE  /\ \A g \in Flow : flow'[g].tok # call'[x].tok
               /\ \A y \in Handler \ {x} : call'[y].op = "create" => call'[y].tok # call'[x].tok
    <3>1. call'[x] = call[x] /\ (t # NoToken => call[x].tok # t)
      BY <2>2 DEF Idle
    <3>2. \A y \in Handler : call'[y].op = "create" => call'[y] = call[y]
      BY DEF Idle
    <3> QED
      BY <1>1, <2>2, <3>1, <3>2 DEF Served, Apart
  <2> QED
    BY <2>1, <2>2 DEF Apart
<1> QED
  BY <1>2, <1>3, <1>4, <1>5 DEF Served

LEMMA CallLostServed == ASSUME Inv, Served, NEW f \in Flow, CallLost(f) PROVE Served'
<1>1. /\ UNCHANGED <<phase, owner, mode, call>> /\ flow[f].at \in Waiting
      /\ \A x \in Handler : call[x].for # f
  BY DEF CallLost, sessionVars
<1>2. mode.on
  BY <1>1 DEF Waiting, Served, DocumentKnows
<1>3. CASE Moves(f, "start", NoToken)
  <2>1. "start" \in FlowSites
    BY DEF FlowSites
  <2> QED
    BY <1>1, <1>2, <1>3, <2>1, MoveServed
<1>4. CASE Moves(f, "ready", flow[f].tok)
  <2>1. "ready" \in FlowSites /\ flow[f].tok \in Token \union {NoToken}
    BY DEF FlowSites, Inv, SvcTypeOK
  <2>2. flow[f].tok # NoToken =>
          /\ owner[flow[f].tok] = MyCred(f)
          /\ \A g \in Flow \ {f} : flow[g].tok # flow[f].tok
          /\ \A x \in Handler : call[x].op = "create" => call[x].tok # flow[f].tok
    BY DEF Served, DocumentKnows, Apart
  <2> QED
    BY <1>1, <1>2, <1>4, <2>1, <2>2, MoveServed
<1> QED
  BY <1>3, <1>4 DEF CallLost

LEMMA RespondServed == ASSUME Inv, Served, NEW h \in Handler, Respond(h) PROVE Served'
<1> DEFINE c == call[h]
           f == c.for
           t == c.tok
<1>1. /\ call \in [Handler -> Calls] /\ c \in Calls /\ CallShape(h) /\ CallKnows(h) /\ Serves(h)
      /\ c.at = "answering" /\ up /\ mode.on
  BY DEF Respond, Inv, SvcTypeOK, Calls, Served, Started, CallShape
<1>2. UNCHANGED <<phase, owner, mode>>
  BY DEF Respond, sessionVars
<1>3. call'[h] = Idle /\ \A x \in Handler \ {h} : call'[x] = call[x]
  BY <1>1 DEF Respond
<1>4. CASE UNCHANGED flow
  <2>1. ASSUME NEW x \in Handler PROVE Serves(x)'
    BY <1>2, <1>3, <1>4 DEF Served, Serves, MyCred, Idle
  <2>2. ASSUME NEW g \in Flow PROVE DocumentKnows(g)'
    BY <1>2, <1>4 DEF Served, DocumentKnows, MyCred
  <2>3. OneServer' /\ Apart'
    BY <1>3, <1>4 DEF Served, OneServer, Apart, Idle
  <2> QED
    BY <2>1, <2>2, <2>3 DEF Served
<1>5. CASE f # NoFlow /\ Follows(f, h)
  <2>1. /\ f \in Flow /\ {"ready", "done", "start"} \subseteq FlowSites
        /\ \A x \in Handler \ {h} : call[x].for # f
    BY <1>1, <1>5 DEF Calls, FlowSites, Served, OneServer
  <2>2. CASE c.status = 201
    <3>1. t \in Token /\ c.op = "create" /\ owner[t] = MyCred(f) /\ t # NoToken
      BY <1>1, <1>5, <2>2, SvcAssumption DEF CallShape, CallKnows, Serves
    <3>2. /\ \A g \in Flow : flow[g].tok # t
          /\ \A x \in Handler \ {h} : call[x].op = "create" => call[x].tok # t
      BY <3>1 DEF Served, Apart
    <3>3. Moves(f, "ready", t)
      BY <1>5, <2>2 DEF Follows
    <3> QED
      BY <1>1, <1>2, <1>3, <2>1, <3>1, <3>2, <3>3, MoveServed
  <2>3. CASE c.status = 200
    <3>1. /\ t \in Token /\ c.op = "complete" /\ owner[t] = MyCred(f) /\ t # NoToken
          /\ t = flow[f].tok /\ phase[t] = "signed"
      BY <1>1, <1>5, <2>3, SvcAssumption DEF CallShape, CallKnows, AnswerTrue, Serves
    <3>2. /\ \A g \in Flow \ {f} : flow[g].tok # t
          /\ \A x \in Handler : call[x].op = "create" => call[x].tok # t
      BY <2>1, <3>1 DEF Served, Apart
    <3>3. Moves(f, "done", t)
      BY <1>5, <2>3 DEF Follows
    <3> QED
      BY <1>1, <1>2, <1>3, <2>1, <3>1, <3>2, <3>3, MoveServed
  <2>4. CASE c.status \notin {200, 201}
    <3>1. Moves(f, "start", NoToken)
      BY <1>5, <2>4 DEF Follows
    <3> QED
      BY <1>1, <1>2, <1>3, <2>1, <3>1, MoveServed
  <2> QED
    BY <2>2, <2>3, <2>4
<1> QED
  BY <1>4, <1>5 DEF Respond

LEMMA StepServed == Inv /\ Served /\ [Next]_vars => Served'
<1> SUFFICES ASSUME Inv, Served, [Next]_vars PROVE Served'
  OBVIOUS
<1>1. CASE Start \/ Kill
  BY <1>1, StartServed, KillServed
<1>2. ASSUME NEW h \in Handler, HandlerStep(h) \/ PrepareFails(h) \/ StrayCall(h) PROVE Served'
  BY <1>2, HandlerServed, PreparedServed, RespondServed, StrayServed DEF HandlerStep
<1>3. ASSUME NEW f \in Flow, FlowStep(f) \/ SendCancel(f) \/ GiveUp(f) PROVE Served'
  BY <1>3, SendServed, CallLostServed, GiveUpServed DEF FlowStep
<1>4. CASE JanitorStep \/ \E t \in Token : ExpireFollowed(t)
  BY <1>4, JanitorServed DEF JanitorStep
<1>5. CASE UNCHANGED vars
  BY <1>5, QuietServed DEF vars, sessionVars, Onward, Stays
<1> QED
  BY <1>1, <1>2, <1>3, <1>4, <1>5 DEF Next

(* No tenant gets at another's session, and no document comes back to a     *)
(* backend that did not ask for it, or for another of its documents: the    *)
(* owner check in the engine and one session per document suffice, with     *)
(* any losses, retries, kills and strangers' calls.                         *)
THEOREM TenantsApart == Spec => []TenantsKeepToTheirOwn
<1>1. Inv /\ Served => TenantsKeepToTheirOwn
  <2> SUFFICES ASSUME Inv, Served PROVE TenantsKeepToTheirOwn
    OBVIOUS
  <2>1. ASSUME NEW h \in Handler,
               \/ call[h].at \in {"stored", "finishing", "closing"}
               \/ call[h].status \in {200, 201, 204}
        PROVE  owner[call[h].tok] = call[h].cred
    <3>1. CallShape(h) /\ CallKnows(h)
      BY DEF Inv
    <3> QED
      BY <2>1, <3>1, SvcAssumption DEF CallShape, CallKnows, Custodial
  <2>2. ASSUME NEW f \in Flow, flow[f].at = "done"
        PROVE  /\ phase[flow[f].tok] = "signed" /\ owner[flow[f].tok] = MyCred(f)
               /\ \A g \in Flow \ {f} : flow[g].tok # flow[f].tok
    BY <2>2 DEF Served, DocumentKnows, Apart
  <2> QED
    BY <2>1, <2>2 DEF TenantsKeepToTheirOwn
<1> QED
  BY <1>1, AlwaysInv, InitServed, StepServed, PTL DEF Spec
-----------------------------------------------------------------------------
(* A backend's request is one that the checks before the engine let pass,   *)
(* a create that failed has no session, and no cancellation fails.          *)
Proper(h) ==
  LET c == call[h] IN
  /\ c.for # NoFlow => /\ c.body # "malformed" /\ c.status \notin {400, 401, 403}
                       /\ c.op = "create" => c.body = "chained"
  /\ c.op = "create" /\ c.status \notin {0, 201} => c.tok = NoToken
  /\ c.status = 422 => c.op # "cancel"

(* The sessions that nobody is going to complete, be it that no request has *)
(* lost track of them yet, and the creates that are about to make one.      *)
Attended(t) ==
  \/ \E f \in Flow : flow[f].at = "ready" /\ flow[f].tok = t
  \/ \E h \in Handler : call[h].for # NoFlow /\ call[h].tok = t
Unattended == {t \in Token : phase[t] = "open" /\ ~Attended(t)}
Early == {"received", "preparing"}
Orphaning ==
  {h \in Handler : call[h].op = "create" /\ call[h].for = NoFlow /\ call[h].at \in Early}

(* Each of them has an incident of its own.                                 *)
Paid ==
  /\ \A h \in Handler : Proper(h)
  /\ IsFiniteSet(Unattended) /\ IsFiniteSet(Orphaning)
  /\ Cardinality(Unattended) + Cardinality(Orphaning) <= incidents

LEMMA InitPaid == Init => Paid
<1> SUFFICES ASSUME Init PROVE Paid
  OBVIOUS
<1>1. Unattended = {} /\ Orphaning = {} /\ incidents = 0
  BY DEF Init, SessionInit, Unattended, Orphaning, Idle
<1>2. \A h \in Handler : Proper(h)
  BY DEF Init, Proper, Idle
<1> QED
  BY <1>1, <1>2, FS_EmptySet DEF Paid

(* How a step may change the two sets: not at all; one session or one       *)
(* create more, at the price of an incident; or a session in place of the   *)
(* create that made it.                                                     *)
Changes(U, H, V, G, paid) ==
  \/ V \subseteq U /\ G \subseteq H /\ paid \in {0, 1}
  \/ \E t : V \subseteq U \union {t} /\ G \subseteq H /\ paid = 1
  \/ \E h : V \subseteq U /\ G \subseteq H \union {h} /\ paid = 1
  \/ \E t, h : V \subseteq U \union {t} /\ h \in H /\ G \subseteq H \ {h} /\ paid = 0

LEMMA Balance ==
  ASSUME NEW U, NEW H, NEW V, NEW G, NEW n \in Nat, NEW paid,
         IsFiniteSet(U), IsFiniteSet(H), Cardinality(U) + Cardinality(H) <= n,
         Changes(U, H, V, G, paid)
  PROVE  IsFiniteSet(V) /\ IsFiniteSet(G) /\ Cardinality(V) + Cardinality(G) <= n + paid
<1>1. ASSUME NEW A, IsFiniteSet(A), NEW B \in SUBSET A
      PROVE  IsFiniteSet(B) /\ Cardinality(B) \in Nat /\ Cardinality(A) \in Nat
             /\ Cardinality(B) <= Cardinality(A)
  BY <1>1, FS_Subset, FS_CardinalityType
<1>2. ASSUME NEW A, IsFiniteSet(A), NEW x
      PROVE  /\ IsFiniteSet(A \union {x}) /\ Cardinality(A) \in Nat
             /\ Cardinality(A \union {x}) <= Cardinality(A) + 1
  <2>1. Cardinality(A) \in Nat
    BY <1>2, FS_CardinalityType
  <2>2. /\ IsFiniteSet(A \union {x})
        /\ Cardinality(A \union {x}) = IF x \in A THEN Cardinality(A) ELSE Cardinality(A) + 1
    BY <1>2, FS_AddElement, Zenon
  <2> QED
    BY <2>1, <2>2
<1>3. ASSUME NEW A, IsFiniteSet(A), NEW x \in A
      PROVE  /\ IsFiniteSet(A \ {x}) /\ Cardinality(A) \in Nat
             /\ Cardinality(A \ {x}) = Cardinality(A) - 1
  BY <1>3, FS_RemoveElement, FS_CardinalityType
<1>4. CASE V \subseteq U /\ G \subseteq H /\ paid \in {0, 1}
  <2>1. /\ IsFiniteSet(V) /\ Cardinality(V) \in Nat /\ Cardinality(U) \in Nat
        /\ Cardinality(V) <= Cardinality(U)
    BY <1>1, <1>4
  <2>2. /\ IsFiniteSet(G) /\ Cardinality(G) \in Nat /\ Cardinality(H) \in Nat
        /\ Cardinality(G) <= Cardinality(H)
    BY <1>1, <1>4
  <2> QED
    BY <1>4, <2>1, <2>2
<1>5. CASE \E t : V \subseteq U \union {t} /\ G \subseteq H /\ paid = 1
  <2>1. PICK t : V \subseteq U \union {t} /\ G \subseteq H /\ paid = 1
    BY <1>5
  <2>2. /\ IsFiniteSet(U \union {t}) /\ Cardinality(U) \in Nat
        /\ Cardinality(U \union {t}) <= Cardinality(U) + 1
    BY <1>2
  <2>3. /\ IsFiniteSet(V) /\ Cardinality(V) \in Nat /\ Cardinality(U \union {t}) \in Nat
        /\ Cardinality(V) <= Cardinality(U \union {t})
    BY <1>1, <2>1, <2>2
  <2>4. /\ IsFiniteSet(G) /\ Cardinality(G) \in Nat /\ Cardinality(H) \in Nat
        /\ Cardinality(G) <= Cardinality(H)
    BY <1>1, <2>1
  <2> QED
    BY <2>1, <2>2, <2>3, <2>4
<1>6. CASE \E h : V \subseteq U /\ G \subseteq H \union {h} /\ paid = 1
  <2>1. PICK h : V \subseteq U /\ G \subseteq H \union {h} /\ paid = 1
    BY <1>6
  <2>2. /\ IsFiniteSet(H \union {h}) /\ Cardinality(H) \in Nat
        /\ Cardinality(H \union {h}) <= Cardinality(H) + 1
    BY <1>2
  <2>3. /\ IsFiniteSet(G) /\ Cardinality(G) \in Nat /\ Cardinality(H \union {h}) \in Nat
        /\ Cardinality(G) <= Cardinality(H \union {h})
    BY <1>1, <2>1, <2>2
  <2>4. /\ IsFiniteSet(V) /\ Cardinality(V) \in Nat /\ Cardinality(U) \in Nat
        /\ Cardinality(V) <= Cardinality(U)
    BY <1>1, <2>1
  <2> QED
    BY <2>1, <2>2, <2>3, <2>4
<1>7. CASE \E t, h : V \subseteq U \union {t} /\ h \in H /\ G \subseteq H \ {h} /\ paid = 0
  <2>1. PICK t, h : V \subseteq U \union {t} /\ h \in H /\ G \subseteq H \ {h} /\ paid = 0
    BY <1>7
  <2>2. /\ IsFiniteSet(U \union {t}) /\ Cardinality(U) \in Nat
        /\ Cardinality(U \union {t}) <= Cardinality(U) + 1
    BY <1>2
  <2>3. /\ IsFiniteSet(V) /\ Cardinality(V) \in Nat /\ Cardinality(U \union {t}) \in Nat
        /\ Cardinality(V) <= Cardinality(U \union {t})
    BY <1>1, <2>1, <2>2
  <2>4. /\ IsFiniteSet(H \ {h}) /\ Cardinality(H) \in Nat
        /\ Cardinality(H \ {h}) = Cardinality(H) - 1
    BY <1>3, <2>1
  <2>5. /\ IsFiniteSet(G) /\ Cardinality(G) \in Nat /\ Cardinality(H \ {h}) \in Nat
        /\ Cardinality(G) <= Cardinality(H \ {h})
    BY <1>1, <2>1, <2>4
  <2> QED
    BY <2>1, <2>2, <2>3, <2>4, <2>5
<1> QED
  BY <1>4, <1>5, <1>6, <1>7 DEF Changes

(* A step that keeps the balance.                                           *)
LEMMA Pays ==
  ASSUME Inv, Paid, \A h \in Handler : Proper(h)', NEW paid, incidents' = incidents + paid,
         Changes(Unattended, Orphaning, Unattended', Orphaning', paid)
  PROVE  Paid'
<1>1. incidents \in Nat
  BY DEF Inv, SvcTypeOK
<1> QED
  BY <1>1, Balance DEF Paid

(* A handler goes on, or answers, as a request of a backend may be answered. *)
GoesOn(h) ==
  /\ \A x \in Handler \ {h} : call'[x] = call[x]
  /\ Stays(h) /\ Proper(h)'
  /\ call'[h].at \in Early => call[h].at \in Early

LEMMA AnswersOn ==
  ASSUME call \in [Handler -> Calls], NEW h \in Handler, Proper(h),
         NEW from \in Sites, NEW s \in Statuses, Answers(h, from, s),
         call[h].for # NoFlow => s \notin {400, 401, 403},
         call[h].op = "create" /\ s # 201 => call[h].tok = NoToken,
         s = 422 => call[h].op # "cancel"
  PROVE  GoesOn(h)
<1>1. /\ \A x \in Handler \ {h} : call'[x] = call[x]
      /\ Stays(h) /\ call'[h].at = "answering" /\ call'[h].status = s
  BY Answering
<1> QED
  BY <1>1 DEF Proper, Stays, GoesOn, Early

LEMMA WorksOn ==
  ASSUME call \in [Handler -> Calls], NEW h \in Handler, Proper(h),
         NEW from \in Sites, NEW to \in Sites, Goes(h, from, to),
         to \in Early => from \in Early
  PROVE  GoesOn(h)
<1>1. /\ \A x \in Handler \ {h} : call'[x] = call[x]
      /\ call[h].at = from /\ call'[h] = [call[h] EXCEPT !.at = to]
  BY Going
<1>2. call[h] \in Calls
  OBVIOUS
<1>3. Stays(h) /\ call'[h].at = to /\ call'[h].status = call[h].status
  BY <1>1, <1>2 DEF Stays, Calls
<1> QED
  BY <1>1, <1>3 DEF Proper, Stays, GoesOn

LEMMA HandlerGoesOn ==
  ASSUME Inv, Served, Paid, NEW h \in Handler,
         \/ Refuse(h) \/ Reserve(h) \/ Created(h) \/ PrepareFails(h) \/ NotFound(h)
         \/ CompleteTake(h) \/ CancelTake(h) \/ Signed(h) \/ NotSigned(h) \/ Cancelled(h)
  PROVE  GoesOn(h)
<1>1. call \in [Handler -> Calls] /\ CallShape(h) /\ Proper(h) /\ Serves(h)
  BY DEF Inv, SvcTypeOK, Calls, Paid, Served
<1>2. /\ {"received", "preparing", "stored", "finishing", "closing"} \subseteq Sites
      /\ {200, 201, 204, 400, 401, 403, 404, 422} \subseteq Statuses
  BY DEF Sites, Statuses
<1>3. CASE Refuse(h)
  <2>1. PICK s \in {400, 401, 403} : Answers(h, "received", s)
    BY <1>3 DEF Refuse
  <2>2. call[h].at = "received"
    BY <2>1 DEF Answers
  <2>3. call[h].for = NoFlow
    <3>1. SUFFICES ASSUME call[h].for # NoFlow PROVE FALSE
      OBVIOUS
    <3>2. Authentic(h)
      BY <1>1, <3>1 DEF Authentic, Serves, MyCred
    <3>3. Decodes(h)
      BY <1>1, <3>1 DEF Proper, Decodes
    <3>4. call[h].op = "create" => ValidateCert(call[h].body)
      BY <1>1, <3>1 DEF Proper, ValidateCert
    <3> QED
      BY <1>3, <3>2, <3>3, <3>4 DEF Refuse
  <2>4. call[h].op = "create" => call[h].tok = NoToken
    BY <1>1, <2>2 DEF CallShape
  <2> QED
    BY <1>1, <1>2, <2>1, <2>3, <2>4, AnswersOn
<1>4. CASE Reserve(h)
  <2>1. Answers(h, "received", 422) \/ Goes(h, "received", "preparing")
    BY <1>4 DEF Reserve
  <2>2. call[h].op = "create" /\ call[h].tok = NoToken
    BY <1>1, <1>4, <2>1 DEF CallShape, Answers, Goes, Reserve, Accepted
  <2>3. CASE Answers(h, "received", 422)
    BY <1>1, <1>2, <2>2, <2>3, AnswersOn
  <2>4. CASE Goes(h, "received", "preparing")
    BY <1>1, <1>2, <2>4, WorksOn DEF Early
  <2> QED
    BY <2>1, <2>3, <2>4
<1>5. CASE Created(h)
  <2>1. Answers(h, "stored", 201)
    BY <1>5 DEF Created
  <2> QED
    BY <1>1, <1>2, <2>1, AnswersOn
<1>6. CASE PrepareFails(h)
  <2>1. Answers(h, "preparing", 422)
    BY <1>6 DEF PrepareFails
  <2>2. call[h].op = "create" /\ call[h].tok = NoToken
    BY <1>1, <2>1 DEF CallShape, Answers
  <2> QED
    BY <1>1, <1>2, <2>1, <2>2, AnswersOn
<1>7. CASE NotFound(h)
  <2>1. Answers(h, "received", 404) /\ call[h].op # "create"
    BY <1>7 DEF NotFound, Accepted
  <2> QED
    BY <1>1, <1>2, <2>1, AnswersOn
<1>8. CASE CompleteTake(h)
  <2>1. Goes(h, "received", "finishing")
    BY <1>8 DEF CompleteTake
  <2> QED
    BY <1>1, <1>2, <2>1, WorksOn DEF Early
<1>9. CASE CancelTake(h)
  <2>1. Goes(h, "received", "closing")
    BY <1>9 DEF CancelTake
  <2> QED
    BY <1>1, <1>2, <2>1, WorksOn DEF Early
<1>10. CASE Signed(h)
  <2>1. Answers(h, "finishing", 200) /\ call[h].op # "create"
    BY <1>1, <1>10 DEF Signed, CallShape, Answers
  <2> QED
    BY <1>1, <1>2, <2>1, AnswersOn
<1>11. CASE NotSigned(h)
  <2>1. Answers(h, "finishing", 422) /\ call[h].op = "complete"
    BY <1>1, <1>11 DEF NotSigned, CallShape, Answers
  <2> QED
    BY <1>1, <1>2, <2>1, AnswersOn
<1>12. CASE Cancelled(h)
  <2>1. Answers(h, "closing", 204) /\ call[h].op # "create"
    BY <1>1, <1>12 DEF Cancelled, CallShape, Answers
  <2> QED
    BY <1>1, <1>2, <2>1, AnswersOn
<1> QED
  BY <1>3, <1>4, <1>5, <1>6, <1>7, <1>8, <1>9, <1>10, <1>11, <1>12

(* Such a step opens no session, and nobody turns away from one.            *)
LEMMA HandlerPaid ==
  ASSUME Inv, Served, Paid, NEW h \in Handler,
         \/ Refuse(h) \/ Reserve(h) \/ Created(h) \/ PrepareFails(h) \/ NotFound(h)
         \/ CompleteTake(h) \/ CancelTake(h) \/ Signed(h) \/ NotSigned(h) \/ Cancelled(h)
  PROVE  Paid'
<1>1. phase \in [Token -> Phases] /\ incidents \in Nat /\ \A x \in Handler : Proper(x)
  BY DEF Inv, SvcTypeOK, SessionTypeOK, Paid
<1>2. flow' = flow
  BY DEF Refuse, Reserve, Created, PrepareFails, NotFound, CompleteTake, CancelTake, Signed,
     NotSigned, Cancelled, HandlerFrame
<1>3. \A t \in Token : phase'[t] = "open" => phase[t] = "open"
  <2>1. CASE Refuse(h) \/ Reserve(h) \/ Created(h) \/ PrepareFails(h) \/ NotFound(h)
    BY <2>1 DEF Refuse, Reserve, Created, PrepareFails, NotFound, sessionVars
  <2>2. CASE CompleteTake(h) \/ CancelTake(h)
    BY <1>1, <2>2 DEF CompleteTake, CancelTake, Claim
  <2>3. CASE Signed(h) \/ NotSigned(h) \/ Cancelled(h)
    BY <1>1, <2>3 DEF Signed, NotSigned, Cancelled, Deliver, End
  <2> QED
    BY <2>1, <2>2, <2>3
<1>4. PICK paid \in {0, 1} : incidents' = incidents + paid
  BY <1>1 DEF Refuse, Reserve, Created, PrepareFails, NotFound, CompleteTake, CancelTake, Signed,
     NotSigned, Cancelled, HandlerFrame, Incident
<1>5. GoesOn(h)
  BY HandlerGoesOn
<1>6. \A x \in Handler : Stays(x) /\ Proper(x)' /\ (call'[x].at \in Early => call[x].at \in Early)
  BY <1>1, <1>5 DEF GoesOn, Stays, Proper
<1>7. Unattended' \subseteq Unattended
  BY <1>2, <1>3, <1>6 DEF Unattended, Attended, Stays
<1>8. Orphaning' \subseteq Orphaning
  BY <1>6 DEF Orphaning, Stays, Early
<1> QED
  BY <1>4, <1>6, <1>7, <1>8, Pays DEF Changes

(* Steps that leave the requests and the documents be, and open no session. *)
LEMMA QuietPaid ==
  ASSUME Inv, Paid, UNCHANGED <<call, flow>>, incidents' \in {incidents, incidents + 1},
         \A t \in Token : phase'[t] = "open" => phase[t] = "open"
  PROVE  Paid'
<1>1. Unattended' \subseteq Unattended
  BY DEF Unattended, Attended
<1>2. Orphaning' \subseteq Orphaning
  BY DEF Orphaning
<1>3. \A h \in Handler : Proper(h)'
  BY DEF Paid, Proper
<1>4. \E paid \in {0, 1} : incidents' = incidents + paid
  BY DEF Inv, SvcTypeOK
<1> QED
  BY <1>1, <1>2, <1>3, <1>4, Pays DEF Changes

LEMMA JanitorPaid ==
  ASSUME Inv, Paid, NEW t \in Token, ExpireOrphan(t) \/ ExpireFollowed(t) \/ EndExpired(t)
  PROVE  Paid'
<1>1. UNCHANGED <<call, flow>> /\ incidents' \in {incidents, incidents + 1}
  BY DEF ExpireOrphan, ExpireFollowed, EndExpired, Incident
<1>2. \A u \in Token : phase'[u] = "open" => phase[u] = "open"
  BY DEF ExpireOrphan, ExpireFollowed, EndExpired, Expire, End, Inv, SvcTypeOK, SessionTypeOK
<1> QED
  BY <1>1, <1>2, QuietPaid

LEMMA KillPaid == Inv /\ Paid /\ Kill => Paid'
<1> SUFFICES ASSUME Inv, Paid, Kill PROVE Paid'
  OBVIOUS
<1>1. \A h \in Handler : call'[h] = Idle
  BY DEF Kill
<1>2. Unattended' = {}
  BY DEF Kill, Unattended
<1>3. Orphaning' = {}
  BY <1>1 DEF Orphaning, Idle
<1>4. \A h \in Handler : Proper(h)'
  BY <1>1 DEF Proper, Idle
<1>5. incidents' = incidents + 1
  BY DEF Kill, Incident
<1> QED
  BY <1>2, <1>3, <1>4, <1>5, Pays DEF Changes

(* A session is opened for a backend that waits for it, or by a create that *)
(* nobody waits for.                                                        *)
LEMMA PreparedPaid ==
  ASSUME Inv, Served, Paid, NEW h \in Handler, NEW u \in Token, Prepared(h, u)
  PROVE  Paid'
<1>1. /\ call \in [Handler -> Calls] /\ CallShape(h) /\ call[h].at = "preparing"
      /\ phase \in [Token -> Phases] /\ \A x \in Handler : Proper(x)
  BY DEF Inv, SvcTypeOK, SessionTypeOK, Calls, Paid, Prepared
<1>2. /\ \A x \in Handler \ {h} : call'[x] = call[x]
      /\ call'[h] = [call[h] EXCEPT !.at = "stored", !.tok = u]
  BY <1>1 DEF Prepared
<1>3. /\ call[h].op = "create" /\ call[h].tok = NoToken /\ call[h].status = 0
      /\ call'[h].op = "create" /\ call'[h].tok = u /\ call'[h].at = "stored"
      /\ call'[h].for = call[h].for /\ call'[h].body = call[h].body /\ call'[h].status = 0
  BY <1>1, <1>2 DEF CallShape, Calls
<1>4. /\ flow' = flow /\ incidents' = incidents + 0
      /\ \A t \in Token \ {u} : phase'[t] = phase[t]
  BY <1>1 DEF Prepared, HandlerFrame, Open, Inv, SvcTypeOK
<1>5. \A x \in Handler : Proper(x)'
  <2>1. Proper(h)'
    BY <1>1, <1>3 DEF Proper
  <2>2. ASSUME NEW x \in Handler \ {h} PROVE Proper(x)'
    BY <1>1, <1>2 DEF Proper
  <2> QED
    BY <2>1, <2>2
<1>6. \A t \in Token \ {u} : Attended(t) => Attended(t)'
  BY <1>2, <1>3, <1>4, SvcAssumption DEF Attended
<1>7. Orphaning' \subseteq Orphaning \ {h}
  BY <1>2, <1>3 DEF Orphaning, Early
<1>8. CASE call[h].for # NoFlow
  <2>1. Attended(u)'
    BY <1>3, <1>8 DEF Attended
  <2>2. Unattended' \subseteq Unattended
    BY <1>4, <1>6, <2>1 DEF Unattended
  <2>3. Changes(Unattended, Orphaning, Unattended', Orphaning', 0)
    BY <1>7, <2>2 DEF Changes
  <2> QED
    BY <1>4, <1>5, <2>3, Pays
<1>9. CASE call[h].for = NoFlow
  <2>1. h \in Orphaning
    BY <1>1, <1>3, <1>9 DEF Orphaning, Early
  <2>2. Unattended' \subseteq Unattended \union {u}
    BY <1>4, <1>6 DEF Unattended
  <2>3. Changes(Unattended, Orphaning, Unattended', Orphaning', 0)
    BY <1>7, <2>1, <2>2 DEF Changes
  <2> QED
    BY <1>4, <1>5, <2>3, Pays
<1> QED
  BY <1>8, <1>9

(* A request that arrives takes a handler that had none.                    *)
LEMMA ArrivesPaid ==
  ASSUME Inv, Paid, NEW h \in Handler, NEW r \in Requests, NEW cred, NEW f,
         Arrives(h, r, cred, f),
         f # NoFlow => r.body # "malformed" /\ (r.op = "create" => r.body = "chained")
  PROVE  /\ \A x \in Handler : Proper(x)'
         /\ \A x \in Handler \ {h} : call'[x] = call[x]
         /\ call[h].for = NoFlow /\ call'[h].for = f /\ call'[h].tok = r.tok
<1>1. call \in [Handler -> Calls] /\ call[h] = Idle
  BY DEF Inv, SvcTypeOK, Calls, Arrives
<1>2. /\ \A x \in Handler \ {h} : call'[x] = call[x]
      /\ call'[h] = [at |-> "received", op |-> r.op, body |-> r.body, tok |-> r.tok,
                     cred |-> cred, for |-> f, status |-> 0]
  BY <1>1 DEF Arrives
<1>3. Proper(h)'
  BY <1>2 DEF Proper
<1>4. call[h].for = NoFlow
  BY <1>1 DEF Idle
<1> QED
  BY <1>2, <1>3, <1>4 DEF Paid, Proper

LEMMA StrayPaid == ASSUME Inv, Paid, NEW h \in Handler, StrayCall(h) PROVE Paid'
<1>1. PICK r \in Requests, cred \in Creds : Arrives(h, r, cred, NoFlow)
  BY DEF StrayCall
<1>2. /\ \A x \in Handler : Proper(x)'
      /\ \A x \in Handler \ {h} : call'[x] = call[x]
      /\ call[h].for = NoFlow /\ call'[h].for = NoFlow
  BY <1>1, ArrivesPaid
<1>3. UNCHANGED <<phase, flow>> /\ incidents' = incidents + 1
  BY DEF StrayCall, Incident, sessionVars
<1>4. Unattended' \subseteq Unattended
  BY <1>2, <1>3 DEF Unattended, Attended
<1>5. Orphaning' \subseteq Orphaning \union {h}
  BY <1>2 DEF Orphaning
<1> QED
  BY <1>2, <1>3, <1>4, <1>5, Pays DEF Changes

(* A request that is sent but lost leaves its session without anybody.      *)
LEMMA SendPaid ==
  ASSUME Inv, Served, Paid, NEW f \in Flow, SendCreate(f) \/ SendSignature(f) \/ SendCancel(f)
  PROVE  Paid'
<1>1. PICK site \in Waiting, r \in Requests :
        /\ Send(f, site, r)
        /\ r.body # "malformed" /\ (r.op = "create" => r.body = "chained")
        /\ \/ flow[f].at = "start" /\ r.op = "create"
           \/ flow[f].at = "ready" /\ r.op # "create" /\ r.tok = flow[f].tok
  <2>1. flow[f].at = "ready" => flow[f].tok \in Token
    BY DEF Inv, FlowKnows
  <2>2. CASE SendCreate(f)
    <3>1. [op |-> "create", body |-> "chained", tok |-> NoToken] \in Requests
      BY DEF Requests, Certs
    <3> QED
      BY <2>2, <3>1 DEF SendCreate, Waiting
  <2>3. CASE SendSignature(f)
    <3>1. PICK body \in {"verifies", "bad"} :
            Send(f, "completing", [op |-> "complete", body |-> body, tok |-> flow[f].tok])
      BY <2>3 DEF SendSignature
    <3>2. [op |-> "complete", body |-> body, tok |-> flow[f].tok] \in Requests
      BY <2>1, <2>3 DEF SendSignature, Requests
    <3> QED
      BY <2>3, <3>1, <3>2 DEF SendSignature, Waiting
  <2>4. CASE SendCancel(f)
    <3>1. [op |-> "cancel", body |-> "none", tok |-> flow[f].tok] \in Requests
      BY <2>1, <2>4 DEF SendCancel, Requests
    <3> QED
      BY <2>4, <3>1 DEF SendCancel, Waiting
  <2> QED
    BY <2>2, <2>3, <2>4
<1>2. /\ phase' = phase /\ \A g \in Flow \ {f} : flow'[g] = flow[g]
      /\ incidents \in Nat /\ f # NoFlow /\ \A h \in Handler : Proper(h)
  BY <1>1, SvcAssumption DEF Send, Moves, sessionVars, Inv, SvcTypeOK, Paid
<1>3. CASE \E h \in Handler : Arrives(h, r, MyCred(f), f)
  <2>1. PICK h \in Handler : Arrives(h, r, MyCred(f), f)
    BY <1>3
  <2>2. /\ \A x \in Handler : Proper(x)'
        /\ \A x \in Handler \ {h} : call'[x] = call[x]
        /\ call[h].for = NoFlow /\ call'[h].for = f /\ call'[h].tok = r.tok
    BY <1>1, <2>1, ArrivesPaid
  <2>3. PICK paid \in {0, 1} : incidents' = incidents + paid
    <3>1. up' = up /\ call' # call
      BY <1>1, <1>2, <2>2 DEF Send
    <3> QED
      BY <1>1, <1>2, <3>1 DEF Send, Incident
  <2>4. \A t \in Token : Attended(t) => Attended(t)'
    BY <1>1, <1>2, <2>2 DEF Attended
  <2>5. Unattended' \subseteq Unattended
    BY <1>2, <2>4 DEF Unattended
  <2>6. Orphaning' \subseteq Orphaning
    BY <1>2, <2>2 DEF Orphaning
  <2> QED
    BY <2>2, <2>3, <2>5, <2>6, Pays DEF Changes
<1>4. CASE Incident /\ UNCHANGED call
  <2>1. incidents' = incidents + 1 /\ \A h \in Handler : Proper(h)'
    BY <1>2, <1>4 DEF Incident, Proper
  <2>2. \A t \in Token \ {flow[f].tok} : Attended(t) => Attended(t)'
    BY <1>2, <1>4 DEF Attended
  <2>3. Unattended' \subseteq Unattended \union {flow[f].tok}
    BY <1>2, <2>2 DEF Unattended
  <2>4. Orphaning' \subseteq Orphaning
    BY <1>4 DEF Orphaning
  <2> QED
    BY <2>1, <2>3, <2>4, Pays DEF Changes
<1> QED
  BY <1>1, <1>3, <1>4 DEF Send

(* A backend gives up: its create may go on to open a session, any other    *)
(* request has one.                                                         *)
LEMMA GiveUpPaid == ASSUME Inv, Served, Paid, NEW f \in Flow, GiveUp(f) PROVE Paid'
<1>1. PICK h \in Handler : call' = [call EXCEPT ![h].for = NoFlow] /\ call[h].for = f
  BY DEF GiveUp
<1>2. /\ call \in [Handler -> Calls] /\ CallShape(h) /\ UNCHANGED <<phase, flow>>
      /\ incidents' = incidents + 1 /\ \A x \in Handler : Proper(x)
  BY DEF GiveUp, Incident, sessionVars, Inv, SvcTypeOK, Calls, Paid
<1>3. /\ \A x \in Handler \ {h} : call'[x] = call[x]
      /\ call'[h] = [call[h] EXCEPT !.for = NoFlow]
  BY <1>1, <1>2
<1>4. /\ call'[h].at = call[h].at /\ call'[h].op = call[h].op /\ call'[h].tok = call[h].tok
      /\ call'[h].status = call[h].status /\ call'[h].for = NoFlow
  BY <1>2, <1>3 DEF Calls
<1>5. \A x \in Handler : Proper(x)'
  <2>1. Proper(h)'
    BY <1>2, <1>4 DEF Proper
  <2>2. ASSUME NEW x \in Handler \ {h} PROVE Proper(x)'
    BY <1>2, <1>3 DEF Proper
  <2> QED
    BY <2>1, <2>2
<1>6. \A t \in Token \ {call[h].tok} : Attended(t) => Attended(t)'
  BY <1>2, <1>3 DEF Attended
<1>7. CASE call[h].op = "create" /\ call[h].at \in Early
  <2>1. call[h].tok \notin Token
    BY <1>2, <1>7, SvcAssumption DEF CallShape, Early
  <2>2. Unattended' \subseteq Unattended
    BY <1>2, <1>6, <2>1 DEF Unattended
  <2>3. Orphaning' \subseteq Orphaning \union {h}
    BY <1>3 DEF Orphaning
  <2> QED
    BY <1>2, <1>5, <2>2, <2>3, Pays DEF Changes
<1>8. CASE ~(call[h].op = "create" /\ call[h].at \in Early)
  <2>1. Unattended' \subseteq Unattended \union {call[h].tok}
    BY <1>2, <1>6 DEF Unattended
  <2>2. Orphaning' \subseteq Orphaning
    BY <1>3, <1>4, <1>8 DEF Orphaning, Early
  <2> QED
    BY <1>2, <1>5, <2>1, <2>2, Pays DEF Changes
<1> QED
  BY <1>7, <1>8

(* Who was not answered and starts over had nobody working for it any more. *)
LEMMA CallLostPaid == ASSUME Inv, Paid, NEW f \in Flow, CallLost(f) PROVE Paid'
<1>1. /\ UNCHANGED <<phase, call>> /\ incidents' = incidents + 0 /\ flow[f].at # "ready"
      /\ \A g \in Flow \ {f} : flow'[g] = flow[g]
  BY DEF CallLost, Moves, sessionVars, Waiting, Inv, SvcTypeOK
<1>2. Unattended' \subseteq Unattended
  BY <1>1 DEF Unattended, Attended
<1>3. Orphaning' \subseteq Orphaning
  BY <1>1 DEF Orphaning
<1>4. \A h \in Handler : Proper(h)'
  BY <1>1 DEF Paid, Proper
<1>5. Changes(Unattended, Orphaning, Unattended', Orphaning', 0)
  BY <1>2, <1>3 DEF Changes
<1> QED
  BY <1>1, <1>4, <1>5, Pays

(* Whoever hears that a call failed has no session left to complete.        *)
LEMMA RespondPaid == ASSUME Inv, Served, Paid, NEW h \in Handler, Respond(h) PROVE Paid'
<1> DEFINE c == call[h]
           f == c.for
<1> PICK t : t = c.tok
  OBVIOUS
<1>1. /\ call \in [Handler -> Calls] /\ c \in Calls /\ CallShape(h) /\ CallKnows(h) /\ Serves(h)
      /\ Proper(h) /\ c.at = "answering" /\ phase' = phase /\ incidents \in Nat
      /\ \A x \in Handler : Proper(x)
  BY DEF Respond, Inv, SvcTypeOK, Calls, Served, Paid, sessionVars
<1>2. call'[h] = Idle /\ \A x \in Handler \ {h} : call'[x] = call[x]
  BY <1>1 DEF Respond
<1>3. \A x \in Handler : Proper(x)'
  <2>1. Proper(h)'
    BY <1>2 DEF Proper, Idle
  <2>2. ASSUME NEW x \in Handler \ {h} PROVE Proper(x)'
    BY <1>1, <1>2 DEF Proper
  <2> QED
    BY <2>1, <2>2
<1>4. Orphaning' \subseteq Orphaning
  BY <1>2 DEF Orphaning, Idle
<1>5. CASE f # NoFlow /\ Follows(f, h) /\ UNCHANGED incidents
  <2>1. /\ f \in Flow /\ flow[f].at # "ready" /\ \A g \in Flow \ {f} : flow'[g] = flow[g]
    BY <1>1, <1>5 DEF Calls, CallShape, Serves, Follows, Moves, Inv, SvcTypeOK
  <2>2. \A u \in Token \ {t} : Attended(u) => Attended(u)'
    BY <1>2, <2>1 DEF Attended
  <2>3. t \in Token /\ phase[t] = "open" => Attended(t)'
    <3>1. SUFFICES ASSUME t \in Token, phase[t] = "open" PROVE Attended(t)'
      OBVIOUS
    <3>2. t # NoToken
      BY <3>1, SvcAssumption
    <3>3. c.status \in Statuses \ {0, 400, 401, 403}
      BY <1>1, <1>5 DEF Calls, CallShape, Proper
    <3>4. c.status = 201
      <4>1. c.status \notin {200, 204}
        BY <1>1, <3>1 DEF CallKnows, AnswerTrue
      <4>2. c.status # 404
        <5>1. SUFFICES ASSUME c.status = 404 PROVE FALSE
          OBVIOUS
        <5>2. c.op \in {"complete", "cancel"} /\ owner[t] # c.cred
          BY <1>1, <3>1, <5>1 DEF CallShape, CallKnows, AnswerTrue
        <5>3. flow[f].tok = t /\ c.cred = MyCred(f)
          BY <1>1, <1>5, <5>2 DEF Serves
        <5>4. owner[t] = MyCred(f)
          BY <2>1, <3>2, <5>3 DEF Served, DocumentKnows
        <5> QED
          BY <5>2, <5>3, <5>4
      <4>3. c.status # 422
        <5>1. SUFFICES ASSUME c.status = 422 PROVE FALSE
          OBVIOUS
        <5>2. c.op # "create"
          BY <1>1, <3>2, <5>1 DEF Proper
        <5>3. c.op # "complete"
          BY <1>1, <3>1, <5>1 DEF CallKnows, AnswerTrue
        <5> QED
          BY <1>1, <5>1, <5>2, <5>3 DEF Calls, CallShape, Proper
      <4> QED
        BY <3>3, <4>1, <4>2, <4>3 DEF Statuses
    <3>5. flow'[f] = [at |-> "ready", tok |-> t]
      BY <1>5, <2>1, <3>4 DEF Follows, Moves, Inv, SvcTypeOK
    <3> QED
      BY <2>1, <3>5 DEF Attended
  <2>4. Unattended' \subseteq Unattended
    BY <1>1, <2>2, <2>3 DEF Unattended
  <2>5. Changes(Unattended, Orphaning, Unattended', Orphaning', 0) /\ incidents' = incidents + 0
    BY <1>1, <1>4, <1>5, <2>4 DEF Changes
  <2> QED
    BY <1>3, <2>5, Pays
<1>6. CASE Incident /\ UNCHANGED flow
  <2>1. Unattended' \subseteq Unattended \union {t}
    BY <1>1, <1>2, <1>6 DEF Unattended, Attended
  <2> QED
    BY <1>3, <1>4, <1>6, <2>1, Pays DEF Changes, Incident
<1>7. CASE f = NoFlow /\ UNCHANGED <<flow, incidents>>
  <2>1. Unattended' \subseteq Unattended
    BY <1>1, <1>2, <1>7 DEF Unattended, Attended
  <2>2. Changes(Unattended, Orphaning, Unattended', Orphaning', 0) /\ incidents' = incidents + 0
    BY <1>1, <1>4, <1>7, <2>1 DEF Changes
  <2> QED
    BY <1>3, <2>2, Pays
<1> QED
  BY <1>5, <1>6, <1>7 DEF Respond

LEMMA StepPaid == Inv /\ Served /\ Paid /\ [Next]_vars => Paid'
<1> SUFFICES ASSUME Inv, Served, Paid, [Next]_vars PROVE Paid'
  OBVIOUS
<1>1. CASE Start
  BY <1>1, QuietPaid DEF Start, sessionVars
<1>2. CASE Kill
  BY <1>2, KillPaid
<1>3. ASSUME NEW h \in Handler, HandlerStep(h) \/ PrepareFails(h) \/ StrayCall(h) PROVE Paid'
  BY <1>3, HandlerPaid, PreparedPaid, RespondPaid, StrayPaid DEF HandlerStep
<1>4. ASSUME NEW f \in Flow, FlowStep(f) \/ SendCancel(f) \/ GiveUp(f) PROVE Paid'
  BY <1>4, SendPaid, CallLostPaid, GiveUpPaid DEF FlowStep
<1>5. CASE JanitorStep \/ \E t \in Token : ExpireFollowed(t)
  BY <1>5, JanitorPaid DEF JanitorStep
<1>6. CASE UNCHANGED vars
  BY <1>6, QuietPaid DEF vars, sessionVars
<1> QED
  BY <1>1, <1>2, <1>3, <1>4, <1>5, <1>6 DEF Next

(* Whatever gets lost, gives up, retries or is killed: the sessions that    *)
(* take a place in a tenant's quota with nobody to complete them are never  *)
(* more than the incidents that there were (main.go: handleCreate).         *)
THEOREM QuotaLeaksArePaid == Spec => []LeaksPaidFor
<1>1. Inv /\ Served /\ Paid => LeaksPaidFor
  <2> SUFFICES ASSUME Inv, Served, Paid PROVE LeaksPaidFor
    OBVIOUS
  <2>1. ASSUME NEW t \in Orphans PROVE t \in Unattended
    <3>1. ASSUME NEW h \in Handler, call[h].for # NoFlow, call[h].tok = t PROVE Followed(t)
      <4>1. /\ Serves(h) /\ CallShape(h) /\ call[h].for \in Flow
            /\ call[h].op \in {"none", "create", "complete", "cancel"}
            /\ call[h].at = "idle" \/ call[h].op # "none"
        BY <3>1 DEF Served, Inv, CallShape, SvcTypeOK
      <4> QED
        BY <3>1, <4>1 DEF Serves, CallShape, Followed
    <3> QED
      BY <3>1 DEF Orphans, Unattended, Attended, Followed
  <2>2. /\ Cardinality(Orphans) <= Cardinality(Unattended) /\ Cardinality(Orphans) \in Nat
        /\ Cardinality(Unattended) \in Nat /\ Cardinality(Orphaning) \in Nat
    BY <2>1, FS_Subset, FS_CardinalityType DEF Paid
  <2> QED
    BY <2>2 DEF Paid, LeaksPaidFor, Inv, SvcTypeOK
<1> QED
  BY <1>1, AlwaysInv, InitServed, StepServed, InitPaid, StepPaid, PTL DEF Spec
=============================================================================
