------------------------------ MODULE PdfsignSvc ------------------------------
(***************************************************************************)
(* The multi-tenant signing service, cmd/pdfsign-svc/main.go: its start-up *)
(* checks, the three request handlers, and what the backends of other      *)
(* sites (docs/integration-guide.md) make of the answers, when answers get *)
(* lost, clients give up and the process is killed.  The engine is the one *)
(* SigningSessions promises.  Sessions are owned by the tenant.            *)
(***************************************************************************)
EXTENDS SigningSessions

CONSTANTS
  Tenant,    \* common names of the client certificates -client-ca issued
  Dev,       \* the identity behind the bearer token of -dev
  Handler,   \* requests in progress at one time
  Flow,      \* documents the backends want signed
  TenantOf,  \* the backend each of them belongs to
  NoFlow, NoToken,
  MaxEvents  \* bound on the documents, and all that does not go according to
             \* plan with them, together

ASSUME SvcAssumption ==
  /\ Dev \notin Tenant /\ Owner = Tenant \union {Dev}
  /\ TenantOf \in [Flow -> Tenant]
  /\ NoFlow \notin Flow /\ NoToken \notin Token
  /\ MaxPerOwner \in Nat /\ MaxEvents \in Nat

VARIABLES
  mode,      \* how the service was started: with -dev?, with -sign-ca?
  up,        \* does the process run?
  call,      \* the request each handler works on
  flow,      \* how far each backend has come with its document
  cert,      \* the certificate each session was prepared with
  incidents  \* how much went wrong so far

vars == <<sessionVars, mode, up, call, flow, cert, incidents>>

Certs  == {"chained", "foreign", "nosig"}       \* kinds of signer certificates
Bodies == Certs \union {"verifies", "bad", "malformed", "none"}
Creds  == Owner \union {NoOwner}
Requests ==
  [op : {"create"}, body : Certs \union {"malformed"}, tok : {NoToken}]
  \union [op : {"complete"}, body : {"verifies", "bad", "malformed"}, tok : Token]
  \union [op : {"cancel"}, body : {"none"}, tok : Token]

Statuses == {0, 200, 201, 204, 400, 401, 403, 404, 422}
Sites == {"idle", "received", "preparing", "stored", "finishing", "closing", "answering"}
Idle == [at |-> "idle", op |-> "none", body |-> "none", tok |-> NoToken, cred |-> NoOwner,
         for |-> NoFlow, status |-> 0]

FlowSites == {"absent", "start", "creating", "ready", "completing", "cancelling", "done"}
Waiting == {"creating", "completing", "cancelling"}
NoCert == "none"

SvcTypeOK ==
  /\ SessionTypeOK
  /\ mode \in [on : BOOLEAN, dev : BOOLEAN, roots : BOOLEAN]
  /\ up \in BOOLEAN
  /\ call \in [Handler -> [at : Sites, op : {"none", "create", "complete", "cancel"},
                           body : Bodies, tok : Token \union {NoToken}, cred : Creds,
                           for : Flow \union {NoFlow}, status : Statuses]]
  /\ flow \in [Flow -> [at : FlowSites, tok : Token \union {NoToken}]]
  /\ cert \in [Token -> Certs \union {NoCert}]
  /\ incidents \in Nat

(* The documents a behaviour is about; one less leaves room for an incident *)
(* more.                                                                    *)
Wanted == {f \in Flow : flow[f].at # "absent"}

Init ==
  /\ SessionInit
  /\ mode = [on |-> FALSE, dev |-> FALSE, roots |-> FALSE] /\ up = FALSE
  /\ call = [h \in Handler |-> Idle]
  /\ flow \in [Flow -> [at : {"start", "absent"}, tok : {NoToken}]]
  /\ Wanted # {}
  /\ cert = [t \in Token |-> NoCert]
  /\ incidents = 0

Incident ==
  /\ Cardinality(Wanted) + incidents < MaxEvents
  /\ incidents' = incidents + 1

-----------------------------------------------------------------------------
(* Start-up.                                                               *)

(* A file named on the command line is absent, or names no certificate, or  *)
(* is good.                                                                 *)
Files == {"absent", "broken", "good"}
Flags == [dev : BOOLEAN, tls : BOOLEAN, clientCA : Files, signCA : Files,
          tsa : {"none", "https", "http", "other"}, tsaInsecure : BOOLEAN]

ValidTSA(f) == \/ f.tsa \in {"none", "https"}
               \/ f.tsa = "http" /\ f.tsaInsecure

(* The checks between flag.Parse and ListenAndServe; the service refuses to *)
(* start unless all of them pass.                                           *)
AcceptsNoSignCA(f) ==  \* mutant: production does not insist on -sign-ca
  /\ ValidTSA(f)
  /\ IF f.dev THEN f.clientCA = "absent" ELSE f.tls /\ f.clientCA = "good"
  /\ f.signCA # "broken"
Accepts(f) ==
  /\ ValidTSA(f)
  /\ IF f.dev THEN f.clientCA = "absent"
              ELSE f.tls /\ f.clientCA = "good" /\ f.signCA # "absent"
  /\ f.signCA # "broken"

(* The first start settles the flags; whoever restarts the process, a       *)
(* container runtime for instance, uses the same ones.                      *)
Start ==
  /\ ~up /\ up' = TRUE
  /\ \/ mode.on /\ UNCHANGED mode
     \/ /\ ~mode.on
        /\ \E f \in Flags :
             /\ Accepts(f)
             /\ mode' = [on |-> TRUE, dev |-> f.dev, roots |-> f.signCA = "good"]
  /\ UNCHANGED <<sessionVars, call, flow, cert, incidents>>

(* The process is killed.  Its sessions exist in memory only.               *)
Kill ==
  /\ up /\ up' = FALSE
  /\ Incident
  /\ phase' = [t \in Token |-> IF phase[t] \in {"open", "claimed"} THEN "ended" ELSE phase[t]]
  /\ call' = [h \in Handler |-> Idle]
  /\ UNCHANGED <<owner, claim, mode, flow, cert>>

-----------------------------------------------------------------------------
(* Requests and answers.                                                   *)

(* tenant(): mTLS has verified the client certificate before a handler      *)
(* runs, and its common name is the tenant; with -dev whoever knows the     *)
(* bearer token is "dev".                                                   *)
Reaches(cred) == mode.dev \/ cred \in Tenant
AnybodyAuthentic(h) == TRUE  \* mutant: the bearer token is not compared
Authentic(h) == ~mode.dev \/ call[h].cred = Dev
Arrives(h, r, cred, f) ==
  /\ up /\ call[h] = Idle
  /\ Reaches(cred)
  /\ call' = [call EXCEPT ![h] = [at |-> "received", op |-> r.op, body |-> r.body,
                                  tok |-> r.tok, cred |-> cred, for |-> f, status |-> 0]]

Goes(h, from, to) == call[h].at = from /\ call' = [call EXCEPT ![h].at = to]
Answers(h, from, status) ==
  /\ call[h].at = from
  /\ call' = [call EXCEPT ![h].at = "answering", ![h].status = status]

HandlerFrame == UNCHANGED <<mode, up, flow, incidents>>

(* ValidateCert.                                                            *)
ValidateCert(kind) == kind = "chained" \/ (kind = "foreign" /\ ~mode.roots)

(* The checks that come before the engine, in their order.                  *)
Decodes(h) == call[h].op = "cancel" \/ call[h].body # "malformed"
Accepted(h, op) ==
  /\ call[h].op = op
  /\ Authentic(h) /\ Decodes(h)
  /\ op = "create" => ValidateCert(call[h].body)

Refuse(h) ==
  /\ \/ ~Authentic(h) /\ Answers(h, "received", 401)
     \/ Authentic(h) /\ ~Decodes(h) /\ Answers(h, "received", 400)
     \/ /\ Authentic(h) /\ Decodes(h)
        /\ call[h].op = "create" /\ ~ValidateCert(call[h].body)
        /\ Answers(h, "received", 403)
  /\ UNCHANGED <<sessionVars, cert>> /\ HandlerFrame

-----------------------------------------------------------------------------
(* POST /v1/signing-sessions.                                              *)

(* Sessions that count against the quota of an owner: stored ones and those *)
(* of the Prepare calls in progress.                                        *)
Reserved(o) == {h \in Handler : call[h].at \in {"preparing", "stored"} /\ call[h].cred = o}
QuotaOfAllTimes(o) ==  \* mutant: sessions taken or expired stay in the map
  MaxPerOwner > 0 /\ Cardinality({t \in Token : owner[t] = o}) >= MaxPerOwner
QuotaReached(o) ==
  MaxPerOwner > 0 /\ Cardinality(OpenFor(o)) + Cardinality(Reserved(o)) >= MaxPerOwner

Reserve(h) ==
  /\ Accepted(h, "create")
  /\ IF QuotaReached(call[h].cred) THEN Answers(h, "received", 422)
                                   ELSE Goes(h, "received", "preparing")
  /\ UNCHANGED <<sessionVars, cert>> /\ HandlerFrame

(* Prepare stores the session, and then gives its reservation back.  Which  *)
(* of the tokens never used newToken comes up with makes no difference.     *)
Prepared(h, t) ==
  /\ call[h].at = "preparing"
  /\ phase[t] = "fresh" /\ t = CHOOSE u \in Token : phase[u] = "fresh"
  /\ Open(t, call[h].cred)
  /\ call' = [call EXCEPT ![h].at = "stored", ![h].tok = t]
  /\ cert' = [cert EXCEPT ![t] = call[h].body]
  /\ HandlerFrame

CreatedThenChecked(h) ==  \* mutant: the quota is looked at when the session is stored
  /\ Answers(h, "stored", IF QuotaReached(call[h].cred) THEN 422 ELSE 201)
  /\ UNCHANGED <<sessionVars, cert>> /\ HandlerFrame
Created(h) ==
  /\ Answers(h, "stored", 201)
  /\ UNCHANGED <<sessionVars, cert>> /\ HandlerFrame

PrepareFails(h) ==
  /\ Answers(h, "preparing", 422)
  /\ Incident
  /\ UNCHANGED <<sessionVars, mode, up, flow, cert>>

-----------------------------------------------------------------------------
(* POST /v1/signing-sessions/{id}/signature and DELETE.                    *)

OwnerOf(h) == owner[call[h].tok]  \* mutant: takes whoever opened the session for the caller
Actor(h) == call[h].cred
Entitled(h) == phase[call[h].tok] = "open" /\ owner[call[h].tok] = Actor(h)

CompleteTake(h) ==
  /\ Accepted(h, "complete") /\ Entitled(h)
  /\ Claim(call[h].tok, IF call[h].body = "verifies" THEN "finish" ELSE "reject", Actor(h))
  /\ Goes(h, "received", "finishing")
  /\ UNCHANGED cert /\ HandlerFrame

CancelTake(h) ==
  /\ Accepted(h, "cancel") /\ Entitled(h)
  /\ Claim(call[h].tok, "cancel", Actor(h))
  /\ Goes(h, "received", "closing")
  /\ UNCHANGED cert /\ HandlerFrame

NotFound(h) ==
  /\ \E op \in {"complete", "cancel"} : Accepted(h, op)
  /\ ~Entitled(h)
  /\ Answers(h, "received", 404)
  /\ UNCHANGED <<sessionVars, cert>> /\ HandlerFrame

(* Complete returns the document ...                                        *)
Signed(h) ==
  /\ Answers(h, "finishing", 200)
  /\ Deliver(call[h].tok)
  /\ UNCHANGED cert /\ HandlerFrame

(* ... or an error: the signature did not verify, or was not embedded.      *)
KeepsSession(h) ==  \* mutant: a bad signature is refused, the session put back
  /\ Answers(h, "finishing", 422)
  /\ phase' = [phase EXCEPT ![call[h].tok] = "open"]
  /\ UNCHANGED <<owner, claim, mode, up, flow, cert, incidents>>
NotSigned(h) ==
  /\ Answers(h, "finishing", 422)
  /\ End(call[h].tok)
  /\ IF claim[call[h].tok].why = "finish" THEN Incident ELSE UNCHANGED incidents
  /\ UNCHANGED <<mode, up, flow, cert>>

Cancelled(h) ==
  /\ Answers(h, "closing", 204)
  /\ End(call[h].tok)
  /\ UNCHANGED cert /\ HandlerFrame

-----------------------------------------------------------------------------
(* The backends.                                                           *)

MyCred(f) == IF mode.dev THEN Dev ELSE TenantOf[f]
Moves(f, to, t) == flow' = [flow EXCEPT ![f] = [at |-> to, tok |-> t]]

(* A request is sent.  It arrives at a handler, or gets lost on its way.    *)
Send(f, site, r) ==
  /\ Moves(f, site, flow[f].tok)
  /\ UNCHANGED <<sessionVars, mode, up, cert>>
  /\ \/ /\ \E h \in Handler : Arrives(h, r, MyCred(f), f)
        /\ IF r.op = "cancel" \/ r.body = "bad" THEN Incident ELSE UNCHANGED incidents
     \/ up /\ Incident /\ UNCHANGED call

SendCreate(f) ==
  /\ flow[f].at = "start"
  /\ Send(f, "creating", [op |-> "create", body |-> "chained", tok |-> NoToken])

(* The user signs, the card's signature may be broken, or the user declines. *)
SendSignature(f) ==
  /\ flow[f].at = "ready"
  /\ \E body \in {"verifies", "bad"} :
       Send(f, "completing", [op |-> "complete", body |-> body, tok |-> flow[f].tok])

SendCancel(f) ==
  /\ flow[f].at = "ready"
  /\ Send(f, "cancelling", [op |-> "cancel", body |-> "none", tok |-> flow[f].tok])

(* What the status table of the integration guide says to do: a session     *)
(* not found, or that failed, means to restart.                             *)
Follows(f, h) ==
  CASE call[h].status = 201 -> Moves(f, "ready", call[h].tok)
    [] call[h].status = 200 -> Moves(f, "done", call[h].tok)
    [] OTHER                -> Moves(f, "start", NoToken)

(* The handler ends.  Its answer reaches the backend, if that still waits,  *)
(* or is cut off: the write timeout of the server (90 s from the header of  *)
(* the request) is shorter than a slow upload (60 s) and the waits of the   *)
(* engine (30 s each) together; and networks fail.                          *)
Respond(h) ==
  /\ call[h].at = "answering"
  /\ call' = [call EXCEPT ![h] = Idle]
  /\ \/ call[h].for # NoFlow /\ Follows(call[h].for, h) /\ UNCHANGED incidents
     \/ call[h].for # NoFlow /\ Incident /\ UNCHANGED flow
     \/ call[h].for = NoFlow /\ UNCHANGED <<flow, incidents>>
  /\ UNCHANGED <<sessionVars, mode, up, cert>>

(* The backend's own timeout.  No handler notices that its client left.     *)
GiveUp(f) ==
  /\ Incident
  /\ \E h \in Handler : call[h].for = f /\ call' = [call EXCEPT ![h].for = NoFlow]
  /\ UNCHANGED <<sessionVars, mode, up, flow, cert>>

(* The call failed with no answer: the backend starts over, or tries the    *)
(* session it has once more.                                                *)
CallLost(f) ==
  /\ flow[f].at \in Waiting
  /\ \A h \in Handler : call[h].for # f
  /\ \/ Moves(f, "start", NoToken)
     \/ flow[f].at # "creating" /\ Moves(f, "ready", flow[f].tok)
  /\ UNCHANGED <<sessionVars, mode, up, call, cert, incidents>>

(* Calls that belong to no document: of other backends, with sessions that  *)
(* are not theirs, with wrong credentials or certificates, or malformed.    *)
Known == {t \in Token :
  /\ phase[t] # "fresh"
  /\ \A h \in Handler : call[h].tok = t => call[h].op # "create"}

StrayCall(h) ==
  /\ Incident /\ call[h] = Idle
  /\ \E r \in {q \in Requests : q.tok \in Known \union {NoToken}}, cred \in Creds :
       Arrives(h, r, cred, NoFlow)
  /\ UNCHANGED <<sessionVars, mode, up, flow, cert>>

-----------------------------------------------------------------------------
(* The janitor of the engine.                                              *)

(* Somebody will still complete or cancel the session, or learns of it.     *)
Followed(t) ==
  \/ \E f \in Flow : flow[f].tok = t /\ flow[f].at \in {"ready", "completing", "cancelling"}
  \/ \E h \in Handler : call[h].tok = t /\ call[h].op = "create" /\ call[h].for # NoFlow
Orphans == {t \in Token : phase[t] = "open" /\ ~Followed(t)}

ExpireOrphan(t) ==
  /\ phase[t] = "open" /\ ~Followed(t)
  /\ Expire({t})
  /\ UNCHANGED <<mode, up, call, flow, cert, incidents>>

(* The user took longer than the session TTL.                               *)
ExpireFollowed(t) ==
  /\ phase[t] = "open" /\ Followed(t)
  /\ Expire({t}) /\ Incident
  /\ UNCHANGED <<mode, up, call, flow, cert>>

EndExpired(t) ==
  /\ phase[t] = "claimed" /\ claim[t].why = "expire"
  /\ End(t)
  /\ UNCHANGED <<mode, up, call, flow, cert, incidents>>

-----------------------------------------------------------------------------
HandlerStep(h) ==
  \/ Refuse(h)
  \/ Reserve(h) \/ Created(h) \/ \E t \in Token : Prepared(h, t)
  \/ CompleteTake(h) \/ CancelTake(h) \/ NotFound(h)
  \/ Signed(h) \/ NotSigned(h) \/ Cancelled(h)
  \/ Respond(h)

FlowStep(f) == SendCreate(f) \/ SendSignature(f) \/ CallLost(f)
JanitorStep == \E t \in Token : ExpireOrphan(t) \/ EndExpired(t)

Next ==
  \/ Start \/ Kill
  \/ \E h \in Handler : HandlerStep(h) \/ PrepareFails(h) \/ StrayCall(h)
  \/ \E f \in Flow : FlowStep(f) \/ SendCancel(f) \/ GiveUp(f)
  \/ JanitorStep \/ \E t \in Token : ExpireFollowed(t)

Spec == Init /\ [][Next]_vars

(* The container runtime restarts the service, handlers run to their answer *)
(* (every call into the engine returns: SigningManager's CallsReturn), what *)
(* nobody completes expires (SessionsEnd), and the backends go on with      *)
(* their documents.  Incidents may stay away.                               *)
Fairness ==
  /\ WF_vars(Start) /\ WF_vars(JanitorStep)
  /\ \A h \in Handler : WF_vars(HandlerStep(h))
  /\ \A f \in Flow : WF_vars(FlowStep(f))

FairSpec == Spec /\ Fairness

-----------------------------------------------------------------------------
(* Properties.                                                             *)

(* The status of an answer tells the truth about the session when it is     *)
(* sent, and goes on doing so until it is read, whatever happens meanwhile: *)
(* 200, the session made a document for this very caller; 204, it was       *)
(* cancelled; 422 to a signature, it is closed (integration-guide.md:304);  *)
(* 404, a retry of the caller finds nothing either (:318).                  *)
AnswerTrue(h) ==
  LET c == call[h]  t == c.tok  by == [why |-> "finish", by |-> c.cred] IN
  CASE c.status = 201 -> owner[t] = c.cred /\ phase[t] # "fresh"
    [] c.status = 200 -> phase[t] = "signed" /\ claim[t] = by
    [] c.status = 204 -> phase[t] = "ended" /\ claim[t] = [by EXCEPT !.why = "cancel"]
    [] c.status = 404 -> ~(phase[t] = "open" /\ owner[t] = c.cred)
    [] c.status = 422 -> c.op = "complete" => phase[t] = "ended"
    [] OTHER          -> TRUE
AnswersAreTrue == \A h \in Handler : AnswerTrue(h)

(* A session is worked on, and answered for, only on behalf of the tenant   *)
(* it was opened for (main.go:21), and a document lands with the backend    *)
(* that asked for it and whose card signed.                                 *)
TenantsKeepToTheirOwn ==
  /\ \A h \in Handler :
       \/ call[h].at \in {"stored", "finishing", "closing"}
       \/ call[h].status \in {200, 201, 204}
       => owner[call[h].tok] = call[h].cred
  /\ \A f \in Flow : flow[f].at = "done" =>
       /\ phase[flow[f].tok] = "signed" /\ owner[flow[f].tok] = MyCred(f)
       /\ \A g \in Flow \ {f} : flow[g].tok # flow[f].tok

(* Production refuses to start without tenant authentication and without    *)
(* the validation of signer certificates (main.go:106): no session of such  *)
(* a process belongs to the holder of a bearer token, or was prepared with  *)
(* a certificate that does not chain to -sign-ca.                           *)
ProductionValidates ==
  mode.on /\ ~mode.dev =>
    \A t \in Token : phase[t] # "fresh" => owner[t] \in Tenant /\ cert[t] = "chained"

(* No call takes a place in the tenant's quota with it unless something     *)
(* went wrong with it on the way: the sessions nobody is going to finish    *)
(* are never more than the incidents.                                       *)
LeaksPaidFor == Cardinality(Orphans) <= incidents

(* A backend that does what the status table says gets its document signed  *)
(* in the end, whatever was lost, killed, refused or expired before:        *)
(* neither its retries nor its abandoned sessions lock it out.              *)
FlowsComplete == \A f \in Flow : <>(flow[f].at \in {"done", "absent"})
=============================================================================
