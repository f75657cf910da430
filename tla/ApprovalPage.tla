----------------------------- MODULE ApprovalPage -----------------------------
(***************************************************************************)
(* The approval queue in the browser, app.js: the flow from the click on   *)
(* "Approve & sign" over the bridge and the two requests to the server to  *)
(* the refreshed list.  Several flows run at once; all of them share the   *)
(* one bridge that was detected when the page was loaded.                  *)
(*                                                                         *)
(* Of the server there is what the page can tell: the items that are       *)
(* published, and the sessions open for the others.  A query is a ping, a  *)
(* request for the certificates, or the digest of a session.               *)
(***************************************************************************)
EXTENDS BridgeClient

CONSTANTS
  Flow,       \* clicks on a button
  Page,       \* the code that runs when the page is loaded
  Item, Token,
  Ping, Certificates,
  NoItem, NoToken

ASSUME PageAssumption ==
  /\ Caller = Flow \union {Page} /\ Page \notin Flow
  /\ Query = Token \union {Ping, Certificates} /\ Ping \notin Token /\ Certificates \notin Token
  /\ NoItem \notin Item /\ NoToken \notin Token

VARIABLES
  bridge,     \* bridgePromise
  at,         \* how far each flow is
  item,       \* the item it is about
  http,       \* the request it awaits: on its way, answered, or failed
  tok,        \* the token sign/start returned to it
  seen,       \* the pending items in the answer to its refresh
  shown,      \* the items shown as pending
  disabled,   \* the flows whose button is on display, disabled
  opened,     \* server: the open sessions
  itemOf,     \* server: the item of each session
  published   \* server: the signed items

flowVars   == <<at, item, http, tok, seen>>
viewVars   == <<shown, disabled>>
serverVars == <<opened, itemOf, published>>
vars == <<bridgeVars, bridge, flowVars, viewVars, serverVars>>

Sites == {"idle", "bridge", "certificate", "starting", "signing", "finishing", "refreshing",
          "done", "failed"}

PageTypeOK ==
  /\ BridgeTypeOK
  /\ bridge \in {"loading", "detecting", "up", "none"}
  /\ at \in [Flow -> Sites]
  /\ item \in [Flow -> Item \union {NoItem}]
  /\ http \in [Flow -> {"none", "sent", "ok", "error"}]
  /\ tok \in [Flow -> Token \union {NoToken}]
  /\ seen \in [Flow -> SUBSET Item] /\ shown \in SUBSET Item /\ disabled \in SUBSET Flow
  /\ opened \in SUBSET Token
  /\ itemOf \in [Token -> Item \union {NoItem}]
  /\ published \in SUBSET Item
  /\ \A f \in Flow : at[f] \in {"signing", "finishing"} => tok[f] \in Token

Init ==
  /\ BridgeInit
  /\ bridge = "loading"
  /\ at = [f \in Flow |-> "idle"] /\ item = [f \in Flow |-> NoItem]
  /\ http = [f \in Flow |-> "none"] /\ tok = [f \in Flow |-> NoToken]
  /\ seen = [f \in Flow |-> {}] /\ shown = Item /\ disabled = {}
  /\ opened = {} /\ published = {} /\ itemOf = [t \in Token |-> NoItem]

-----------------------------------------------------------------------------
(* detectBridge, once per page.                                            *)
Load ==
  /\ bridge = "loading"
  /\ bridge' = "detecting"
  /\ \E i \in Instance : Ask(Page, i, Ping)
  /\ UNCHANGED <<flowVars, viewVars, serverVars>>

Detected ==
  /\ bridge = "detecting" /\ call[Page] # "waiting"
  /\ bridge' = IF call[Page] = "resolved" THEN "up" ELSE "none"
  /\ UNCHANGED <<bridgeVars, flowVars, viewVars, serverVars>>

(* signItem.                                                               *)
Goes(f, from, to) == at[f] = from /\ at' = [at EXCEPT ![f] = to]

(* The catch block: the button can be clicked again.                        *)
Fails(f) ==
  /\ at' = [at EXCEPT ![f] = "failed"]
  /\ disabled' = disabled \ {f}

Click(f, i) ==
  /\ Goes(f, "idle", "bridge")
  /\ i \in shown /\ \A g \in disabled : item[g] # i
  /\ item' = [item EXCEPT ![f] = i]
  /\ disabled' = disabled \union {f}
  /\ UNCHANGED <<bridgeVars, bridge, http, tok, seen, shown, serverVars>>

AskCertificate(f) ==
  /\ Goes(f, "bridge", "certificate")
  /\ bridge = "up"
  /\ \E i \in Instance : Ask(f, i, Certificates)
  /\ UNCHANGED <<bridge, item, http, tok, seen, viewVars, serverVars>>

NoBridge(f) ==
  /\ at[f] = "bridge" /\ bridge = "none"
  /\ Fails(f)
  /\ UNCHANGED <<bridgeVars, bridge, item, http, tok, seen, shown, serverVars>>

Sends(f) == http' = [http EXCEPT ![f] = "sent"]

StartSigning(f) ==
  /\ Goes(f, "certificate", "starting")
  /\ call[f] = "resolved"
  /\ Sends(f)
  /\ UNCHANGED <<bridgeVars, bridge, item, tok, seen, viewVars, serverVars>>

(* api() throws unless the status is in the 200s.                           *)
ArrivedAnyhow(f) == http[f] \in {"ok", "error"}  \* mutant: resp.ok is not tested
Arrived(f) == http[f] = "ok"

AskSignature(f) ==
  /\ Goes(f, "starting", "signing")
  /\ Arrived(f)
  /\ \E i \in Instance : Ask(f, i, tok[f])
  /\ UNCHANGED <<bridge, item, http, tok, seen, viewVars, serverVars>>

FinishSigning(f) ==
  /\ Goes(f, "signing", "finishing")
  /\ call[f] = "resolved"
  /\ Sends(f)
  /\ UNCHANGED <<bridgeVars, bridge, item, tok, seen, viewVars, serverVars>>

Refresh(f) ==
  /\ Goes(f, "finishing", "refreshing")
  /\ Arrived(f)
  /\ Sends(f)
  /\ UNCHANGED <<bridgeVars, bridge, item, tok, seen, viewVars, serverVars>>

(* refresh(): the lists are rebuilt from the answer, with new buttons.      *)
Rebuild(f) ==
  /\ Goes(f, "refreshing", "done")
  /\ Arrived(f)
  /\ shown' = seen[f] /\ disabled' = {}
  /\ UNCHANGED <<bridgeVars, bridge, item, http, tok, seen, serverVars>>

(* The bridge or the server refused, or did not answer.                     *)
Refused(f) ==
  /\ \/ at[f] \in {"certificate", "signing"} /\ call[f] = "rejected"
     \/ at[f] \in {"starting", "finishing", "refreshing"} /\ http[f] = "error"
  /\ Fails(f)
  /\ UNCHANGED <<bridgeVars, bridge, item, http, tok, seen, shown, serverVars>>

-----------------------------------------------------------------------------
(* The server.                                                             *)
Answers(f, status) == http[f] = "sent" /\ http' = [http EXCEPT ![f] = status]
ServerFrame == UNCHANGED <<bridgeVars, bridge, at, item, viewVars>>

(* sign/start: the item is pending and has no session, or the request fails.*)
ServeStart(f, t) ==
  /\ at[f] = "starting" /\ Answers(f, "ok")
  /\ item[f] \notin published
  /\ itemOf[t] = NoItem /\ \A u \in opened : itemOf[u] # item[f]
  /\ opened' = opened \union {t}
  /\ itemOf' = [itemOf EXCEPT ![t] = item[f]]
  /\ tok' = [tok EXCEPT ![f] = t]
  /\ UNCHANGED <<seen, published>> /\ ServerFrame

(* sign/finish: the session is over.  The document is published if the      *)
(* signature is one over the digest of the session, and nothing fails.      *)
ServeFinish(f) ==
  /\ at[f] = "finishing" /\ tok[f] \in opened
  /\ opened' = opened \ {tok[f]}
  /\ \/ /\ Answers(f, "ok") /\ answer[f] = tok[f]
        /\ published' = published \union {itemOf[tok[f]]}
     \/ Answers(f, "error") /\ UNCHANGED published
  /\ UNCHANGED <<itemOf, tok, seen>> /\ ServerFrame

ServeItems(f) ==
  /\ at[f] = "refreshing" /\ Answers(f, "ok")
  /\ seen' = [seen EXCEPT ![f] = Item \ published]
  /\ UNCHANGED <<tok, serverVars>> /\ ServerFrame

(* The request is refused, or it or its answer is lost on the way.          *)
ServerFails(f) ==
  /\ http[f] = "sent" \/ (http[f] = "ok" /\ at[f] \in {"starting", "finishing", "refreshing"})
  /\ http' = [http EXCEPT ![f] = "error"]
  /\ tok' = [tok EXCEPT ![f] = IF at[f] = "starting" THEN NoToken ELSE @]
  /\ seen' = [seen EXCEPT ![f] = {}]
  /\ UNCHANGED serverVars /\ ServerFrame

ServerStep(f) ==
  \/ \E t \in Token : ServeStart(f, t)
  \/ ServeFinish(f) \/ ServeItems(f) \/ ServerFails(f)

SessionExpires(t) ==
  /\ t \in opened
  /\ opened' = opened \ {t}
  /\ UNCHANGED <<bridgeVars, bridge, flowVars, viewVars, itemOf, published>>

-----------------------------------------------------------------------------
FlowStep(f) ==
  \/ AskCertificate(f) \/ NoBridge(f) \/ StartSigning(f) \/ AskSignature(f)
  \/ FinishSigning(f) \/ Refresh(f) \/ Rebuild(f) \/ Refused(f)

BridgeFrame == UNCHANGED <<bridge, flowVars, viewVars, serverVars>>

Next ==
  \/ Load \/ Detected
  \/ \E f \in Flow : FlowStep(f) \/ ServerStep(f) \/ \E i \in Item : Click(f, i)
  \/ \E t \in Token : SessionExpires(t)
  \/ Transit /\ BridgeFrame

Spec == Init /\ [][Next]_vars

(* The page runs, its timers fire, and the browser ends every fetch.        *)
(* Neither the extension nor the card has to answer.                        *)
FairSpec ==
  /\ Spec
  /\ WF_vars(Load) /\ WF_vars(Detected) /\ WF_vars(Expiry /\ BridgeFrame)
  /\ \A f \in Flow : WF_vars(FlowStep(f)) /\ WF_vars(ServerStep(f))

-----------------------------------------------------------------------------
(* Properties.                                                             *)

(* The signature a flow sends to sign/finish is the card's over the digest  *)
(* of the very session it names, although flows share the bridge and answers*)
(* come late or in another order.                                           *)
RightSignature == \A f \in Flow : at[f] = "finishing" => answer[f] = tok[f]

(* Every click ends, signed or failed, even if the extension or the card    *)
(* never answers (SIGN_TIMEOUT_MS).                                         *)
FlowsEnd == \A f \in Flow : at[f] = "bridge" ~> at[f] \in {"done", "failed"}
=============================================================================
