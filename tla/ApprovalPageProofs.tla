--------------------------- MODULE ApprovalPageProofs ---------------------------
(***************************************************************************)
(* Proofs about BridgeClient, for any callers, queries and number of calls,*)
(* and about ApprovalPage on top of it, for any number of clicks, items and*)
(* sessions.                                                               *)
(***************************************************************************)
EXTENDS ApprovalPage, TLAPS

-----------------------------------------------------------------------------
(* The bridge.                                                             *)
OneInstance == \A i, j \in Instance : i = j

(* Numbers are never reused: those in the map, and those of messages under  *)
(* way, have been given out, and each entry has a number and a caller of    *)
(* its own.                                                                 *)
Numbers ==
  /\ \A w \in waiters : w.id <= seq[w.on]
  /\ \A v, w \in waiters : v.on = w.on /\ v.id = w.id => v = w

(* A message under way with the number of an entry is about what the caller *)
(* of that entry asked.                                                     *)
AboutIts(m) ==
  /\ \A i \in Instance : m.id <= seq[i]
  /\ \A w \in waiters : w.id = m.id => asked[w.by] = m.query

Correlated ==
  /\ \A m \in posted : AboutIts(m)
  /\ \A m \in relayed : AboutIts(m)
  /\ \A m \in replies : AboutIts(m)

BridgeInv == BridgeTypeOK /\ Numbers /\ WaitersExact

OwnInv == BridgeInv /\ Correlated /\ OwnAnswers

-----------------------------------------------------------------------------
LEMMA InitInv == BridgeInit => OwnInv
  BY BridgeAssumption
  DEF BridgeInit, OwnInv, BridgeInv, BridgeTypeOK, Numbers, WaitersExact, Correlated, OwnAnswers

LEMMA AskInv ==
  ASSUME BridgeInv, NEW c \in Caller, NEW i \in Instance, NEW q \in Query, Ask(c, i, q)
  PROVE  BridgeInv'
<1> USE DEF BridgeInv, BridgeTypeOK, Ask, NextId
<1>1. BridgeTypeOK'
  BY DEF Requests
<1>2. Numbers'
  BY DEF Numbers
<1>3. WaitersExact'
  <2>1. waiters' = waiters \union {[on |-> i, id |-> seq[i] + 1, by |-> c]}
    BY DEF Numbers
  <2>2. \A w \in waiters : w.by # c
    BY DEF WaitersExact
  <2>3. ASSUME NEW d \in Caller PROVE call'[d] = "waiting" <=> \E w \in waiters' : w.by = d
    <3>1. CASE d = c
      <4>1. [on |-> i, id |-> seq[i] + 1, by |-> c].by = d
        BY <3>1
      <4>2. call'[d] = "waiting"
        BY <3>1
      <4> QED
        BY <2>1, <4>1, <4>2
    <3>2. CASE d # c
      BY <2>1, <3>2 DEF WaitersExact
    <3> QED
      BY <3>1, <3>2
  <2>4. \A v, w \in waiters' : v.by = w.by => v = w
    BY <2>1, <2>2 DEF WaitersExact
  <2> QED
    BY <2>3, <2>4 DEF WaitersExact
<1> QED
  BY <1>1, <1>2, <1>3

LEMMA TransitInv ==
  ASSUME BridgeInv, Transit
  PROVE  BridgeInv'
<1> USE DEF BridgeInv, BridgeTypeOK
<1>1. ASSUME NEW m \in posted, Relay(m) PROVE BridgeInv'
  BY <1>1 DEF Relay, Numbers, WaitersExact
<1>2. ASSUME NEW m \in relayed, NEW ok \in BOOLEAN, Reply(m, ok) PROVE BridgeInv'
  BY <1>2 DEF Reply, Numbers, WaitersExact, Requests, Replies
<1>3. ASSUME NEW r \in replies, Deliver(r) PROVE BridgeInv'
  <2>1. BridgeTypeOK'
    BY <1>3 DEF Deliver, Replies
  <2>2. Numbers'
    BY <1>3 DEF Deliver, Numbers
  <2>3. WaitersExact'
    BY <1>3 DEF Deliver, WaitersExact
  <2> QED
    BY <2>1, <2>2, <2>3
<1>4. ASSUME NEW w \in waiters, Timeout(w) PROVE BridgeInv'
  BY <1>4 DEF Timeout, Numbers, WaitersExact
<1> QED
  BY <1>1, <1>2, <1>3, <1>4 DEF Transit, Delivery, Expiry

LEMMA AskOwn ==
  ASSUME OneInstance, OwnInv, NEW c \in Caller, NEW i \in Instance, NEW q \in Query, Ask(c, i, q)
  PROVE  OwnInv'
<1> USE DEF OwnInv, BridgeInv, BridgeTypeOK, OneInstance, Ask, NextId
<1>1. BridgeInv'
  BY AskInv
<1>2. ASSUME NEW m, m.id \in Nat, AboutIts(m) PROVE AboutIts(m)'
  BY <1>2 DEF AboutIts, Numbers, WaitersExact
<1>3. Correlated'
  <2>1. PICK m : m = [id |-> seq[i] + 1, by |-> c, query |-> q]
    OBVIOUS
  <2>2. AboutIts(m)'
    BY <2>1 DEF AboutIts, Numbers
  <2>3. posted' = posted \union {m} /\ relayed' = relayed /\ replies' = replies
    BY <2>1
  <2> QED
    BY <1>2, <2>2, <2>3 DEF Correlated, Requests, Replies
<1>4. OwnAnswers'
  BY DEF OwnAnswers
<1> QED
  BY <1>1, <1>3, <1>4

LEMMA TransitOwn ==
  ASSUME OwnInv, Transit
  PROVE  OwnInv'
<1> USE DEF OwnInv, BridgeInv, BridgeTypeOK, Correlated, OwnAnswers, AboutIts
<1>1. BridgeInv'
  BY TransitInv
<1>2. ASSUME NEW m \in posted, Relay(m) PROVE Correlated' /\ OwnAnswers'
  BY <1>2 DEF Relay
<1>3. ASSUME NEW m \in relayed, NEW ok \in BOOLEAN, Reply(m, ok) PROVE Correlated' /\ OwnAnswers'
  BY <1>3 DEF Reply, Requests
<1>4. ASSUME NEW r \in replies, Deliver(r) PROVE Correlated' /\ OwnAnswers'
  BY <1>4 DEF Deliver, Matches, Replies
<1>5. ASSUME NEW w \in waiters, Timeout(w) PROVE Correlated' /\ OwnAnswers'
  BY <1>5 DEF Timeout
<1> QED
  BY <1>1, <1>2, <1>3, <1>4, <1>5 DEF Transit, Delivery, Expiry

LEMMA StutterInv ==
  ASSUME UNCHANGED bridgeVars
  PROVE  (BridgeInv => BridgeInv') /\ (OwnInv => OwnInv')
  BY DEF bridgeVars, OwnInv, BridgeInv, BridgeTypeOK, Numbers, WaitersExact, Correlated,
         AboutIts, OwnAnswers, Requests, Replies

-----------------------------------------------------------------------------
(* However many instances a page creates, the pending maps hold exactly the *)
(* calls it awaits: no promise hangs without an entry, no entry is left     *)
(* behind.                                                                  *)
THEOREM MapsAreExact == PageSpec => []WaitersExact
<1>1. BridgeInit => BridgeInv
  BY InitInv DEF OwnInv
<1>2. BridgeInv /\ [Transit \/ AnyAsk]_bridgeVars => BridgeInv'
  BY AskInv, TransitInv, StutterInv DEF AnyAsk
<1>3. BridgeInv => WaitersExact
  BY DEF BridgeInv
<1> QED
  BY <1>1, <1>2, <1>3, PTL DEF PageSpec

(* With one instance, every call is settled by the answer to what it asked, *)
(* in whichever order answers and timeouts come.                            *)
THEOREM AnswersFindTheirCall == OneInstance /\ PageSpec => []OwnAnswers
<1> SUFFICES ASSUME OneInstance PROVE PageSpec => []OwnAnswers
  OBVIOUS
<1>1. OwnInv /\ [Transit \/ AnyAsk]_bridgeVars => OwnInv'
  BY AskOwn, TransitOwn, StutterInv DEF AnyAsk
<1>2. OwnInv => OwnAnswers
  BY DEF OwnInv
<1> QED
  BY InitInv, <1>1, <1>2, PTL DEF PageSpec
-----------------------------------------------------------------------------
(* The page.                                                               *)

(* What a flow has in hand at each of its steps.                            *)
FlowKnows(f) ==
  /\ at[f] # "idle" => item[f] \in Item
  /\ at[f] = "starting" /\ http[f] = "ok" => tok[f] \in Token
  /\ at[f] = "signing" => asked[f] = tok[f]
  /\ at[f] = "finishing" => call[f] = "resolved" /\ answer[f] = tok[f]

(* An open session is one for an item.                                      *)
ServerKnows == \A t \in opened : itemOf[t] \in Item

PageInv == PageTypeOK /\ OwnInv /\ ServerKnows /\ \A f \in Flow : FlowKnows(f)

-----------------------------------------------------------------------------
LEMMA PageInitInv == Init => PageInv
<1> SUFFICES ASSUME Init PROVE PageInv
  OBVIOUS
<1>1. OwnInv
  BY InitInv DEF Init
<1>2. BridgeTypeOK
  BY <1>1 DEF OwnInv, BridgeInv
<1> QED
  BY <1>1, <1>2, PageAssumption DEF Init, PageInv, PageTypeOK, Sites, FlowKnows, ServerKnows

(* What the page sees of a call it makes, and of what happens to the calls  *)
(* it has made.                                                             *)
LEMMA AskedCall ==
  ASSUME BridgeTypeOK, NEW c \in Caller, NEW i \in Instance, NEW q \in Query, Ask(c, i, q)
  PROVE  /\ asked'[c] = q
         /\ \A d \in Caller : d # c => /\ asked'[d] = asked[d] /\ call'[d] = call[d]
                                       /\ answer'[d] = answer[d]
  BY DEF BridgeTypeOK, Ask

LEMMA SettledCall ==
  ASSUME BridgeInv, Transit, NEW c \in Caller
  PROVE  /\ asked'[c] = asked[c]
         /\ call[c] # "waiting" => call'[c] = call[c] /\ answer'[c] = answer[c]
<1> USE DEF BridgeInv, BridgeTypeOK, WaitersExact
<1>1. ASSUME NEW m \in posted, Relay(m) PROVE asked' = asked /\ call' = call /\ answer' = answer
  BY <1>1 DEF Relay
<1>2. ASSUME NEW m \in relayed, NEW ok \in BOOLEAN, Reply(m, ok)
      PROVE  asked' = asked /\ call' = call /\ answer' = answer
  BY <1>2 DEF Reply
<1>3. ASSUME NEW r \in replies, Deliver(r)
      PROVE  /\ asked' = asked
             /\ call[c] # "waiting" => call'[c] = call[c] /\ answer'[c] = answer[c]
  BY <1>3 DEF Deliver
<1>4. ASSUME NEW w \in waiters, Timeout(w)
      PROVE  /\ asked' = asked /\ answer' = answer
             /\ call[c] # "waiting" => call'[c] = call[c]
  BY <1>4 DEF Timeout
<1> QED
  BY <1>1, <1>2, <1>3, <1>4 DEF Transit, Delivery, Expiry

-----------------------------------------------------------------------------
(* Steps that call the bridge.                                              *)
LEMMA CallingInv ==
  ASSUME OneInstance, PageInv, Load \/ \E f \in Flow : AskCertificate(f) \/ AskSignature(f)
  PROVE  PageInv'
<1> USE PageAssumption DEF PageInv, ServerKnows, flowVars, viewVars, serverVars
<1>0. BridgeTypeOK
  BY DEF PageTypeOK
<1>1. CASE Load
  <2>1. PICK i \in Instance : Ask(Page, i, Ping)
    BY <1>1 DEF Load
  <2>2. OwnInv'
    BY <2>1, AskOwn
  <2>3. PageTypeOK'
    BY <1>1, <2>2 DEF Load, PageTypeOK, OwnInv, BridgeInv
  <2> QED
    BY <1>0, <1>1, <2>1, <2>2, <2>3, AskedCall DEF Load, FlowKnows
<1>2. ASSUME NEW f \in Flow, AskCertificate(f) PROVE PageInv'
  <2>1. PICK i \in Instance : Ask(f, i, Certificates)
    BY <1>2 DEF AskCertificate
  <2>2. OwnInv'
    BY <2>1, AskOwn
  <2>3. PageTypeOK'
    BY <1>2, <2>2 DEF AskCertificate, Goes, PageTypeOK, Sites, OwnInv, BridgeInv
  <2> QED
    BY <1>0, <1>2, <2>1, <2>2, <2>3, AskedCall DEF AskCertificate, Goes, FlowKnows, PageTypeOK
<1>3. ASSUME NEW f \in Flow, AskSignature(f) PROVE PageInv'
  <2>1. PICK i \in Instance : Ask(f, i, tok[f])
    BY <1>3 DEF AskSignature
  <2>2. tok[f] \in Token
    BY <1>3 DEF AskSignature, Goes, Arrived, FlowKnows
  <2>3. OwnInv'
    BY <2>1, <2>2, AskOwn
  <2>4. PageTypeOK'
    BY <1>3, <2>2, <2>3 DEF AskSignature, Goes, PageTypeOK, Sites, OwnInv, BridgeInv
  <2> QED
    BY <1>0, <1>3, <2>1, <2>2, <2>3, <2>4, AskedCall DEF AskSignature, Goes, FlowKnows, PageTypeOK
<1> QED
  BY <1>1, <1>2, <1>3

(* Steps of the page that leave the bridge alone.                           *)
LEMMA BridgeKept ==
  ASSUME OwnInv, UNCHANGED bridgeVars
  PROVE  OwnInv' /\ BridgeTypeOK'
  BY StutterInv DEF OwnInv, BridgeInv

LEMMA LocalInv ==
  ASSUME PageInv,
         \/ Detected
         \/ \E f \in Flow :
              \/ NoBridge(f) \/ StartSigning(f) \/ FinishSigning(f) \/ Refresh(f) \/ Rebuild(f)
              \/ Refused(f) \/ \E i \in Item : Click(f, i)
  PROVE  PageInv'
<1>1. UNCHANGED bridgeVars
  BY DEF Detected, NoBridge, StartSigning, FinishSigning, Refresh, Rebuild, Refused, Click
<1>2. OwnInv' /\ BridgeTypeOK'
  BY <1>1, BridgeKept DEF PageInv
<1> USE DEF flowVars, viewVars, serverVars, bridgeVars, PageInv, PageTypeOK, ServerKnows, Sites,
        Goes, Fails, Sends
<1>3. PageTypeOK'
  BY <1>2 DEF Detected, NoBridge, StartSigning, FinishSigning, Refresh, Rebuild, Refused, Click
<1>4. ServerKnows'
  BY DEF Detected, NoBridge, StartSigning, FinishSigning, Refresh, Rebuild, Refused, Click
<1>5. ASSUME NEW f \in Flow PROVE FlowKnows(f)'
  BY <1>1, <1>5, PageAssumption
  DEF Detected, NoBridge, StartSigning, FinishSigning, Refresh, Rebuild, Refused, Click, FlowKnows,
      OwnInv, OwnAnswers
<1> QED
  BY <1>2, <1>3, <1>4, <1>5

(* Steps of the server and of the network.                                  *)
LEMMA ServerInv ==
  ASSUME PageInv,
         (\E f \in Flow : ServerStep(f)) \/ \E t \in Token : SessionExpires(t)
  PROVE  PageInv'
<1> USE DEF ServerStep, ServeStart, ServeFinish, ServeItems, ServerFails, SessionExpires, Answers,
        ServerFrame
<1>1. UNCHANGED bridgeVars /\ UNCHANGED at
  BY DEF flowVars
<1>2. OwnInv' /\ BridgeTypeOK'
  BY <1>1, BridgeKept DEF PageInv
<1> USE DEF flowVars, viewVars, serverVars, bridgeVars, PageInv, PageTypeOK, FlowKnows, ServerKnows
<1>3. PageTypeOK' /\ ServerKnows'
  <2>1. ASSUME NEW f \in Flow, NEW t \in Token, ServeStart(f, t) PROVE PageTypeOK' /\ ServerKnows'
    BY <1>2, <2>1
  <2>2. ASSUME NEW f \in Flow, ServeFinish(f) PROVE PageTypeOK' /\ ServerKnows'
    BY <1>2, <2>2
  <2>3. ASSUME NEW f \in Flow, ServeItems(f) \/ ServerFails(f) PROVE PageTypeOK' /\ ServerKnows'
    BY <1>2, <2>3
  <2>4. ASSUME NEW t \in Token, SessionExpires(t) PROVE PageTypeOK' /\ ServerKnows'
    BY <1>2, <2>4
  <2> QED
    BY <2>1, <2>2, <2>3, <2>4
<1>4. ASSUME NEW f \in Flow PROVE FlowKnows(f)'
  BY <1>1, <1>4
<1> QED
  BY <1>2, <1>3, <1>4

(* What happens on the bridge.                                              *)
LEMMA TransitPageInv ==
  ASSUME PageInv, Transit, BridgeFrame
  PROVE  PageInv'
<1> USE DEF PageInv, ServerKnows
<1>1. OwnInv'
  BY TransitOwn
<1>2. PageTypeOK'
  BY <1>1 DEF PageTypeOK, OwnInv, BridgeInv, BridgeFrame, flowVars, viewVars, serverVars
<1>3. ASSUME NEW f \in Flow PROVE FlowKnows(f)'
  <2>1. /\ asked'[f] = asked[f]
        /\ call[f] # "waiting" => call'[f] = call[f] /\ answer'[f] = answer[f]
    BY SettledCall, PageAssumption DEF OwnInv
  <2> QED
    BY <2>1 DEF FlowKnows, BridgeFrame, flowVars
<1> QED
  BY <1>1, <1>2, <1>3 DEF BridgeFrame, serverVars

LEMMA PageStepInv ==
  ASSUME OneInstance, PageInv, [Next]_vars
  PROVE  PageInv'
<1>1. CASE UNCHANGED vars
  BY <1>1, StutterInv
  DEF vars, bridgeVars, flowVars, viewVars, serverVars, PageInv, PageTypeOK, BridgeTypeOK, FlowKnows,
      ServerKnows
<1> QED
  BY <1>1, CallingInv, LocalInv, ServerInv, TransitPageInv DEF Next, FlowStep

LEMMA PageAlwaysInv == OneInstance /\ Spec => []PageInv
<1> SUFFICES ASSUME OneInstance PROVE Spec => []PageInv
  OBVIOUS
<1>1. PageInv /\ [Next]_vars => PageInv'
  BY PageStepInv
<1> QED
  BY PageInitInv, <1>1, PTL DEF Spec

-----------------------------------------------------------------------------
(* On a page with one bridge, every flow sends to sign/finish the card's    *)
(* signature over the digest of the very session it names, whatever the     *)
(* order of answers, timeouts and expiries.                                 *)
THEOREM SignatureFitsSession == OneInstance /\ Spec => []RightSignature
<1>1. PageInv => RightSignature
  BY DEF PageInv, FlowKnows, RightSignature
<1> QED
  BY <1>1, PageAlwaysInv, PTL

(* The variables of the page and of its bridge keep their types.            *)
THEOREM PageTypeCorrect == OneInstance /\ Spec => []PageTypeOK
<1>1. PageInv => PageTypeOK
  BY DEF PageInv
<1> QED
  BY <1>1, PageAlwaysInv, PTL
=============================================================================
