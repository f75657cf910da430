----------------------------- MODULE BridgeClient -----------------------------
(***************************************************************************)
(* The way of a request from a web page to the smart card and back:        *)
(* pdfsign-client.js in the page, content.js and background.js in the      *)
(* browser extension, and one native host process per request.  The two    *)
(* directions are messages posted on the one window of the page, which     *)
(* every listener of the page sees; answers find their request by a number.*)
(*                                                                         *)
(* A message is kept with the call it was sent for.  That is history: only *)
(* properties look at it.                                                  *)
(***************************************************************************)
EXTENDS Naturals, FiniteSets

CONSTANTS
  Instance,  \* what createNativeBridge returned, each time the page called it
  Caller,    \* the coroutines of the page, each awaiting one call at most
  Query,     \* commands with their payload
  NoQuery

ASSUME BridgeAssumption == NoQuery \notin Query

VARIABLES
  seq,      \* seq of each instance
  waiters,  \* the entries of every instance's `pending` map
  call,     \* the promise each caller awaits
  asked,    \* what the caller asked for
  answer,   \* the query whose answer settled its promise
  posted,   \* requests posted on the window
  relayed,  \* requests at the service worker, or at their native host
  replies   \* responses posted on the window

bridgeVars == <<seq, waiters, call, asked, answer, posted, relayed, replies>>

Requests == [id : Nat, by : Caller, query : Query]
Replies  == [id : Nat, query : Query, ok : BOOLEAN]

BridgeTypeOK ==
  /\ seq \in [Instance -> Nat]
  /\ waiters \in SUBSET [on : Instance, id : Nat, by : Caller]
  /\ call \in [Caller -> {"none", "waiting", "resolved", "rejected"}]
  /\ asked \in [Caller -> Query \union {NoQuery}]
  /\ answer \in [Caller -> Query \union {NoQuery}]
  /\ posted \in SUBSET Requests /\ relayed \in SUBSET Requests
  /\ replies \in SUBSET Replies

BridgeInit ==
  /\ seq = [i \in Instance |-> 0]
  /\ call = [c \in Caller |-> "none"]
  /\ asked = [c \in Caller |-> NoQuery] /\ answer = [c \in Caller |-> NoQuery]
  /\ waiters = {} /\ posted = {} /\ relayed = {} /\ replies = {}

-----------------------------------------------------------------------------
NextIdBySize(i) == Cardinality({w \in waiters : w.on = i}) + 1  \* mutant: pending.size + 1
NextId(i) == seq[i] + 1

(* call(cmd, payload): a fresh number, an entry in the map (which replaces  *)
(* one of the same number), a timer, and the request on the window.         *)
Ask(c, i, q) ==
  LET id == NextId(i) IN
  /\ call[c] # "waiting"
  /\ seq' = [seq EXCEPT ![i] = @ + 1]
  /\ waiters' = {w \in waiters : w.on # i \/ w.id # id} \union {[on |-> i, id |-> id, by |-> c]}
  /\ call' = [call EXCEPT ![c] = "waiting"]
  /\ asked' = [asked EXCEPT ![c] = q]
  /\ answer' = [answer EXCEPT ![c] = NoQuery]
  /\ posted' = posted \union {[id |-> id, by |-> c, query |-> q]}
  /\ UNCHANGED <<relayed, replies>>

(* The content script picks the request up ...                              *)
Relay(m) ==
  /\ m \in posted
  /\ posted' = posted \ {m}
  /\ relayed' = relayed \union {m}
  /\ UNCHANGED <<seq, waiters, call, asked, answer, replies>>

(* ... and, once the service worker has an answer from the host - the card  *)
(* did it, or some error of the page's origin, the host, the card, the user *)
(* - posts it under the number of the request.  It may never have one.      *)
Reply(m, ok) ==
  /\ m \in relayed
  /\ relayed' = relayed \ {m}
  /\ replies' = replies \union {[id |-> m.id, query |-> m.query, ok |-> ok]}
  /\ UNCHANGED <<seq, waiters, call, asked, answer, posted>>

MatchesAny(w, r) == TRUE  \* mutant: the number is not looked at
Matches(w, r) == w.id = r.id

(* The message event: the listener of every instance sees the response, and *)
(* settles the promise it has under that number, if any.                    *)
Deliver(r) ==
  LET hit == {w \in waiters : Matches(w, r)}
      settled == {w.by : w \in hit}
  IN
  /\ r \in replies
  /\ replies' = replies \ {r}
  /\ waiters' = waiters \ hit
  /\ call' = [c \in Caller |-> IF c \in settled
                               THEN IF r.ok THEN "resolved" ELSE "rejected"
                               ELSE call[c]]
  /\ answer' = [c \in Caller |-> IF c \in settled THEN r.query ELSE answer[c]]
  /\ UNCHANGED <<seq, asked, posted, relayed>>

(* The timer of a call that is still pending.                               *)
TimeoutSilently(w) ==  \* mutant: the entry goes, the promise stays
  /\ w \in waiters
  /\ waiters' = waiters \ {w}
  /\ UNCHANGED <<seq, call, asked, answer, posted, relayed, replies>>
Timeout(w) ==
  /\ w \in waiters
  /\ waiters' = waiters \ {w}
  /\ call' = [call EXCEPT ![w.by] = "rejected"]
  /\ UNCHANGED <<seq, asked, answer, posted, relayed, replies>>

(* What happens without the page's doing.                                   *)
Delivery == \E r \in replies : Deliver(r)
Expiry   == \E w \in waiters : Timeout(w)
Transit ==
  \/ \E m \in posted : Relay(m)
  \/ \E m \in relayed, ok \in BOOLEAN : Reply(m, ok)
  \/ Delivery
  \/ Expiry

(* Any page: it asks what it wants, when it wants, of any of its instances. *)
AnyAsk == \E c \in Caller, i \in Instance, q \in Query : Ask(c, i, q)
PageSpec == BridgeInit /\ [][Transit \/ AnyAsk]_bridgeVars

-----------------------------------------------------------------------------
(* Properties.                                                             *)

(* "`id` is a page-local sequence number used to correlate responses"       *)
(* (client_design.md:43): a call is settled by the answer to what it asked, *)
(* also when answers overtake each other or arrive after a timeout.         *)
OwnAnswers == \A c \in Caller : call[c] = "resolved" => answer[c] = asked[c]

(* The pending maps hold exactly the calls that are awaited: no promise is  *)
(* left without an entry that would settle it, no entry outlives its call.  *)
WaitersExact ==
  /\ \A c \in Caller : call[c] = "waiting" <=> \E w \in waiters : w.by = c
  /\ \A v, w \in waiters : v.by = w.by => v = w
=============================================================================
