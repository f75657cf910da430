---------------------------- MODULE MCBridgeClient ----------------------------
(***************************************************************************)
(* Instances of BridgeClient for TLC: a bounded number of calls.           *)
(***************************************************************************)
EXTENDS BridgeClient

CONSTANT MaxCalls  \* calls of each instance

BoundedAsk ==
  \E c \in Caller, i \in Instance, q \in Query : seq[i] < MaxCalls /\ Ask(c, i, q)
BoundedSpec == BridgeInit /\ [][Transit \/ BoundedAsk]_bridgeVars
=============================================================================
