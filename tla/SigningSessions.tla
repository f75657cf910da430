--------------------------- MODULE SigningSessions ---------------------------
(***************************************************************************)
(* What internal/signing promises to the programs built on it: the life of *)
(* a deferred signature, with no goroutine, channel, lock or timer in      *)
(* sight.  A session is opened for an owner, is claimed exactly once - by  *)
(* the owner completing or cancelling it, or by its expiry - and ends      *)
(* either with the signed document delivered or with nothing.              *)
(*                                                                         *)
(* SigningManager, the model of the code, implements this specification.   *)
(***************************************************************************)
EXTENDS Naturals, FiniteSets

CONSTANTS
  Owner,        \* the identities sessions belong to (tenants, item IDs)
  Token,        \* the session tokens that can ever be handed out
  MaxPerOwner,  \* sessions an owner may have open; 0 means no limit
  NoOwner,      \* the owner of a token that names no session yet
  Janitor       \* the claimant of an expired session

ASSUME SessionAssumption ==
  /\ MaxPerOwner \in Nat
  /\ NoOwner \notin Owner
  /\ Janitor \notin Owner

VARIABLES
  phase,    \* where each session is in its life
  owner,    \* whom it was opened for
  claim     \* why it was claimed, and by whom

sessionVars == <<phase, owner, claim>>

Phases == {"fresh", "open", "claimed", "signed", "ended"}

(* The reasons for which a session leaves the open state: its owner sent a  *)
(* signature that verifies, or one that does not, or cancelled; or time ran *)
(* out.                                                                     *)
Reasons == {"finish", "reject", "cancel", "expire"}
NoClaim == [why |-> "none", by |-> NoOwner]
Claims  == [why : Reasons, by : Owner \union {Janitor}] \union {NoClaim}

SessionTypeOK ==
  /\ phase \in [Token -> Phases]
  /\ owner \in [Token -> Owner \union {NoOwner}]
  /\ claim \in [Token -> Claims]

OpenFor(o) == {t \in Token : phase[t] = "open" /\ owner[t] = o}

-----------------------------------------------------------------------------
SessionInit ==
  /\ phase = [t \in Token |-> "fresh"]
  /\ owner = [t \in Token |-> NoOwner]
  /\ claim = [t \in Token |-> NoClaim]

(* Prepare succeeded: the digest is known and the session awaits its        *)
(* signature.  No owner ever has more than MaxPerOwner sessions open.       *)
Open(t, o) ==
  /\ phase[t] = "fresh"
  /\ MaxPerOwner = 0 \/ Cardinality(OpenFor(o)) < MaxPerOwner
  /\ phase' = [phase EXCEPT ![t] = "open"]
  /\ owner' = [owner EXCEPT ![t] = o]
  /\ UNCHANGED claim

(* The one party that gets hold of an open session: whoever shows up with   *)
(* the session's own owner.                                                 *)
Claim(t, why, by) ==
  /\ phase[t] = "open"
  /\ why \in {"finish", "reject", "cancel"}
  /\ by = owner[t]
  /\ phase' = [phase EXCEPT ![t] = "claimed"]
  /\ claim' = [claim EXCEPT ![t] = [why |-> why, by |-> by]]
  /\ UNCHANGED owner

(* A sweep of the janitor claims every session that expired by then.        *)
Expire(T) ==
  /\ T # {} /\ \A t \in T : phase[t] = "open"
  /\ phase' = [t \in Token |-> IF t \in T THEN "claimed" ELSE phase[t]]
  /\ claim' = [t \in Token |-> IF t \in T
                               THEN [why |-> "expire", by |-> Janitor]
                               ELSE claim[t]]
  /\ UNCHANGED owner

(* The signed document is handed to the caller whose signature verified.    *)
Deliver(t) ==
  /\ phase[t] = "claimed"
  /\ claim[t].why = "finish"
  /\ phase' = [phase EXCEPT ![t] = "signed"]
  /\ UNCHANGED <<owner, claim>>

(* Nothing is delivered.  A claim to finish may end this way too, when the  *)
(* signature cannot be embedded.                                            *)
End(t) ==
  /\ phase[t] = "claimed"
  /\ phase' = [phase EXCEPT ![t] = "ended"]
  /\ UNCHANGED <<owner, claim>>

SessionNext ==
  \/ \E t \in Token :
       \/ \E o \in Owner : Open(t, o)
       \/ \E why \in Reasons, by \in Owner : Claim(t, why, by)
       \/ Deliver(t)
       \/ End(t)
  \/ \E T \in SUBSET Token : Expire(T)

SessionSpec == SessionInit /\ [][SessionNext]_sessionVars

=============================================================================
