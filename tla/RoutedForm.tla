------------------------------- MODULE RoutedForm -------------------------------
(***************************************************************************)
(* What the incremental updates promise about a form that is routed from   *)
(* signer to signer: a signer leaves marks on empty fields, the signature   *)
(* in a signature field and the text in the text fields, and a mark stays.  *)
(***************************************************************************)
EXTENDS Naturals, FiniteSets

CONSTANTS
  TextFields, SigFields  \* the names of the fields of the form

Names == TextFields \union SigFields

VARIABLE mark  \* the signer whose mark each field has, 0 for none

FormTypeOK == mark \in [Names -> Nat]

Blank == mark = [n \in Names |-> 0]

(* A signer marks empty fields, all with the same new mark: text fields,    *)
(* and one signature field at the most.  (A signature that is not in a      *)
(* field of the form leaves no mark.)                                       *)
SignForm ==
  LET N == {n \in Names : mark'[n] # mark[n]} IN
  /\ mark' \in [Names -> Nat]
  /\ Cardinality(N \ TextFields) <= 1
  /\ \A n \in N :
       /\ mark[n] = 0
       /\ \A m \in N : mark'[m] = mark'[n]
       /\ \A m \in Names : mark[m] # mark'[n]

FormSpec == Blank /\ [][SignForm]_mark
=============================================================================
