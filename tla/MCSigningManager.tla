--------------------------- MODULE MCSigningManager ---------------------------
(***************************************************************************)
(* SigningManager for TLC: request goroutines and tokens are               *)
(* interchangeable in the runs that check no liveness.                     *)
(***************************************************************************)
EXTENDS SigningManager, TLC

Symmetry == Permutations(Caller) \union Permutations(Token) \union Permutations(Owner)
=============================================================================
