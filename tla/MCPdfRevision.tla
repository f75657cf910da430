----------------------------- MODULE MCPdfRevision -----------------------------
(***************************************************************************)
(* The instances of PdfRevision for TLC: what the form calls its own       *)
(* fields.                                                                 *)
(***************************************************************************)
EXTENDS PdfRevision

(* The signature fields of the form are numbered from 1; that it numbers a  *)
(* nested one too is of no account.                                         *)
Counted == [n \in Names |-> IF n \notin SigFields THEN 0 ELSE IF n \in Nested THEN 2 ELSE 1]

(* Of two signature fields, the first was taken out of the form.            *)
SecondOnly == [n \in Names |-> IF n \in SigFields THEN 2 ELSE 0]
=============================================================================
