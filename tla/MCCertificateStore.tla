--------------------------- MODULE MCCertificateStore ---------------------------
(***************************************************************************)
(* The instance of CertificateStore for TLC: a card with a signature and   *)
(* an authentication certificate, the renewed signature certificate of the *)
(* same key, a document-signing certificate of a colleague's card, and one *)
(* each of what must not be listed or cannot sign.                         *)
(***************************************************************************)
EXTENDS CertificateStore

Plain == [key |-> "card", holder |-> "user", usage |-> {"digitalSignature"}, eku |-> {},
          ca |-> FALSE, trusted |-> TRUE, alg |-> "RSA", notBefore |-> 0, notAfter |-> 9]
Signing == [Plain EXCEPT !.usage = {"digitalSignature", "contentCommitment"}]

MCCert ==
  { [Signing EXCEPT !.notAfter = 2],
    [Signing EXCEPT !.notBefore = 1],
    [Plain EXCEPT !.eku = {"clientAuth", "email"}],
    [Plain EXCEPT !.key = "second", !.holder = "colleague", !.alg = "ECDSA",
                  !.usage = {"unset"}, !.eku = {"docSigning"}, !.trusted = FALSE],
    [Plain EXCEPT !.key = "third", !.eku = {"serverAuth"}],
    [Signing EXCEPT !.key = "third", !.usage = {"contentCommitment"}],
    [Plain EXCEPT !.key = "third", !.alg = "other"] }
=============================================================================
