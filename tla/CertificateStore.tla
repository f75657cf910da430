--------------------------- MODULE CertificateStore ---------------------------
(***************************************************************************)
(* Choosing a certificate and signing with it: the native host's two       *)
(* commands (bridge/host/winsign.go), each run by a process of its own     *)
(* that knows nothing of the other, the user's certificate store and smart *)
(* card, which change between and during the two, and what page and server *)
(* make of the results.  The correlation of requests and answers is        *)
(* BridgeClient's; here one page makes one call after the other.           *)
(***************************************************************************)
EXTENDS Integers, Sequences, FiniteSets

CONSTANTS
  Cert,      \* the certificates there are, as records
  MaxStore,  \* bound on the certificates in the store
  Horizon,   \* bound on the days that pass
  Changes,   \* bound on what happens to cards and store
  User,      \* who uses the browser, and authenticates if the server asks for it
  WarnDays,  \* a certificate that expires sooner is worth a warning
  FlowDays   \* days that may pass between choosing and signing

(* usage: the KeyUsage bits the code looks at, or {"unset"} for none at all; *)
(* eku: the extended key usages; key: its private key; holder: the common    *)
(* name of its subject.                                                     *)
Usages == SUBSET {"digitalSignature", "contentCommitment"} \union {{"unset"}}
EKUs == {"serverAuth", "clientAuth", "email", "docSigning"}
ASSUME CertificateAssumption ==
  /\ \A c \in Cert :
       /\ c.usage \in Usages /\ c.eku \subseteq EKUs
       /\ c.ca \in BOOLEAN /\ c.trusted \in BOOLEAN
       /\ c.alg \in {"RSA", "ECDSA", "other"}
       /\ c.notBefore \in Int /\ c.notAfter \in Int
  /\ {MaxStore, Horizon, Changes, WarnDays, FlowDays} \subseteq Nat
  /\ FlowDays < WarnDays

VARIABLES
  store,    \* the MY store, in the order in which it is enumerated
  keys,     \* the private keys within reach: of the cards in the reader
  now,      \* the day
  changes,  \* how often store or cards changed
  roots,    \* does the server have -sign-ca?
  mtls,     \* does it have -client-ca?
  page,     \* the approval flow of the page
  host      \* the process that runs signDigest

vars == <<store, keys, now, changes, roots, mtls, page, host>>

InStore(c) == \E i \in DOMAIN store : store[i] = c
Key == {c.key : c \in Cert}
Warnings == {"no non-repudiation", "expires"}
NoCert == [key |-> "none"]
NoSignature == [key |-> "none", form |-> "none"]
Signatures == [key : Key, form : {"PKCS1v15", "DER", "raw"}] \union {NoSignature}
PageSites == {"idle", "chosen", "prepared", "waiting", "signed", "done", "refused", "failed"}
IdlePage == [at |-> "idle", cert |-> NoCert, warning |-> {}, since |-> 0, sig |-> NoSignature]

CardTypeOK ==
  /\ store \in UNION {[1 .. n -> Cert] : n \in 0 .. MaxStore}
  /\ \A i, j \in DOMAIN store : i # j => store[i] # store[j]
  /\ keys \subseteq Key
  /\ now \in 0 .. Horizon /\ changes \in 0 .. Changes
  /\ roots \in BOOLEAN /\ mtls \in BOOLEAN
  /\ page \in [at : PageSites, cert : Cert \union {NoCert}, warning : SUBSET Warnings,
               since : 0 .. Horizon, sig : Signatures]
  /\ host \in [at : {"none", "found"}, cert : Cert \union {NoCert}]

-----------------------------------------------------------------------------
(* listCertificates.                                                       *)

ServerAuthOnly(c) == c.eku # {} /\ c.eku \subseteq {"serverAuth"}
DigitalSignature(usage) == usage = {"unset"} \/ "digitalSignature" \in usage
ValidAt(c, day) == c.notBefore <= day /\ day <= c.notAfter

Listed(c) ==
  /\ ~c.ca /\ ValidAt(c, now)
  /\ DigitalSignature(c.usage)
  /\ ~ServerAuthOnly(c)
  /\ c.key \in keys

SigningScore(c) ==
  (IF "contentCommitment" \in c.usage THEN 2 ELSE 0)
  + (IF "email" \in c.eku THEN 1 ELSE 0)
  + (IF "docSigning" \in c.eku THEN 2 ELSE 0)

ExpiredOnly(c) ==  \* mutant: warns of what has expired, not of what is going to
  (IF "contentCommitment" \notin c.usage THEN {"no non-repudiation"} ELSE {})
  \union (IF c.notAfter < now THEN {"expires"} ELSE {})
CertWarning(c) ==
  (IF "contentCommitment" \notin c.usage THEN {"no non-repudiation"} ELSE {})
  \union (IF c.notAfter - now < WarnDays THEN {"expires"} ELSE {})

(* list with c behind its first k entries.                                  *)
Behind(list, k, c) ==
  [i \in 1 .. Len(list) + 1 |->
     IF i <= k THEN list[i] ELSE IF i = k + 1 THEN c ELSE list[i - 1]]

(* sort.SliceStable: each entry goes behind all that score as much or more. *)
GoesFirst(list, k, c) ==  \* mutant: >= in the comparison, equals change places
  /\ \A i \in 1 .. k : SigningScore(list[i]) > SigningScore(c)
  /\ \A i \in k + 1 .. Len(list) : SigningScore(list[i]) <= SigningScore(c)
Goes(list, k, c) ==
  /\ \A i \in 1 .. k : SigningScore(list[i]) >= SigningScore(c)
  /\ \A i \in k + 1 .. Len(list) : SigningScore(list[i]) < SigningScore(c)
Insert(list, c) == Behind(list, CHOOSE k \in 0 .. Len(list) : Goes(list, k, c), c)

(* The list after the first n certificates of the enumeration.              *)
Entries[n \in 0 .. Len(store)] ==
  IF n = 0 THEN <<>>
  ELSE IF Listed(store[n]) THEN Insert(Entries[n - 1], store[n]) ELSE Entries[n - 1]

Listing == Entries[Len(store)]

(* The page takes the first entry, with its warning.                        *)
Choose ==
  /\ page.at = "idle" /\ Listing # <<>>
  /\ page' = [at |-> "chosen", cert |-> Listing[1], warning |-> CertWarning(Listing[1]),
              since |-> now, sig |-> NoSignature]
  /\ UNCHANGED <<store, keys, now, changes, roots, mtls, host>>

(* "no signing certificates found"                                          *)
NothingToChoose ==
  /\ page.at = "idle" /\ Listing = <<>>
  /\ page' = [page EXCEPT !.at = "failed"]
  /\ UNCHANGED <<store, keys, now, changes, roots, mtls, host>>

-----------------------------------------------------------------------------
(* The server opens a session for the certificate: ValidateCert, and the   *)
(* approval app asks that it belongs to the user who authenticated.        *)

ValidateCert(c) == DigitalSignature(c.usage) /\ (roots => c.trusted /\ ValidAt(c, now))

AuthorizeSigningCert(c) == ValidateCert(c) /\ (mtls => c.holder = User)

Prepare ==
  /\ page.at = "chosen"
  /\ page' = [page EXCEPT !.at = IF AuthorizeSigningCert(page.cert) THEN "prepared" ELSE "refused"]
  /\ UNCHANGED <<store, keys, now, changes, roots, mtls, host>>

-----------------------------------------------------------------------------
(* signDigest.                                                             *)

(* The certificate is looked up by its thumbprint and its key acquired; the *)
(* lookup asks for nothing but the thumbprint.                              *)
Find ==
  /\ page.at = "prepared" /\ host.at = "none"
  /\ InStore(page.cert) /\ page.cert.key \in keys
  /\ host' = [at |-> "found", cert |-> page.cert]
  /\ page' = [page EXCEPT !.at = "waiting"]
  /\ UNCHANGED <<store, keys, now, changes, roots, mtls>>

(* "certificate not found in store", "acquire private key (CNG)"            *)
FindFails ==
  /\ page.at = "prepared"
  /\ ~InStore(page.cert) \/ page.cert.key \notin keys
  /\ page' = [page EXCEPT !.at = "failed"]
  /\ UNCHANGED <<store, keys, now, changes, roots, mtls, host>>

PSSForm(alg) == IF alg = "RSA" THEN "PSS" ELSE "DER"       \* mutant: another padding
RawForm(alg) == IF alg = "RSA" THEN "PKCS1v15" ELSE "raw"  \* mutant: no ecdsaRawToDER
Form(alg) == IF alg = "RSA" THEN "PKCS1v15" ELSE "DER"

(* The user enters the PIN while the card is in the reader.                 *)
Sign ==
  /\ host.at = "found" /\ host.cert.alg # "other"
  /\ host.cert.key \in keys
  /\ page' = [page EXCEPT !.at = "signed",
                          !.sig = [key |-> host.cert.key, form |-> Form(host.cert.alg)]]
  /\ host' = [at |-> "none", cert |-> NoCert]
  /\ UNCHANGED <<store, keys, now, changes, roots, mtls>>

(* "unsupported key algorithm", "smart card was removed", "wrong PIN",      *)
(* "card PIN is blocked", "PIN entry was cancelled"                         *)
SignFails ==
  /\ host.at = "found"
  /\ page' = [page EXCEPT !.at = "failed"]
  /\ host' = [at |-> "none", cert |-> NoCert]
  /\ UNCHANGED <<store, keys, now, changes, roots, mtls>>

(* verifyRawSignature against the certificate the session was opened with.  *)
Verifies(c, sig) ==
  /\ c.alg \in {"RSA", "ECDSA"} /\ sig.key = c.key
  /\ sig.form = IF c.alg = "RSA" THEN "PKCS1v15" ELSE "DER"

Finish ==
  /\ page.at = "signed"
  /\ page' = [page EXCEPT !.at = IF Verifies(page.cert, page.sig) THEN "done" ELSE "refused"]
  /\ UNCHANGED <<store, keys, now, changes, roots, mtls, host>>

(* The user approves another document, or the same once more.               *)
Again ==
  /\ page.at \in {"done", "refused", "failed"}
  /\ page' = IdlePage
  /\ UNCHANGED <<store, keys, now, changes, roots, mtls, host>>

-----------------------------------------------------------------------------
(* What happens to the cards, the store and the calendar meanwhile.        *)

Change == changes < Changes /\ changes' = changes + 1

(* A card, or a certificate renewed, appears somewhere in the enumeration.  *)
Appear(c, i) ==
  /\ ~InStore(c) /\ Len(store) < MaxStore /\ Change
  /\ i \in 0 .. Len(store)
  /\ store' = Behind(store, i, c)
  /\ keys' = keys \union {c.key}
  /\ UNCHANGED <<now, roots, mtls, page, host>>

(* A card leaves the reader; Windows keeps its certificates ...             *)
Withdraw(k) ==
  /\ k \in keys /\ Change
  /\ keys' = keys \ {k}
  /\ UNCHANGED <<store, now, roots, mtls, page, host>>

(* ... or drops them, one after the other.                                  *)
Drop(i) ==
  /\ store[i].key \notin keys
  /\ store' = [j \in 1 .. Len(store) - 1 |-> IF j < i THEN store[j] ELSE store[j + 1]]
  /\ UNCHANGED <<keys, now, changes, roots, mtls, page, host>>

(* The bridge's timeouts and the session TTL are minutes: no flow takes     *)
(* longer than FlowDays from the choice to the signature.                   *)
Tick ==
  /\ now < Horizon
  /\ page.at \in {"chosen", "prepared", "waiting", "signed"} => now - page.since < FlowDays
  /\ now' = now + 1
  /\ UNCHANGED <<store, keys, changes, roots, mtls, page, host>>

Init ==
  /\ store \in UNION {[1 .. n -> Cert] : n \in 0 .. MaxStore}
  /\ \A i, j \in DOMAIN store : i # j => store[i] # store[j]
  /\ keys = {c.key : c \in {store[i] : i \in DOMAIN store}}
  /\ roots \in BOOLEAN /\ mtls \in BOOLEAN
  /\ now = 0 /\ changes = 0
  /\ page = IdlePage
  /\ host = [at |-> "none", cert |-> NoCert]

Next ==
  \/ Choose \/ NothingToChoose \/ Prepare \/ Find \/ FindFails \/ Sign \/ SignFails
  \/ Finish \/ Again
  \/ \E c \in Cert, i \in 0 .. MaxStore : Appear(c, i)
  \/ \E k \in Key : Withdraw(k)
  \/ \E i \in DOMAIN store : Drop(i)
  \/ Tick

Spec == Init /\ [][Next]_vars

-----------------------------------------------------------------------------
(* Properties.                                                             *)

(* The list holds exactly what can be signed with now, best first, and      *)
(* equals as the store has them; and what signs for the record stands above *)
(* what merely authenticates ("on PIV/CAC cards the *signature* certificate *)
(* carries the ContentCommitment bit", winsign.go:125), unless the latter   *)
(* is for document signing.                                                 *)
ListingRight ==
  LET L == Listing
      Place(c) == CHOOSE i \in DOMAIN store : store[i] = c
      Commits(c) == "contentCommitment" \in c.usage
  IN
  /\ {L[i] : i \in DOMAIN L} = {c \in Cert : InStore(c) /\ Listed(c)}
  /\ \A i, j \in DOMAIN L : i < j =>
       /\ SigningScore(L[i]) >= SigningScore(L[j])
       /\ SigningScore(L[i]) = SigningScore(L[j]) => Place(L[i]) < Place(L[j])
       /\ Commits(L[j]) /\ ~Commits(L[i]) => "docSigning" \in L[i].eku

(* Bridge and server agree on what a signing certificate and a signature    *)
(* are: the server refuses a certificate the bridge chose for its issuer,   *)
(* its age or its holder only, and never a signature the bridge made - not  *)
(* after cards or certificates changed between the choice and the signature *)
(* either.                                                                  *)
ServerAgrees ==
  page.at = "refused" =>
    /\ page.sig = NoSignature
    /\ \/ roots /\ (~page.cert.trusted \/ ~ValidAt(page.cert, now))
       \/ mtls /\ page.cert.holder # User

(* signDigest does not look at the certificate again, and it need not: one  *)
(* that was listed without a warning is valid and made for signatures when  *)
(* the signature is made too, as long as a flow takes less than WarnDays    *)
(* ("instead of silently degrading", winsign.go:143).  This is about the    *)
(* entry of the list, not about what the user has seen by then: the page    *)
(* displays a warning once the item is signed (app.js:83), not before       *)
(* signing, as winsign.go:48 has it.                                        *)
UnflaggedIsFit ==
  page.at = "signed" /\ page.warning = {} =>
    ValidAt(page.cert, now) /\ "contentCommitment" \in page.cert.usage
=============================================================================
