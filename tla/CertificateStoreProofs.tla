------------------------ MODULE CertificateStoreProofs ------------------------
(***************************************************************************)
(* Proofs about CertificateStore, for any certificates, any size of the    *)
(* store, and any number of days and changes.                              *)
(***************************************************************************)
EXTENDS CertificateStore, WellFoundedInduction, TLAPS

-----------------------------------------------------------------------------
(* Induction, in a form that needs no operator: over the set of the numbers *)
(* that have the property.                                                  *)
LEMMA Least ==
  ASSUME NEW T \in SUBSET Nat, T # {}
  PROVE  \E m \in T : \A k \in T : m <= k
<1> DEFINE R == OpToRel(<, Nat)
<1>1. IsWellFoundedOn(R, Nat)
  BY NatLessThanWellFounded, Zenon
<1>2. \A x, y \in Nat : x < y => <<x, y>> \in R
  BY DEF OpToRel
<1> HIDE DEF R
<1>3. PICK m \in T : \A k \in T : ~(<<k, m>> \in R)
  BY <1>1, WFMin
<1>4. \A k \in T : ~(k < m)
  BY <1>2, <1>3
<1> QED
  BY <1>4

LEMMA InductionUpTo ==
  ASSUME NEW n \in Nat, NEW S, 0 \in S, \A i \in 0 .. n - 1 : i \in S => i + 1 \in S
  PROVE  \A i \in 0 .. n : i \in S
<1> DEFINE Others == {i \in 0 .. n : i \notin S}
<1> SUFFICES ASSUME Others # {} PROVE FALSE
  OBVIOUS
<1>1. PICK m \in Others : \A k \in Others : m <= k
  <2>1. Others \in SUBSET Nat
    OBVIOUS
  <2> HIDE DEF Others
  <2> QED
    BY <2>1, Least
<1>2. m # 0 /\ m - 1 \in 0 .. n - 1 /\ m - 1 \notin Others
  BY <1>1
<1> QED
  BY <1>1, <1>2

-----------------------------------------------------------------------------
(* The list that listCertificates builds.                                  *)

LEMMA Scores ==
  \A c \in Cert : /\ SigningScore(c) \in 0 .. 5
                  /\ "contentCommitment" \in c.usage => SigningScore(c) >= 2
                  /\ "contentCommitment" \notin c.usage /\ "docSigning" \notin c.eku =>
                       SigningScore(c) <= 1
  BY DEF SigningScore

Sorted(L) ==
  \A i, j \in DOMAIN L : i < j => SigningScore(L[i]) >= SigningScore(L[j])

(* In a sorted list there is a place to insert.                             *)
LEMMA PlaceExists ==
  ASSUME NEW L \in Seq(Cert), Sorted(L), NEW c \in Cert
  PROVE  \E k \in 0 .. Len(L) : Goes(L, k, c)
<1> DEFINE Ends == {k \in 0 .. Len(L) :
                      \A i \in k + 1 .. Len(L) : SigningScore(L[i]) < SigningScore(c)}
<1>1. Len(L) \in Ends /\ Ends \in SUBSET Nat
  OBVIOUS
<1>2. PICK k \in Ends : \A e \in Ends : k <= e
  <2> HIDE DEF Ends
  <2> QED
    BY <1>1, Least
<1>3. k > 0 => SigningScore(L[k]) >= SigningScore(c)
  <2> SUFFICES ASSUME k > 0, SigningScore(L[k]) < SigningScore(c) PROVE FALSE
    BY Scores
  <2>1. k - 1 \in Ends
    <3>1. k \in 1 .. Len(L) /\ k - 1 \in 0 .. Len(L)
      OBVIOUS
    <3>2. \A i \in k .. Len(L) : SigningScore(L[i]) < SigningScore(c)
      BY <3>1
    <3> QED
      BY <3>1, <3>2
  <2>2. k <= k - 1
    <3> HIDE DEF Ends
    <3> QED
      BY <1>2, <2>1
  <2> QED
    BY <2>2
<1>4. \A i \in 1 .. k : SigningScore(L[i]) >= SigningScore(c)
  <2> TAKE i \in 1 .. k
  <2>1. i \in DOMAIN L /\ k \in DOMAIN L /\ L[i] \in Cert /\ L[k] \in Cert
    BY <1>2
  <2> QED
    BY <1>3, <2>1, Scores DEF Sorted
<1> QED
  BY <1>2, <1>4 DEF Goes

LEMMA BehindType ==
  ASSUME NEW L \in Seq(Cert), NEW k \in 0 .. Len(L), NEW c \in Cert
  PROVE  /\ Behind(L, k, c) \in Seq(Cert) /\ Len(Behind(L, k, c)) = Len(L) + 1
         /\ DOMAIN Behind(L, k, c) = 1 .. Len(L) + 1
         /\ Behind(L, k, c)[k + 1] = c
         /\ \A i \in 1 .. k : Behind(L, k, c)[i] = L[i]
         /\ \A i \in k + 1 .. Len(L) : Behind(L, k, c)[i + 1] = L[i]
  BY DEF Behind

(* Where the certificate a list entry stands for is in the store.           *)
Place(c) == CHOOSE i \in DOMAIN store : store[i] = c

(* The list L is right for the first n certificates.                        *)
Right(L, n) ==
  /\ L \in Seq(Cert)
  /\ \A i \in DOMAIN L : \E p \in 1 .. n : L[i] = store[p] /\ Listed(store[p])
  /\ \A p \in 1 .. n : Listed(store[p]) => \E i \in DOMAIN L : L[i] = store[p]
  /\ Sorted(L)
  /\ \A i, j \in DOMAIN L :
       i < j /\ SigningScore(L[i]) = SigningScore(L[j]) => Place(L[i]) < Place(L[j])

LEMMA StoreType ==
  ASSUME CardTypeOK
  PROVE  /\ store \in Seq(Cert) /\ Len(store) \in 0 .. MaxStore
         /\ \A p \in 1 .. Len(store) : Place(store[p]) = p
<1>1. PICK n \in 0 .. MaxStore : store \in [1 .. n -> Cert]
  BY DEF CardTypeOK
<1>2. n \in Nat /\ store \in Seq(Cert) /\ Len(store) = n
  BY <1>1, CertificateAssumption
<1>3. \A p \in 1 .. Len(store) : Place(store[p]) = p
  BY <1>2 DEF Place, CardTypeOK
<1> QED
  BY <1>1, <1>2, <1>3

Step(g, n) ==
  IF n = 0 THEN <<>>
  ELSE IF Listed(store[n]) THEN Insert(g[n - 1], store[n]) ELSE g[n - 1]

(* The recursion of Entries defines a function.                             *)
LEMMA EntriesExist ==
  ASSUME store \in Seq(Cert)
  PROVE  Entries = [n \in 0 .. Len(store) |-> Step(Entries, n)]
<1> DEFINE Built == {m \in 0 .. Len(store) : \E g : g = [n \in 0 .. m |-> Step(g, n)]}
<1>1. 0 \in Built
  <2> DEFINE g == [n \in 0 .. 0 |-> <<>>]
  <2>1. g = [n \in 0 .. 0 |-> Step(g, n)]
    BY DEF Step
  <2> HIDE DEF g
  <2> QED
    BY <2>1
<1>2. ASSUME NEW m \in 0 .. Len(store) - 1, m \in Built PROVE m + 1 \in Built
  <2>1. PICK g : g = [n \in 0 .. m |-> Step(g, n)]
    BY <1>2
  <2> DEFINE h == [n \in 0 .. m + 1 |-> IF n = m + 1 THEN Step(g, n) ELSE g[n]]
  <2>2. \A n \in 0 .. m + 1 : Step(h, n) = Step(g, n)
    <3>1. \A n \in 0 .. m : h[n] = g[n]
      OBVIOUS
    <3> HIDE DEF h
    <3> QED
      BY <3>1 DEF Step
  <2>3. \A n \in 0 .. m : g[n] = Step(g, n)
    BY <2>1
  <2>4. h = [n \in 0 .. m + 1 |-> Step(h, n)]
    <3>1. \A n \in 0 .. m + 1 : h[n] = Step(g, n)
      BY <2>3
    <3>2. h = [n \in 0 .. m + 1 |-> h[n]]
      OBVIOUS
    <3> HIDE DEF h
    <3> QED
      BY <2>2, <3>1, <3>2
  <2> HIDE DEF h
  <2> QED
    BY <2>4
<1>3. Len(store) \in Built
  <2>1. Len(store) \in Nat /\ Len(store) \in 0 .. Len(store)
    OBVIOUS
  <2>2. \A m \in 0 .. Len(store) - 1 : m \in Built => m + 1 \in Built
    BY <1>2
  <2> HIDE DEF Built
  <2>3. \A m \in 0 .. Len(store) : m \in Built
    BY <1>1, <2>1, <2>2, InductionUpTo
  <2> QED
    BY <2>1, <2>3
<1>4. \E g : g = [n \in 0 .. Len(store) |-> Step(g, n)]
  BY <1>3
<1> QED
  BY <1>4, Zenon DEF Entries, Step

LEMMA InsertRight ==
  ASSUME CardTypeOK, NEW n \in 1 .. Len(store), NEW L, Right(L, n - 1), Listed(store[n])
  PROVE  Right(Insert(L, store[n]), n)
<1>1. /\ store \in Seq(Cert) /\ \A p \in 1 .. Len(store) : Place(store[p]) = p
      /\ store[n] \in Cert /\ L \in Seq(Cert) /\ Sorted(L)
  BY StoreType DEF Right
<1> DEFINE k == CHOOSE k \in 0 .. Len(L) : Goes(L, k, store[n])
           M == Behind(L, k, store[n])
<1>2. k \in 0 .. Len(L) /\ Goes(L, k, store[n])
  BY <1>1, PlaceExists
<1>3. M = Insert(L, store[n])
  BY DEF Insert
<1> HIDE DEF k
<1>4. /\ M \in Seq(Cert) /\ DOMAIN M = 1 .. Len(L) + 1
      /\ M[k + 1] = store[n]
      /\ \A i \in 1 .. k : M[i] = L[i]
      /\ \A i \in k + 1 .. Len(L) : M[i + 1] = L[i]
  <2>1. L \in Seq(Cert) /\ store[n] \in Cert /\ k \in 0 .. Len(L)
    BY <1>1, <1>2
  <2> QED
    BY ONLY <2>1, BehindType
<1> HIDE DEF M
<1>5. DOMAIN L = 1 .. Len(L) /\ Len(L) \in Nat
  BY <1>1
<1>6. \A j \in DOMAIN M :
        \/ j \in 1 .. k /\ j \in DOMAIN L /\ M[j] = L[j]
        \/ j = k + 1 /\ M[j] = store[n]
        \/ j \in k + 2 .. Len(L) + 1 /\ j - 1 \in DOMAIN L /\ M[j] = L[j - 1]
  <2> TAKE j \in DOMAIN M
  <2>1. j > k + 1 => j - 1 \in k + 1 .. Len(L)
    BY <1>2, <1>4, <1>5
  <2>2. j > k + 1 => M[j] = L[j - 1]
    BY <1>2, <1>4, <1>5, <2>1
  <2> QED
    BY <1>2, <1>4, <1>5, <2>1, <2>2
<1>7. \A i \in DOMAIN L : SigningScore(L[i]) \in Nat /\ Place(L[i]) \in 1 .. n - 1
  <2> TAKE i \in DOMAIN L
  <2>1. PICK p \in 1 .. n - 1 : L[i] = store[p]
    BY DEF Right
  <2>2. p \in 1 .. Len(store) /\ Place(store[p]) = p /\ L[i] \in Cert
    BY <1>1, <1>5
  <2> QED
    BY <2>1, <2>2, Scores
<1>8. SigningScore(store[n]) \in Nat /\ Place(store[n]) = n
  BY <1>1, Scores
<1>9. \A i \in DOMAIN M : \E p \in 1 .. n : M[i] = store[p] /\ Listed(store[p])
  <2> TAKE i \in DOMAIN M
  <2>1. CASE M[i] = store[n]
    BY <2>1
  <2>2. CASE \E j \in DOMAIN L : M[i] = L[j]
    <3>1. PICK p \in 1 .. n - 1 : M[i] = store[p] /\ Listed(store[p])
      BY <2>2 DEF Right
    <3> QED
      BY <3>1
  <2> QED
    BY <1>6, <2>1, <2>2
<1>10. \A p \in 1 .. n : Listed(store[p]) => \E i \in DOMAIN M : M[i] = store[p]
  <2> SUFFICES ASSUME NEW p \in 1 .. n, Listed(store[p])
               PROVE  \E i \in DOMAIN M : M[i] = store[p]
    OBVIOUS
  <2>1. CASE p = n
    BY <1>2, <1>4, <1>5, <2>1
  <2>2. CASE p # n
    <3>1. p \in 1 .. n - 1
      BY <2>2
    <3>2. PICK i \in DOMAIN L : L[i] = store[p]
      BY <3>1 DEF Right
    <3>3. CASE i <= k
      BY <1>2, <1>4, <1>5, <3>2, <3>3
    <3>4. CASE i > k
      <4>1. i \in k + 1 .. Len(L) /\ i + 1 \in DOMAIN M
        BY <1>2, <1>4, <1>5, <3>4
      <4> QED
        BY <1>4, <3>2, <4>1
    <3> QED
      BY <1>2, <1>5, <3>3, <3>4
  <2> QED
    BY <2>1, <2>2
<1>11. ASSUME NEW i \in DOMAIN M, NEW j \in DOMAIN M, i < j
       PROVE  /\ SigningScore(M[i]) >= SigningScore(M[j])
              /\ SigningScore(M[i]) = SigningScore(M[j]) => Place(M[i]) < Place(M[j])
  <2>1. /\ \A a \in 1 .. k : SigningScore(L[a]) >= SigningScore(store[n])
        /\ \A a \in k + 1 .. Len(L) : SigningScore(L[a]) < SigningScore(store[n])
    BY <1>2 DEF Goes
  <2>2. \A a, b \in DOMAIN L : a < b =>
          /\ SigningScore(L[a]) >= SigningScore(L[b])
          /\ SigningScore(L[a]) = SigningScore(L[b]) => Place(L[a]) < Place(L[b])
    BY DEF Right, Sorted
  <2>3. CASE j \in 1 .. k
    <3>1. /\ i \in DOMAIN L /\ j \in DOMAIN L /\ M[i] = L[i] /\ M[j] = L[j]
      BY <1>2, <1>4, <1>5, <1>11, <2>3
    <3> QED
      BY <1>11, <2>2, <3>1
  <2>4. CASE j = k + 1
    <3>1. i \in 1 .. k /\ i \in DOMAIN L /\ M[i] = L[i] /\ M[j] = store[n]
      BY <1>2, <1>4, <1>5, <1>11, <2>4
    <3> QED
      BY <1>7, <1>8, <2>1, <3>1
  <2>5. CASE j \in k + 2 .. Len(L) + 1
    <3>1. j - 1 \in DOMAIN L /\ j - 1 \in k + 1 .. Len(L) /\ M[j] = L[j - 1]
      BY <1>2, <1>5, <1>6, <2>5
    <3>2. CASE i \in 1 .. k
      <4>1. i \in DOMAIN L /\ i < j - 1 /\ M[i] = L[i]
        BY <1>2, <1>4, <1>5, <2>5, <3>2
      <4> QED
        BY <2>2, <3>1, <4>1
    <3>3. CASE i = k + 1
      BY <1>4, <1>7, <1>8, <2>1, <3>1, <3>3
    <3>4. CASE i \in k + 2 .. Len(L) + 1
      <4>1. i - 1 \in DOMAIN L /\ i - 1 < j - 1 /\ M[i] = L[i - 1]
        BY <1>2, <1>5, <1>6, <1>11, <2>5, <3>4
      <4> QED
        BY <2>2, <3>1, <4>1
    <3> QED
      BY <1>2, <1>4, <1>5, <3>2, <3>3, <3>4
  <2> QED
    BY <1>2, <1>4, <1>5, <2>3, <2>4, <2>5
<1> QED
  BY <1>3, <1>4, <1>9, <1>10, <1>11 DEF Right, Sorted

LEMMA SkipRight ==
  ASSUME CardTypeOK, NEW n \in 1 .. Len(store), NEW L, Right(L, n - 1), ~Listed(store[n])
  PROVE  Right(L, n)
<1>1. n \in Nat /\ 1 .. n = (1 .. n - 1) \union {n}
  BY StoreType
<1> QED
  BY <1>1 DEF Right

(* By induction over the store, the whole list is right.                    *)
LEMMA ListingIsRight ==
  ASSUME CardTypeOK
  PROVE  Right(Listing, Len(store))
<1> DEFINE Good == {n \in 0 .. Len(store) : Right(Entries[n], n)}
<1>1. store \in Seq(Cert) /\ Len(store) \in Nat
  BY StoreType
<1>2. \A n \in 0 .. Len(store) : Entries[n] = Step(Entries, n)
  BY <1>1, EntriesExist
<1>3. 0 \in Good
  <2>1. Entries[0] = <<>> /\ 0 \in 0 .. Len(store)
    BY <1>1, <1>2 DEF Step
  <2>2. Right(<<>>, 0)
    BY DEF Right, Sorted
  <2> QED
    BY <2>1, <2>2
<1>4. ASSUME NEW n \in 0 .. Len(store) - 1, n \in Good PROVE n + 1 \in Good
  <2>1. n + 1 \in 1 .. Len(store) /\ (n + 1) - 1 = n /\ n + 1 \in 0 .. Len(store) /\ n + 1 # 0
    BY <1>1
  <2>2. Entries[n + 1] = IF Listed(store[n + 1]) THEN Insert(Entries[n], store[n + 1])
                                                 ELSE Entries[n]
    BY <1>2, <2>1 DEF Step
  <2>3. Right(Entries[n], (n + 1) - 1)
    BY <1>4, <2>1
  <2>4. Right(Entries[n + 1], n + 1)
    BY <2>1, <2>2, <2>3, InsertRight, SkipRight
  <2> QED
    BY <2>1, <2>4
<1>5. \A n \in 0 .. Len(store) : n \in Good
  <2>1. \A n \in 0 .. Len(store) - 1 : n \in Good => n + 1 \in Good
    BY <1>4
  <2> HIDE DEF Good
  <2> QED
    BY <1>1, <1>3, <2>1, InductionUpTo
<1> QED
  BY <1>1, <1>5 DEF Listing

LEMMA TypeGivesListing == CardTypeOK => ListingRight
<1> SUFFICES ASSUME CardTypeOK PROVE ListingRight
  OBVIOUS
<1>1. Right(Listing, Len(store))
  BY ListingIsRight
<1>2. store \in Seq(Cert) /\ DOMAIN store = 1 .. Len(store)
  BY StoreType
<1> DEFINE L == Listing
<1>3. /\ L \in Seq(Cert)
      /\ \A i \in DOMAIN L : \E p \in 1 .. Len(store) : L[i] = store[p] /\ Listed(store[p])
      /\ \A p \in 1 .. Len(store) : Listed(store[p]) => \E i \in DOMAIN L : L[i] = store[p]
  BY <1>1 DEF Right
<1>4. \A i \in DOMAIN L : L[i] \in Cert /\ InStore(L[i]) /\ Listed(L[i])
  <2> HIDE DEF L
  <2> TAKE i \in DOMAIN L
  <2>1. PICK p \in DOMAIN store : L[i] = store[p] /\ Listed(store[p])
    BY <1>2, <1>3
  <2>2. L[i] \in Cert
    BY <1>3
  <2>3. InStore(L[i])
    BY <2>1 DEF InStore
  <2> QED
    BY <2>1, <2>2, <2>3
<1>5. \A c \in Cert : InStore(c) /\ Listed(c) => \E i \in DOMAIN L : L[i] = c
  <2> HIDE DEF L
  <2> QED
    BY <1>2, <1>3 DEF InStore
<1>6. {L[i] : i \in DOMAIN L} = {c \in Cert : InStore(c) /\ Listed(c)}
  <2> HIDE DEF L
  <2> QED
    BY <1>4, <1>5
<1>7. ASSUME NEW i \in DOMAIN L, NEW j \in DOMAIN L, i < j
      PROVE  /\ SigningScore(L[i]) >= SigningScore(L[j])
             /\ SigningScore(L[i]) = SigningScore(L[j]) => Place(L[i]) < Place(L[j])
             /\ "contentCommitment" \in L[j].usage /\ "contentCommitment" \notin L[i].usage
                  => "docSigning" \in L[i].eku
  <2> HIDE DEF L
  <2>1. L[i] \in Cert /\ L[j] \in Cert
    BY <1>4
  <2>2. /\ SigningScore(L[i]) >= SigningScore(L[j])
        /\ SigningScore(L[i]) = SigningScore(L[j]) => Place(L[i]) < Place(L[j])
    BY <1>1, <1>7 DEF Right, Sorted, L
  <2> QED
    BY <2>1, <2>2, Scores
<1> QED
  BY <1>6, <1>7 DEF ListingRight, Place

-----------------------------------------------------------------------------
(* Store, cards and calendar.                                              *)

LEMMA InitTyped == Init => CardTypeOK
  BY CertificateAssumption DEF Init, CardTypeOK, Key, IdlePage, PageSites, Signatures, NoSignature

(* The best entry is a certificate of the store that can sign now.          *)
LEMMA FirstEntry ==
  ASSUME CardTypeOK, Listing # <<>>
  PROVE  Listing[1] \in Cert /\ Listed(Listing[1])
<1>1. Right(Listing, Len(store))
  BY ListingIsRight
<1> DEFINE L == Listing
<1> HIDE DEF L
<1>2. L \in Seq(Cert) /\ L # <<>> /\ \A i \in DOMAIN L : Listed(L[i])
  BY <1>1 DEF Right, L
<1>3. 1 \in DOMAIN L
  BY <1>2
<1> QED
  BY <1>2, <1>3 DEF L

StoreSteps ==
  \/ \E c \in Cert, i \in 0 .. MaxStore : Appear(c, i)
  \/ \E k \in Key : Withdraw(k)
  \/ \E i \in DOMAIN store : Drop(i)

PageSteps ==
  \/ Choose \/ NothingToChoose \/ Prepare \/ Find \/ FindFails \/ Sign \/ SignFails
  \/ Finish \/ Again

StoreOK ==
  /\ store \in UNION {[1 .. n -> Cert] : n \in 0 .. MaxStore}
  /\ \A i, j \in DOMAIN store : i # j => store[i] # store[j]

LEMMA StoreTyped ==
  ASSUME CardTypeOK, StoreSteps
  PROVE  CardTypeOK'
<1>1. /\ store \in Seq(Cert) /\ Len(store) \in 0 .. MaxStore /\ MaxStore \in Nat
      /\ DOMAIN store = 1 .. Len(store) /\ Len(store) \in Nat
      /\ \A i, j \in DOMAIN store : i # j => store[i] # store[j]
  BY StoreType, CertificateAssumption DEF CardTypeOK
<1>2. /\ changes' \in 0 .. Changes /\ keys' \subseteq Key
      /\ UNCHANGED <<now, roots, mtls, page, host>>
  BY CertificateAssumption DEF CardTypeOK, StoreSteps, Appear, Withdraw, Drop, Change, Key
<1>3. StoreOK'
  <2>1. CASE \E k \in Key : Withdraw(k)
    BY <2>1 DEF Withdraw, CardTypeOK, StoreOK
  <2>2. ASSUME NEW c \in Cert, NEW k \in 0 .. MaxStore, Appear(c, k) PROVE StoreOK'
    <3>1. k \in 0 .. Len(store) /\ Len(store) < MaxStore /\ ~InStore(c)
          /\ store' = Behind(store, k, c)
      BY <2>2 DEF Appear
    <3>2. /\ store' \in Seq(Cert) /\ Len(store') = Len(store) + 1
          /\ DOMAIN store' = 1 .. Len(store) + 1
      BY <1>1, <3>1, BehindType
    <3>3. store' \in [1 .. Len(store) + 1 -> Cert] /\ Len(store) + 1 \in 0 .. MaxStore
      BY <1>1, <3>1, <3>2
    <3>4. \A i \in DOMAIN store : store[i] # c
      BY <3>1 DEF InStore
    <3>5. \A i, j \in 1 .. Len(store) + 1 : i # j => store'[i] # store'[j]
      <4> DEFINE old(a) == IF a <= k THEN a ELSE a - 1
      <4>1. ASSUME NEW a \in 1 .. Len(store) + 1
            PROVE  IF a = k + 1 THEN store'[a] = c
                   ELSE old(a) \in DOMAIN store /\ store'[a] = store[old(a)]
        BY <1>1, <3>1 DEF Behind
      <4>2. ASSUME NEW i \in 1 .. Len(store) + 1, NEW j \in 1 .. Len(store) + 1,
                   i # j, i # k + 1, j # k + 1
            PROVE  old(i) # old(j)
        BY <1>1, <3>1, <4>2
      <4> HIDE DEF old
      <4> QED
        BY <1>1, <3>4, <4>1, <4>2
    <3> QED
      BY <3>2, <3>3, <3>5 DEF StoreOK
  <2>3. ASSUME NEW k \in DOMAIN store, Drop(k) PROVE StoreOK'
    <3>1. store' = [j \in 1 .. Len(store) - 1 |-> IF j < k THEN store[j] ELSE store[j + 1]]
      BY <2>3 DEF Drop
    <3>2. store' \in [1 .. Len(store) - 1 -> Cert] /\ Len(store) - 1 \in 0 .. MaxStore
      BY <1>1, <3>1
    <3>3. \A i, j \in 1 .. Len(store) - 1 : i # j => store'[i] # store'[j]
      BY <1>1, <3>1
    <3> QED
      BY <3>2, <3>3 DEF StoreOK
  <2> QED
    BY <2>1, <2>2, <2>3 DEF StoreSteps
<1> QED
  BY <1>2, <1>3 DEF CardTypeOK, StoreOK

LEMMA PageTyped ==
  ASSUME CardTypeOK, PageSteps
  PROVE  CardTypeOK'
<1>1. UNCHANGED <<store, keys, now, changes, roots, mtls>>
  BY DEF PageSteps, Choose, NothingToChoose, Prepare, Find, FindFails, Sign, SignFails, Finish, Again
<1>2. page' \in [at : PageSites, cert : Cert \union {NoCert}, warning : SUBSET Warnings,
                 since : 0 .. Horizon, sig : Signatures]
  <2> USE DEF CardTypeOK, PageSites
  <2>1. CASE Choose
    <3>1. Listing[1] \in Cert /\ CertWarning(Listing[1]) \subseteq Warnings
      BY <2>1, FirstEntry DEF Choose, CertWarning, Warnings
    <3> QED
      BY <2>1, <3>1 DEF Choose, Signatures
  <2>2. CASE Sign
    <3>1. host.cert \in Cert \/ host.cert = NoCert
      OBVIOUS
    <3>2. page'.sig \in Signatures
      BY <2>2 DEF Sign, Signatures, Form, Key
    <3> QED
      BY <2>2, <3>2 DEF Sign, Signatures, Form, Key
  <2>3. CASE Again
    <3>1. 0 \in 0 .. Horizon /\ {} \in SUBSET Warnings /\ NoSignature \in Signatures
      BY CertificateAssumption DEF Signatures
    <3> QED
      BY <2>3, <3>1 DEF Again, IdlePage
  <2>4. \A site \in PageSites :
          [page EXCEPT !.at = site] \in [at : PageSites, cert : Cert \union {NoCert},
            warning : SUBSET Warnings, since : 0 .. Horizon, sig : Signatures]
    OBVIOUS
  <2>5. CASE NothingToChoose \/ Find \/ FindFails \/ SignFails
    BY <2>4, <2>5 DEF NothingToChoose, Find, FindFails, SignFails
  <2>6. CASE Prepare \/ Finish
    <3>1. PICK site \in PageSites : page' = [page EXCEPT !.at = site]
      BY <2>6 DEF Prepare, Finish
    <3> HIDE DEF CardTypeOK, PageSites
    <3> QED
      BY <2>4, <3>1, Zenon
  <2> QED
    BY <2>1, <2>2, <2>3, <2>5, <2>6 DEF PageSteps
<1>3. host' \in [at : {"none", "found"}, cert : Cert \union {NoCert}]
  BY DEF CardTypeOK, PageSteps, Choose, NothingToChoose, Prepare, Find, FindFails, Sign, SignFails,
     Finish, Again
<1> QED
  BY <1>1, <1>2, <1>3 DEF CardTypeOK

LEMMA TickTyped ==
  ASSUME CardTypeOK, Tick
  PROVE  CardTypeOK'
  BY CertificateAssumption DEF CardTypeOK, Tick

LEMMA Steps == Next <=> PageSteps \/ StoreSteps \/ Tick
  BY DEF Next, PageSteps, StoreSteps

(* The state of store, cards, page and host keeps its type                  *)
(* (CertificateStore's CardTypeOK).                                         *)
THEOREM CardsTypeCorrect == Spec => []CardTypeOK
<1>1. CardTypeOK /\ [Next]_vars => CardTypeOK'
  <2>1. CardTypeOK /\ UNCHANGED vars => CardTypeOK'
    BY DEF CardTypeOK, vars
  <2> QED
    BY <2>1, Steps, StoreTyped, PageTyped, TickTyped
<1> QED
  BY <1>1, InitTyped, PTL DEF Spec

(* However the certificates are ordered in the store and whatever cards are *)
(* in the reader, the host lists what can sign, best first, and equals as   *)
(* the store has them (CertificateStore's ListingRight).                    *)
THEOREM BestFirst == Spec => []ListingRight
  BY CardsTypeCorrect, TypeGivesListing, PTL

-----------------------------------------------------------------------------
(* What the choice of a certificate still means when it is used.           *)

InFlow == {"chosen", "prepared", "waiting", "signed"}

(* page.since is the day of the listing: of the certificate, only what was  *)
(* looked at on that day is known.                                          *)
PageKnows ==
  /\ page.at \in InFlow \union {"done", "refused"} =>
       /\ page.cert \in Cert /\ page.since <= now
       /\ DigitalSignature(page.cert.usage) /\ ValidAt(page.cert, page.since)
       /\ page.warning = {} => /\ "contentCommitment" \in page.cert.usage
                               /\ page.cert.notAfter - page.since >= WarnDays
  /\ page.at \in InFlow => now - page.since <= FlowDays
  /\ page.at \in {"chosen", "prepared", "waiting"} => page.sig = NoSignature
  /\ page.at = "signed" => Verifies(page.cert, page.sig)
  /\ host.at = "found" => page.at = "waiting" /\ host.cert = page.cert

Inv == CardTypeOK /\ PageKnows /\ ServerAgrees

LEMMA Numbers ==
  /\ Horizon \in Nat /\ FlowDays \in Nat /\ WarnDays \in Nat /\ FlowDays < WarnDays
  /\ \A c \in Cert : c.notBefore \in Int /\ c.notAfter \in Int
  BY CertificateAssumption

LEMMA PageStep ==
  ASSUME Inv, PageSteps
  PROVE  PageKnows' /\ ServerAgrees'
<1> USE Numbers DEF InFlow
<1>1. /\ UNCHANGED <<store, keys, now, changes, roots, mtls>>
      /\ now \in 0 .. Horizon /\ CardTypeOK /\ PageKnows /\ ServerAgrees
  BY DEF Inv, CardTypeOK, PageSteps, Choose, NothingToChoose, Prepare, Find, FindFails, Sign,
         SignFails, Finish, Again
<1>2. /\ page.at \in PageSites /\ page.since \in 0 .. Horizon
      /\ page = [at |-> page.at, cert |-> page.cert, warning |-> page.warning,
                 since |-> page.since, sig |-> page.sig]
  BY <1>1 DEF CardTypeOK
<1>3. CASE Choose
  <2>1. Listing[1] \in Cert /\ Listed(Listing[1])
    BY <1>1, <1>3, FirstEntry DEF Choose
  <2>2. /\ page'.at = "chosen" /\ page'.cert = Listing[1] /\ page'.since = now
        /\ page'.warning = CertWarning(Listing[1]) /\ page'.sig = NoSignature
        /\ host.at # "found" /\ host' = host
    BY <1>1, <1>3 DEF Choose, PageKnows
  <2>3. CertWarning(Listing[1]) = {} =>
          /\ "contentCommitment" \in Listing[1].usage
          /\ Listing[1].notAfter - now >= WarnDays
    <3>1. "contentCommitment" \notin Listing[1].usage =>
            "no non-repudiation" \in CertWarning(Listing[1])
      BY DEF CertWarning
    <3>2. Listing[1].notAfter - now < WarnDays => "expires" \in CertWarning(Listing[1])
      BY DEF CertWarning
    <3> QED
      BY <1>1, <2>1, <3>1, <3>2
  <2> QED
    BY <1>1, <2>1, <2>2, <2>3 DEF PageKnows, ServerAgrees, Listed, ValidAt
<1>4. CASE NothingToChoose \/ FindFails \/ SignFails
  BY <1>1, <1>2, <1>4 DEF NothingToChoose, FindFails, SignFails, PageKnows, ServerAgrees
<1>5. CASE Prepare
  <2>1. /\ page.at = "chosen" /\ host.at # "found" /\ UNCHANGED host
        /\ page' = [page EXCEPT !.at = IF AuthorizeSigningCert(page.cert) THEN "prepared"
                                                                         ELSE "refused"]
    BY <1>1, <1>5 DEF Prepare, PageKnows
  <2>2. CASE AuthorizeSigningCert(page.cert)
    BY <1>1, <1>2, <2>1, <2>2 DEF PageKnows, ServerAgrees, ValidAt
  <2>3. CASE ~AuthorizeSigningCert(page.cert)
    <3>1. \/ roots /\ (~page.cert.trusted \/ ~ValidAt(page.cert, now))
          \/ mtls /\ page.cert.holder # User
      BY <1>1, <2>1, <2>3 DEF AuthorizeSigningCert, ValidateCert, PageKnows
    <3>2. /\ page'.at = "refused" /\ page'.cert = page.cert /\ page'.sig = page.sig
          /\ page'.since = page.since /\ page'.warning = page.warning
      BY <1>2, <2>1, <2>3
    <3> QED
      BY <1>1, <2>1, <3>1, <3>2 DEF PageKnows, ServerAgrees, ValidAt
  <2> QED
    BY <2>2, <2>3
<1>6. CASE Find
  BY <1>1, <1>2, <1>6 DEF Find, PageKnows, ServerAgrees, ValidAt
<1>7. CASE Sign
  <2>1. /\ page.at = "waiting" /\ host.cert = page.cert /\ page.cert \in Cert
        /\ page.cert.alg \in {"RSA", "ECDSA"}
    BY <1>1, <1>7, CertificateAssumption DEF Sign, PageKnows
  <2>2. /\ page'.at = "signed" /\ page'.cert = page.cert /\ page'.since = page.since
        /\ page'.warning = page.warning /\ host'.at = "none"
        /\ page'.sig = [key |-> page.cert.key, form |-> Form(page.cert.alg)]
    BY <1>2, <1>7, <2>1 DEF Sign
  <2>3. Verifies(page'.cert, page'.sig)
    BY <2>1, <2>2 DEF Verifies, Form
  <2> QED
    BY <1>1, <2>1, <2>2, <2>3 DEF PageKnows, ServerAgrees, ValidAt
<1>8. CASE Finish
  <2>1. page.at = "signed" /\ page' = [page EXCEPT !.at = "done"] /\ UNCHANGED host
    BY <1>1, <1>8 DEF Finish, PageKnows
  <2> QED
    BY <1>1, <1>2, <2>1 DEF PageKnows, ServerAgrees, ValidAt
<1>9. CASE Again
  BY <1>1, <1>9 DEF Again, IdlePage, PageKnows, ServerAgrees
<1> QED
  BY <1>3, <1>4, <1>5, <1>6, <1>7, <1>8, <1>9 DEF PageSteps

(* Nothing that happens to cards and store disturbs a flow.                 *)
LEMMA StoreStep ==
  ASSUME Inv, StoreSteps
  PROVE  PageKnows' /\ ServerAgrees'
<1>1. UNCHANGED <<now, roots, mtls, page, host>>
  BY DEF StoreSteps, Appear, Withdraw, Drop
<1> QED
  BY <1>1 DEF Inv, PageKnows, ServerAgrees, ValidAt

LEMMA TickStep ==
  ASSUME Inv, Tick
  PROVE  PageKnows' /\ ServerAgrees'
<1>1. /\ now' = now + 1 /\ UNCHANGED <<roots, mtls, page, host>> /\ now \in 0 .. Horizon
      /\ page.since \in 0 .. Horizon
      /\ page.at \in InFlow => now - page.since < FlowDays
  BY DEF Tick, Inv, CardTypeOK, InFlow
<1>2. PageKnows'
  BY <1>1, Numbers DEF Inv, PageKnows, InFlow, ValidAt
<1>3. ServerAgrees'
  BY <1>1, Numbers DEF Inv, PageKnows, ServerAgrees, ValidAt
<1> QED
  BY <1>2, <1>3

LEMMA Always == Spec => []Inv
<1>1. Init => Inv
  BY InitTyped DEF Init, Inv, PageKnows, ServerAgrees, IdlePage, InFlow
<1>2. Inv /\ [Next]_vars => Inv'
  <2>1. ASSUME Inv, Next PROVE Inv'
    BY <2>1, Steps, StoreTyped, PageTyped, TickTyped, PageStep, StoreStep, TickStep DEF Inv
  <2>2. ASSUME Inv, UNCHANGED vars PROVE Inv'
    <3>1. CardTypeOK'
      BY <2>2 DEF Inv, CardTypeOK, vars
    <3>2. PageKnows' /\ ServerAgrees'
      BY <2>2 DEF Inv, PageKnows, ServerAgrees, ValidAt, vars
    <3> QED
      BY <3>1, <3>2 DEF Inv
  <2> QED
    BY <2>1, <2>2
<1> QED
  BY <1>1, <1>2, PTL DEF Spec

(* What the bridge listed and signed, the server accepts, unless issuer,    *)
(* age or holder of the certificate speak against it (CertificateStore's    *)
(* ServerAgrees).                                                           *)
THEOREM ServerAcceptsTheCard == Spec => []ServerAgrees
<1>1. Inv => ServerAgrees
  BY DEF Inv
<1> QED
  BY <1>1, Always, PTL

(* A certificate that was listed without a warning is valid, and one for    *)
(* signatures, when the signature is made (CertificateStore's               *)
(* UnflaggedIsFit).  When a warning is displayed is not claimed.            *)
THEOREM UnflaggedStaysFit == Spec => []UnflaggedIsFit
<1>1. Inv => UnflaggedIsFit
  <2> SUFFICES ASSUME Inv, page.at = "signed", page.warning = {}
               PROVE  ValidAt(page.cert, now) /\ "contentCommitment" \in page.cert.usage
    BY DEF UnflaggedIsFit
  <2>1. now \in 0 .. Horizon /\ page.since \in 0 .. Horizon
    BY DEF Inv, CardTypeOK
  <2> QED
    BY <2>1, Numbers DEF Inv, PageKnows, InFlow, ValidAt
<1> QED
  BY <1>1, Always, PTL
=============================================================================
