---------------------------- MODULE CertRingProofs ----------------------------
(***************************************************************************)
(* Proofs about rings of certificates and separate signatures.             *)
(***************************************************************************)
EXTENDS CertRing, FiniteSetTheorems, SequenceTheorems, TLAPS

-----------------------------------------------------------------------------
(* Checks made in order.                                                   *)

(* A set of naturals that is not empty has a least element.                *)
LEMMA LeastOf ==
  ASSUME NEW S, S \subseteq Nat, S # {}
  PROVE  \E i \in S : \A j \in S : i <= j
<1> DEFINE R == OpToRel(<, Nat)
<1>1. IsWellFoundedOn(R, Nat)
  BY NatLessThanWellFounded
<1>2. ASSUME NEW x \in Nat, NEW y \in Nat, y < x
      PROVE  <<y, x>> \in R
  BY <1>2 DEF OpToRel
<1> HIDE DEF R
<1>3. PICK x \in S : \A y \in S : ~ (<<y, x>> \in R)
  BY <1>1, WFMin
<1>4. ASSUME NEW y \in S
      PROVE  x <= y
  <2>1. x \in Nat /\ y \in Nat
    OBVIOUS
  <2>2. ~ (y < x)
    BY <1>2, <1>3, <2>1
  <2>3. QED
    BY <2>1, <2>2
<1>5. QED
  BY <1>4

(* Checks end well when all of them hold and what comes after them does,   *)
(* if each check that fails has a code of its own.                         *)
LEMMA FirstOk ==
  ASSUME NEW checks, NEW end, Len(checks) \in Nat,
         \A i \in 1 .. Len(checks) : checks[i][1] \/ checks[i][2] # "ERR_OK"
  PROVE  First(checks, end) = "ERR_OK"
           <=> (\A i \in 1 .. Len(checks) : checks[i][1]) /\ end = "ERR_OK"
<1> DEFINE F == Failed(checks)
           k == CHOOSE i \in F : \A j \in F : i <= j
<1>1. \A i : i \in F <=> i \in 1 .. Len(checks) /\ ~ checks[i][1]
  BY DEF Failed
<1>2. CASE F = {}
  <2>1. First(checks, end) = end
    BY <1>2 DEF First, CodeOf
  <2>2. QED
    BY <1>1, <1>2, <2>1
<1>3. CASE F # {}
  <2>1. F \subseteq Nat
    BY <1>1
  <2> HIDE DEF F
  <2>2. \E i \in F : \A j \in F : i <= j
    BY <1>3, <2>1, LeastOf
  <2>3. k \in F
    BY <2>2
  <2>4. First(checks, end) = checks[k][2]
    BY <1>3 DEF First, CodeOf, F
  <2> HIDE DEF k
  <2>5. QED
    BY <1>1, <2>3, <2>4
<1>4. QED
  BY <1>2, <1>3

(* With one check.                                                          *)
LEMMA First1 ==
  ASSUME NEW f, Len(f) = 1, NEW end,
         f[1][1] \/ f[1][2] # "ERR_OK"
  PROVE  First(f, end) = "ERR_OK"
           <=> f[1][1] /\ end = "ERR_OK"
<1>0. Len(f) \in Nat
  OBVIOUS
<1>1. \A i \in 1 .. Len(f) : f[i][1] \/ f[i][2] # "ERR_OK"
  OBVIOUS
<1>2. First(f, end) = "ERR_OK" <=> (\A i \in 1 .. Len(f) : f[i][1]) /\ end = "ERR_OK"
  BY <1>0, <1>1, FirstOk
<1>3. (\A i \in 1 .. Len(f) : f[i][1]) <=> f[1][1]
  OBVIOUS
<1>4. QED
  BY <1>2, <1>3

(* With two checks.                                                         *)
LEMMA First2 ==
  ASSUME NEW f, Len(f) = 2, NEW end,
         f[1][1] \/ f[1][2] # "ERR_OK",
         f[2][1] \/ f[2][2] # "ERR_OK"
  PROVE  First(f, end) = "ERR_OK"
           <=> f[1][1] /\ f[2][1] /\ end = "ERR_OK"
<1>0. Len(f) \in Nat
  OBVIOUS
<1>1. \A i \in 1 .. Len(f) : f[i][1] \/ f[i][2] # "ERR_OK"
  OBVIOUS
<1>2. First(f, end) = "ERR_OK" <=> (\A i \in 1 .. Len(f) : f[i][1]) /\ end = "ERR_OK"
  BY <1>0, <1>1, FirstOk
<1>3. (\A i \in 1 .. Len(f) : f[i][1]) <=> f[1][1] /\ f[2][1]
  OBVIOUS
<1>4. QED
  BY <1>2, <1>3

(* With three checks.                                                       *)
LEMMA First3 ==
  ASSUME NEW f, Len(f) = 3, NEW end,
         f[1][1] \/ f[1][2] # "ERR_OK",
         f[2][1] \/ f[2][2] # "ERR_OK",
         f[3][1] \/ f[3][2] # "ERR_OK"
  PROVE  First(f, end) = "ERR_OK"
           <=> f[1][1] /\ f[2][1] /\ f[3][1] /\ end = "ERR_OK"
<1>0. Len(f) \in Nat
  OBVIOUS
<1>1. \A i \in 1 .. Len(f) : f[i][1] \/ f[i][2] # "ERR_OK"
  OBVIOUS
<1>2. First(f, end) = "ERR_OK" <=> (\A i \in 1 .. Len(f) : f[i][1]) /\ end = "ERR_OK"
  BY <1>0, <1>1, FirstOk
<1>3. (\A i \in 1 .. Len(f) : f[i][1]) <=> f[1][1] /\ f[2][1] /\ f[3][1]
  OBVIOUS
<1>4. QED
  BY <1>2, <1>3

(* With four checks.                                                        *)
LEMMA First4 ==
  ASSUME NEW f, Len(f) = 4, NEW end,
         f[1][1] \/ f[1][2] # "ERR_OK",
         f[2][1] \/ f[2][2] # "ERR_OK",
         f[3][1] \/ f[3][2] # "ERR_OK",
         f[4][1] \/ f[4][2] # "ERR_OK"
  PROVE  First(f, end) = "ERR_OK"
           <=> f[1][1] /\ f[2][1] /\ f[3][1] /\ f[4][1] /\ end = "ERR_OK"
<1>0. Len(f) \in Nat
  OBVIOUS
<1>1. \A i \in 1 .. Len(f) : f[i][1] \/ f[i][2] # "ERR_OK"
  OBVIOUS
<1>2. First(f, end) = "ERR_OK" <=> (\A i \in 1 .. Len(f) : f[i][1]) /\ end = "ERR_OK"
  BY <1>0, <1>1, FirstOk
<1>3. (\A i \in 1 .. Len(f) : f[i][1]) <=> f[1][1] /\ f[2][1] /\ f[3][1] /\ f[4][1]
  OBVIOUS
<1>4. QED
  BY <1>2, <1>3

(* With five checks.                                                        *)
LEMMA First5 ==
  ASSUME NEW f, Len(f) = 5, NEW end,
         f[1][1] \/ f[1][2] # "ERR_OK",
         f[2][1] \/ f[2][2] # "ERR_OK",
         f[3][1] \/ f[3][2] # "ERR_OK",
         f[4][1] \/ f[4][2] # "ERR_OK",
         f[5][1] \/ f[5][2] # "ERR_OK"
  PROVE  First(f, end) = "ERR_OK"
           <=> f[1][1] /\ f[2][1] /\ f[3][1] /\ f[4][1] /\ f[5][1] /\ end = "ERR_OK"
<1>0. Len(f) \in Nat
  OBVIOUS
<1>1. \A i \in 1 .. Len(f) : f[i][1] \/ f[i][2] # "ERR_OK"
  OBVIOUS
<1>2. First(f, end) = "ERR_OK" <=> (\A i \in 1 .. Len(f) : f[i][1]) /\ end = "ERR_OK"
  BY <1>0, <1>1, FirstOk
<1>3. (\A i \in 1 .. Len(f) : f[i][1]) <=> f[1][1] /\ f[2][1] /\ f[3][1] /\ f[4][1] /\ f[5][1]
  OBVIOUS
<1>4. QED
  BY <1>2, <1>3

-----------------------------------------------------------------------------
(* Keys and certificates.                                                  *)

(* What a public key that is right is.                                      *)
LEMMA PubkeyOk ==
  ASSUME NEW k
  PROVE  btokPubkeyVal(k) = "ERR_OK"
           <=> k[1] % 2 = 0 /\ k[1] \div 2 \in Lens /\ k[2] # "nobody"
<1> DEFINE p == k[1] % 2 = 0 /\ k[1] \div 2 \in Lens
           q == k[2] # "nobody"
           f == <<<<p, "ERR_BAD_INPUT">>, <<q, "ERR_BAD_PUBKEY">>>>
<1> SUFFICES First(f, "ERR_OK") = "ERR_OK" <=> p /\ q
  BY DEF btokPubkeyVal
<1>1. p \in BOOLEAN /\ q \in BOOLEAN
  OBVIOUS
<1> HIDE DEF p, q
<1>2. QED
  BY <1>1, First2

(* What a pair of keys that is right is.                                    *)
LEMMA KeypairOk ==
  ASSUME NEW d, NEW k
  PROVE  btokKeypairVal(d, k) = "ERR_OK"
           <=> k[1] = 2 * d[1] /\ d[1] \in Lens /\ k[2] = d[2]
<1> DEFINE p == k[1] = 2 * d[1]
           q == d[1] \in Lens
           r == k[2] = d[2]
           f == <<<<p, "ERR_BAD_KEYPAIR">>, <<q, "ERR_BAD_INPUT">>, <<r, "ERR_BAD_PUBKEY">>>>
<1> SUFFICES First(f, "ERR_OK") = "ERR_OK" <=> p /\ q /\ r
  BY DEF btokKeypairVal
<1>1. p \in BOOLEAN /\ q \in BOOLEAN /\ r \in BOOLEAN
  OBVIOUS
<1> HIDE DEF p, q, r
<1>2. QED
  BY <1>1, First3

(* Who made a signature that is verified.                                  *)
LEMMA VerifyOk ==
  ASSUME NEW body, NEW sig, NEW k, btokVerify(body, sig, k) = "ERR_OK"
  PROVE  btokPubkeyCalc(sig.by) = k
<1> DEFINE c == btokPubkeyVal(k)
           p == c = "ERR_OK"
           q == btokPubkeyCalc(sig.by) = k /\ sig.over = body
           f == <<<<p, c>>, <<q, "ERR_BAD_SIG">>>>
<1>1. First(f, "ERR_OK") = "ERR_OK"
  BY DEF btokVerify
<1>2. p \in BOOLEAN /\ q \in BOOLEAN /\ (p \/ c # "ERR_OK")
  OBVIOUS
<1> HIDE DEF p, q, c
<1>3. q
  BY <1>1, <1>2, First2
<1>4. QED
  BY <1>3 DEF q

(* A certificate that is right has a right key.                            *)
LEMMA CheckOk ==
  ASSUME NEW cvc, btokCVCCheck(cvc) = "ERR_OK"
  PROVE  btokPubkeyVal(cvc.pubkey) = "ERR_OK"
BY First2 DEF btokCVCCheck

(* What a decoder has at hand is a certificate with all its fields.        *)
HasFields(s) == "cvc" \in DOMAIN s /\ DOMAIN s.cvc = DOMAIN Blank

(* A field that is taken, or not, leaves all of them.                       *)
LEMMA FieldTaken ==
  ASSUME NEW s, HasFields(s)
  PROVE  /\ HasFields(Take(s, "42", LAMBDA c, v : [c EXCEPT !.authority = v]))
         /\ HasFields(Take(s, "7F49", LAMBDA c, v : [c EXCEPT !.pubkey = v]))
         /\ HasFields(Take(s, "5F20", LAMBDA c, v : [c EXCEPT !.holder = v]))
         /\ HasFields(Take(s, "5F25", LAMBDA c, v : [c EXCEPT !.from = v]))
         /\ HasFields(Take(s, "5F24", LAMBDA c, v : [c EXCEPT !.until = v]))
         /\ HasFields(TakeIf(s, "7F4C", LAMBDA c, v : [c EXCEPT !.hat_eid = v]))
         /\ HasFields(TakeIf(s, "65", LAMBDA c, v : [c EXCEPT !.hat_esign = v]))
BY DEF HasFields, Take, TakeIf

(* So do the fields at the beginning.                                       *)
LEMMA NamesTaken ==
  ASSUME NEW s, HasFields(s)
  PROVE  HasFields(TakeNames(s))
<1> DEFINE s1 == Take(s, "42", LAMBDA c, v : [c EXCEPT !.authority = v])
           s2 == Take(s1, "7F49", LAMBDA c, v : [c EXCEPT !.pubkey = v])
<1>1. HasFields(s1)
  BY FieldTaken
<1> HIDE DEF s1
<1>2. HasFields(s2)
  BY <1>1, FieldTaken
<1> HIDE DEF s2
<1>3. HasFields(Take(s2, "5F20", LAMBDA c, v : [c EXCEPT !.holder = v]))
  BY <1>2, FieldTaken
<1>4. QED
  BY <1>3 DEF TakeNames, s1, s2

(* So do those at the end.                                                  *)
LEMMA RightsTaken ==
  ASSUME NEW s, HasFields(s)
  PROVE  HasFields(TakeRights(s))
<1> DEFINE s1 == TakeIf(s, "7F4C", LAMBDA c, v : [c EXCEPT !.hat_eid = v])
           s2 == Take(s1, "5F25", LAMBDA c, v : [c EXCEPT !.from = v])
           s3 == Take(s2, "5F24", LAMBDA c, v : [c EXCEPT !.until = v])
<1>1. HasFields(s1)
  BY FieldTaken
<1> HIDE DEF s1
<1>2. HasFields(s2)
  BY <1>1, FieldTaken
<1> HIDE DEF s2
<1>3. HasFields(s3)
  BY <1>2, FieldTaken
<1> HIDE DEF s3
<1>4. HasFields(TakeIf(s3, "65", LAMBDA c, v : [c EXCEPT !.hat_esign = v]))
  BY <1>3, FieldTaken
<1>5. QED
  BY <1>4 DEF TakeRights, s1, s2, s3

(* A decoded certificate has all its fields.                                *)
LEMMA Decoded ==
  ASSUME NEW body
  PROVE  DOMAIN btokCVCBodyDec(body).cvc = DOMAIN Blank
<1> DEFINE s == [ok |-> TRUE, rest |-> body, cvc |-> Blank]
           t == TakeRights(TakeNames(s))
<1>1. HasFields(s)
  BY DEF HasFields
<1> HIDE DEF s
<1>2. HasFields(t)
  BY <1>1, NamesTaken, RightsTaken
<1>3. btokCVCBodyDec(body) = Taken(t)
  BY DEF btokCVCBodyDec, s
<1> HIDE DEF t
<1>4. QED
  BY <1>2, <1>3 DEF HasFields, Taken

(* What is in a certificate does not depend on the key it is unwrapped     *)
(* with.  When that ends well, its key is right, and its signature was     *)
(* made with the key that was asked for.                                   *)
LEMMA Unwrapped ==
  ASSUME NEW c \in Names_, NEW key
  PROVE  LET d == btokCVCBodyDec(Certs[c].body).cvc
             u == btokCVCUnwrap(Certs[c], key)
         IN /\ u.cvc = [d EXCEPT !.sig = Certs[c].sig]
            /\ u.cvc.pubkey = d.pubkey /\ u.cvc.sig = Certs[c].sig /\ IsKey(d.pubkey)
            /\ u.code = "ERR_OK" => btokPubkeyVal(d.pubkey) = "ERR_OK"
            /\ u.code = "ERR_OK" /\ key # None /\ key # Own
                 => btokPubkeyCalc(Certs[c].sig.by) = key
<1> DEFINE cert == Certs[c]
           b == btokCVCBodyDec(cert.body)
           d == b.cvc
           u == btokCVCUnwrap(cert, key)
           cvc == [d EXCEPT !.sig = cert.sig]
           pubkey == IF key = Own THEN d.pubkey ELSE key
           lens == IF pubkey = None THEN {SigLen(l) : l \in Lens} ELSE {SigLen(pubkey[1] \div 2)}
           verified == IF pubkey = None THEN "ERR_OK" ELSE btokVerify(cert.body, cert.sig, pubkey)
           p == b.ok
           q == cert.sig.len \in lens
           r == verified = "ERR_OK"
           t == ~ cert.trail
<1>1. IsKey(d.pubkey)
  BY RingAssumption
<1>2. DOMAIN d = DOMAIN Blank
  BY Decoded
<1> HIDE DEF b
<1>3. cvc.pubkey = d.pubkey /\ cvc.sig = cert.sig
  BY <1>2 DEF Blank
<1>4. u.cvc = cvc
  BY DEF btokCVCUnwrap, Verified, b
<1>5. p \in BOOLEAN /\ q \in BOOLEAN /\ r \in BOOLEAN /\ t \in BOOLEAN
  <2>1. p \in BOOLEAN
    BY DEF btokCVCBodyDec, Taken, b
  <2>2. QED
    BY <2>1
<1>6. u.code = First(<<<<p, "ERR_BAD_FORMAT">>, <<q, "ERR_BAD_FORMAT">>,
                       <<r, verified>>, <<t, "ERR_BAD_FORMAT">>>>, btokCVCCheck(cvc))
  BY DEF btokCVCUnwrap, Verified, b
<1>7. r \/ verified # "ERR_OK"
  OBVIOUS
<1> HIDE DEF p, q, r, t, cvc, u, verified
<1>8. ASSUME u.code = "ERR_OK"
      PROVE  r /\ btokCVCCheck(cvc) = "ERR_OK"
  BY <1>5, <1>6, <1>7, <1>8, First4
<1>9. u.code = "ERR_OK" => btokPubkeyVal(d.pubkey) = "ERR_OK"
  BY <1>3, <1>8, CheckOk
<1>10. ASSUME u.code = "ERR_OK", key # None, key # Own
       PROVE  btokPubkeyCalc(Certs[c].sig.by) = key
  <2>1. btokVerify(cert.body, cert.sig, key) = "ERR_OK"
    BY <1>8, <1>10 DEF r, verified
  <2>2. QED
    BY <2>1, VerifyOk
<1>11. QED
  BY <1>1, <1>3, <1>4, <1>9, <1>10 DEF u, cvc, b

(* A key that is a pair is neither of the two that are not keys.           *)
LEMMA KeyIsKey ==
  ASSUME NEW k, IsKey(k)
  PROVE  k # None /\ k # Own
<1>1. k = <<k[1], k[2]>>
  BY DEF IsKey
<1>2. Len(k) = 2
  BY <1>1
<1>3. Len(None) = 0 /\ Len(Own) = 1
  BY DEF None, Own
<1>4. QED
  BY <1>2, <1>3

-----------------------------------------------------------------------------
(* Sequences of items.                                                     *)

(* A sequence that something is appended to.                                *)
LEMMA AppendParts ==
  ASSUME NEW S, NEW s \in Seq(S), NEW e
  PROVE  /\ Len(Append(s, e)) = Len(s) + 1 /\ Append(s, e) # <<>>
         /\ Last_(Append(s, e)) = e /\ Front_(Append(s, e)) = s
         /\ \A i \in 1 .. Len(s) : Append(s, e)[i] = s[i]
<1>1. s \in Seq(S \cup {e}) /\ e \in S \cup {e}
  OBVIOUS
<1>2. Append(s, e) \in Seq(S \cup {e}) /\ Len(Append(s, e)) = Len(s) + 1
  BY <1>1
<1> DEFINE t == Append(s, e)
<1>3. /\ t \in Seq(S \cup {e}) /\ Len(t) = Len(s) + 1 /\ t[Len(s) + 1] = e
      /\ \A i \in 1 .. Len(s) : t[i] = s[i]
  BY <1>1, <1>2
<1> HIDE DEF t
<1>4. t # <<>> /\ Last_(t) = e
  BY <1>3 DEF Last_
<1>5. Front_(t) = s
  <2>1. Front_(t) = SubSeq(t, 1, Len(s))
    BY <1>3 DEF Front_
  <2> DEFINE u == SubSeq(t, 1, Len(s))
  <2>2. /\ u \in Seq(S \cup {e}) /\ Len(u) = Len(s)
        /\ \A i \in 1 .. Len(s) : u[i] = t[i]
    BY <1>3
  <2> HIDE DEF u
  <2>3. u = s
    BY <1>1, <1>3, <2>2
  <2>4. QED
    BY <2>1, <2>3 DEF u
<1>6. QED
  BY <1>3, <1>4, <1>5 DEF t

(* A sequence that something is taken out of.                               *)
LEMMA WithoutParts ==
  ASSUME NEW S, NEW s \in Seq(S), NEW i \in 1 .. Len(s)
  PROVE  /\ Without(s, i) \in Seq(S) /\ Len(Without(s, i)) = Len(s) - 1
         /\ \A j \in 1 .. Len(s) - 1 : Without(s, i)[j] = s[IF j < i THEN j ELSE j + 1]
<1> DEFINE a == SubSeq(s, 1, i - 1)
           b == SubSeq(s, i + 1, Len(s))
<1>1. /\ a \in Seq(S) /\ Len(a) = i - 1
      /\ \A j \in 1 .. i - 1 : a[j] = s[j]
  OBVIOUS
<1>2. /\ b \in Seq(S) /\ Len(b) = Len(s) - i
      /\ \A j \in 1 .. Len(s) - i : b[j] = s[i + j]
  OBVIOUS
<1>3. Without(s, i) = a \o b
  BY DEF Without
<1> HIDE DEF a, b
<1>4. /\ a \o b \in Seq(S) /\ Len(a \o b) = Len(s) - 1
      /\ \A j \in 1 .. Len(s) - 1 : (a \o b)[j] = IF j <= i - 1 THEN a[j] ELSE b[j - (i - 1)]
  <2>1. /\ a \o b \in Seq(S) /\ Len(a \o b) = Len(a) + Len(b)
        /\ \A j \in 1 .. Len(a) + Len(b) :
             (a \o b)[j] = IF j <= Len(a) THEN a[j] ELSE b[j - Len(a)]
    BY <1>1, <1>2, ConcatProperties
  <2>2. Len(a) + Len(b) = Len(s) - 1
    BY <1>1, <1>2
  <2>3. QED
    BY <1>1, <2>1, <2>2
<1>5. ASSUME NEW j \in 1 .. Len(s) - 1
      PROVE  (a \o b)[j] = s[IF j < i THEN j ELSE j + 1]
  <2>1. CASE j < i
    BY <1>1, <1>4, <2>1
  <2>2. CASE ~ (j < i)
    <3>1. j - (i - 1) \in 1 .. Len(s) - i /\ i + (j - (i - 1)) = j + 1
      BY <2>2
    <3>2. (a \o b)[j] = b[j - (i - 1)]
      BY <1>4, <2>2
    <3>3. QED
      BY <1>2, <2>2, <3>1, <3>2
  <2>3. QED
    BY <2>1, <2>2
<1> DEFINE w == a \o b
<1>6. /\ w \in Seq(S) /\ Len(w) = Len(s) - 1
      /\ \A j \in 1 .. Len(s) - 1 : w[j] = s[IF j < i THEN j ELSE j + 1]
  BY <1>4, <1>5
<1>7. Without(s, i) = w
  BY <1>3
<1> HIDE DEF w
<1>8. QED
  BY <1>6, <1>7

(* What is known of a collection of whole certificates.                     *)
LEMMA ItemsOf ==
  ASSUME NEW certs \in Seq(Names_)
  PROVE  /\ Items(certs) \in Seq({CertItem(c) : c \in Names_})
         /\ Len(Items(certs)) = Len(certs) /\ DOMAIN Items(certs) = 1 .. Len(certs)
         /\ \A i \in 1 .. Len(certs) : /\ Items(certs)[i] = CertItem(certs[i])
                                       /\ Items(certs)[i].kind = "cert"
                                       /\ Items(certs)[i].cert = certs[i]
         /\ Walked(Items(certs)) = 1 .. Len(certs) /\ WalkEnds(Items(certs))
         /\ Exists(Items(certs)) /\ (Items(certs) = <<>> <=> certs = <<>>)
<1>1. /\ Items(certs) = [i \in 1 .. Len(certs) |-> CertItem(certs[i])]
      /\ Len(certs) \in Nat /\ \A i \in 1 .. Len(certs) : certs[i] \in Names_
  BY DEF Items
<1>2. /\ Items(certs) \in Seq({CertItem(c) : c \in Names_})
      /\ Len(Items(certs)) = Len(certs) /\ DOMAIN Items(certs) = 1 .. Len(certs)
  BY <1>1
<1>3. \A i \in 1 .. Len(certs) : /\ Items(certs)[i] = CertItem(certs[i])
                                 /\ Items(certs)[i].kind = "cert"
                                 /\ Items(certs)[i].cert = certs[i]
  BY <1>1 DEF CertItem
<1>4. Walked(Items(certs)) = 1 .. Len(certs)
  BY <1>1, <1>2, <1>3 DEF Walked
<1>5. WalkEnds(Items(certs))
  BY <1>2, <1>4 DEF WalkEnds
<1>6. Exists(Items(certs))
  <2>1. Absent[1].kind = "absent" /\ Len(Absent) = 1
    BY DEF Absent
  <2>2. ASSUME Items(certs) = Absent
        PROVE  FALSE
    <3>1. Len(certs) = 1 /\ Items(certs)[1].kind = "absent"
      BY <1>2, <2>1, <2>2
    <3>2. QED
      BY <1>3, <3>1
  <2>3. QED
    BY <2>2 DEF Exists
<1>7. Items(certs) = <<>> <=> certs = <<>>
  BY <1>2
<1>8. QED
  BY <1>2, <1>3, <1>4, <1>5, <1>6, <1>7

(* A certificate put at the end of a collection.                            *)
LEMMA ItemsAppend ==
  ASSUME NEW certs \in Seq(Names_), NEW c \in Names_
  PROVE  Items(Append(certs, c)) = Append(Items(certs), CertItem(c))
<1> DEFINE a == Items(Append(certs, c))
           b == Append(Items(certs), CertItem(c))
           S == {CertItem(d) : d \in Names_}
<1>1. Append(certs, c) \in Seq(Names_) /\ Len(Append(certs, c)) = Len(certs) + 1
  OBVIOUS
<1>2. /\ a \in Seq(S) /\ Len(a) = Len(certs) + 1
      /\ \A i \in 1 .. Len(certs) + 1 : a[i] = CertItem(Append(certs, c)[i])
  BY <1>1, ItemsOf
<1>3. /\ b \in Seq(S) /\ Len(b) = Len(certs) + 1
      /\ b[Len(certs) + 1] = CertItem(c)
      /\ \A i \in 1 .. Len(certs) : b[i] = Items(certs)[i]
  <2> DEFINE items == Items(certs)
             e == CertItem(c)
             n == Len(certs)
  <2>1. items \in Seq(S) /\ Len(items) = n /\ e \in S /\ n \in Nat
    BY ItemsOf
  <2> HIDE DEF items, e, S, n
  <2>2. /\ Append(items, e) \in Seq(S) /\ Len(Append(items, e)) = n + 1
        /\ Append(items, e)[n + 1] = e
        /\ \A i \in 1 .. n : Append(items, e)[i] = items[i]
    BY <2>1
  <2>3. QED
    BY <2>2 DEF items, e, n
<1>4. \A i \in 1 .. Len(certs) + 1 : a[i] = b[i]
  <2>1. Len(certs) \in Nat /\ \A i \in 1 .. Len(certs) : Append(certs, c)[i] = certs[i]
    OBVIOUS
  <2>2. Append(certs, c)[Len(certs) + 1] = c
    OBVIOUS
  <2>3. \A i \in 1 .. Len(certs) : Items(certs)[i] = CertItem(certs[i])
    BY ItemsOf
  <2> HIDE DEF a, b, S
  <2>4. QED
    BY <1>2, <1>3, <2>1, <2>2, <2>3
<1> HIDE DEF a, b, S
<1>5. a = b
  BY <1>2, <1>3, <1>4
<1>6. QED
  BY <1>5 DEF a, b

(* A certificate taken out of a collection.                                 *)
LEMMA ItemsWithout ==
  ASSUME NEW certs \in Seq(Names_), NEW i \in 1 .. Len(certs)
  PROVE  Items(Without(certs, i)) = Without(Items(certs), i)
<1> DEFINE a == Items(Without(certs, i))
           b == Without(Items(certs), i)
           S == {CertItem(d) : d \in Names_}
<1>1. /\ Items(certs) \in Seq(S) /\ Len(Items(certs)) = Len(certs)
      /\ \A j \in 1 .. Len(certs) : Items(certs)[j] = CertItem(certs[j])
  BY ItemsOf
<1>2. /\ Without(certs, i) \in Seq(Names_) /\ Len(Without(certs, i)) = Len(certs) - 1
      /\ \A j \in 1 .. Len(certs) - 1 :
           Without(certs, i)[j] = certs[IF j < i THEN j ELSE j + 1]
  BY WithoutParts
<1>3. /\ a \in Seq(S) /\ Len(a) = Len(certs) - 1
      /\ \A j \in 1 .. Len(certs) - 1 : a[j] = CertItem(Without(certs, i)[j])
  BY <1>2, ItemsOf
<1> HIDE DEF S
<1>4. /\ b \in Seq(S) /\ Len(b) = Len(certs) - 1
      /\ \A j \in 1 .. Len(certs) - 1 :
           b[j] = Items(certs)[IF j < i THEN j ELSE j + 1]
  BY <1>1, WithoutParts
<1> HIDE DEF a, b
<1>5. ASSUME NEW j \in 1 .. Len(certs) - 1
      PROVE  a[j] = b[j]
  <2>1. (IF j < i THEN j ELSE j + 1) \in 1 .. Len(certs)
    OBVIOUS
  <2>2. QED
    BY <1>1, <1>2, <1>3, <1>4, <2>1
<1>6. a = b
  BY <1>3, <1>4, <1>5
<1>7. QED
  BY <1>6 DEF a, b

-----------------------------------------------------------------------------
(* Walks over collections.                                                 *)

Inside(c) == btokCVCUnwrap(Certs[c], None)
KeyOf(c) == btokCVCBodyDec(Certs[c].body).cvc.pubkey
Readable(certs) == \A i \in 1 .. Len(certs) : Inside(certs[i]).code = "ERR_OK"

(* Each item of a collection is looked at in turn.                         *)
LEMMA EachOk ==
  ASSUME NEW n \in Nat, NEW code
  PROVE  First([i \in 1 .. n |-> <<code[i] = "ERR_OK", code[i]>>], "ERR_OK") = "ERR_OK"
           <=> \A i \in 1 .. n : code[i] = "ERR_OK"
<1> DEFINE f == [i \in 1 .. n |-> <<code[i] = "ERR_OK", code[i]>>]
<1>1. /\ Len(f) = n
      /\ \A i \in 1 .. n : (f[i][1] <=> code[i] = "ERR_OK") /\ f[i][2] = code[i]
  <2>1. Len(f) = n
    OBVIOUS
  <2>2. ASSUME NEW i \in 1 .. n
        PROVE  (f[i][1] <=> code[i] = "ERR_OK") /\ f[i][2] = code[i]
    <3>1. f[i] = <<code[i] = "ERR_OK", code[i]>>
      OBVIOUS
    <3> DEFINE p == code[i] = "ERR_OK"
    <3>2. \A q \in BOOLEAN : <<q, code[i]>>[1] = q /\ <<q, code[i]>>[2] = code[i]
      OBVIOUS
    <3>3. p \in BOOLEAN /\ f[i] = <<p, code[i]>>
      BY <3>1
    <3> HIDE DEF f, p
    <3>4. f[i][1] = p /\ f[i][2] = code[i]
      BY <3>2, <3>3
    <3>5. QED
      BY <3>4 DEF p
  <2>3. QED
    BY <2>1, <2>2
<1> HIDE DEF f
<1>2. \A i \in 1 .. Len(f) : f[i][1] \/ f[i][2] # "ERR_OK"
  BY <1>1
<1>3. First(f, "ERR_OK") = "ERR_OK" <=> \A i \in 1 .. Len(f) : f[i][1]
  BY <1>1, <1>2, FirstOk
<1>4. QED
  BY <1>1, <1>3 DEF f

(* A collection that is checked well is one of readable certificates.       *)
LEMMA CheckAll ==
  ASSUME NEW certs \in Seq(Names_)
  PROVE  cmdCVCsCheck(Items(certs)) = "ERR_OK" <=> Readable(certs)
<1> DEFINE n == Len(certs)
           code == [i \in 1 .. n |-> Inside(certs[i]).code]
<1>1. cmdCVCsCheck(Items(certs))
        = First([i \in 1 .. n |-> <<code[i] = "ERR_OK", code[i]>>], "ERR_OK")
  BY ItemsOf DEF cmdCVCsCheck, Inside
<1>2. n \in Nat
  OBVIOUS
<1> HIDE DEF n
<1>3. cmdCVCsCheck(Items(certs)) = "ERR_OK" <=> \A i \in 1 .. n : code[i] = "ERR_OK"
  BY <1>1, <1>2, EachOk
<1>4. QED
  BY <1>3 DEF Readable, n

(* What validation finds of the i-th certificate of a chain.               *)
OnDay(certs, date, i) == IF i = Len(certs) /\ date # NoDate THEN <<date>> ELSE <<>>
ValCode(certs, date, i) ==
  IF i = 1 THEN Inside(certs[1]).code
  ELSE btokCVCVal2(Certs[certs[i]], Inside(certs[i - 1]).cvc, OnDay(certs, date, i))

(* A chain that is validated well is validated at each of its places.       *)
LEMMA ValAll ==
  ASSUME NEW certs \in Seq(Names_), NEW date
  PROVE  cmdCVCsVal(Items(certs), date) = "ERR_OK"
           <=> \A i \in 1 .. Len(certs) : ValCode(certs, date, i) = "ERR_OK"
<1> DEFINE n == Len(certs)
           code == [i \in 1 .. n |-> ValCode(certs, date, i)]
<1>1. cmdCVCsVal(Items(certs), date)
        = First([i \in 1 .. n |-> <<code[i] = "ERR_OK", code[i]>>], "ERR_OK")
  <2> DEFINE items == Items(certs)
             of(i) == btokCVCUnwrap(Certs[items[i].cert], None)
             on(i) == IF i = Len(items) /\ date # NoDate THEN <<date>> ELSE <<>>
             c(i) == CASE items[i].kind # "cert" -> "ERR_BAD_CERT"
                       [] i = 1 -> of(1).code
                       [] OTHER -> btokCVCVal2(Certs[items[i].cert], of(i - 1).cvc, on(i))
  <2>1. cmdCVCsVal(items, date)
          = First([i \in DOMAIN items |-> <<c(i) = "ERR_OK", c(i)>>], "ERR_OK")
    BY DEF cmdCVCsVal
  <2>2. ASSUME NEW i \in 1 .. n
        PROVE  c(i) = ValCode(certs, date, i)
    <3>1. items[i].kind = "cert" /\ items[i].cert = certs[i] /\ Len(items) = n
      BY ItemsOf
    <3> HIDE DEF items
    <3>2. CASE i = 1
      BY <3>1, <3>2 DEF ValCode, Inside
    <3>3. CASE i # 1
      <4>1. i - 1 \in 1 .. n
        BY <3>3
      <4>2. items[i - 1].cert = certs[i - 1]
        BY <4>1, ItemsOf DEF items
      <4>3. QED
        BY <3>1, <3>3, <4>2 DEF ValCode, OnDay, Inside
    <3>4. QED
      BY <3>2, <3>3
  <2>3. DOMAIN items = 1 .. n
    BY ItemsOf
  <2> HIDE DEF c, items
  <2>4. QED
    BY <2>1, <2>2, <2>3 DEF items
<1>2. n \in Nat
  OBVIOUS
<1> HIDE DEF n
<1>3. cmdCVCsVal(Items(certs), date) = "ERR_OK" <=> \A i \in 1 .. n : code[i] = "ERR_OK"
  BY <1>1, <1>2, EachOk
<1>4. QED
  BY <1>3 DEF n

(* The search for a certificate.                                           *)
LEMMA FindOne ==
  ASSUME NEW certs \in Seq(Names_), NEW c
  PROVE  /\ cmdCVCsFind(Items(certs), CertItem(c)).code
              = IF \E i \in 1 .. Len(certs) : certs[i] = c THEN "ERR_OK" ELSE "ERR_NOT_FOUND"
         /\ cmdCVCsFind(Items(certs), CertItem(c)).code = "ERR_OK"
              => /\ cmdCVCsFind(Items(certs), CertItem(c)).offset \in 1 .. Len(certs)
                 /\ certs[cmdCVCsFind(Items(certs), CertItem(c)).offset] = c
<1> DEFINE found == {i \in Walked(Items(certs)) : Items(certs)[i] = CertItem(c)}
           r == cmdCVCsFind(Items(certs), CertItem(c))
           o == CHOOSE i \in found : \A j \in found : i <= j
<1>1. \A i : i \in found <=> i \in 1 .. Len(certs) /\ certs[i] = c
  <2>1. \A i \in 1 .. Len(certs) : Items(certs)[i] = CertItem(c) <=> certs[i] = c
    <3>1. \A d : CertItem(d) = CertItem(c) <=> d = c
      BY DEF CertItem
    <3>2. QED
      BY <3>1, ItemsOf
  <2>2. QED
    BY <2>1, ItemsOf
<1>2. WalkEnds(Items(certs))
  BY ItemsOf
<1>3. CASE found = {}
  <2>1. r.code = "ERR_NOT_FOUND"
    BY <1>2, <1>3 DEF cmdCVCsFind
  <2> HIDE DEF r, found
  <2>2. QED
    BY <1>1, <1>3, <2>1 DEF r
<1>4. CASE found # {}
  <2>1. r.code = "ERR_OK" /\ r.offset = o
    BY <1>4 DEF cmdCVCsFind
  <2>2. found \subseteq Nat
    BY <1>1
  <2> HIDE DEF r, found
  <2>3. \E i \in found : \A j \in found : i <= j
    BY <1>4, <2>2, LeastOf
  <2>4. o \in found
    BY <2>3
  <2> HIDE DEF o
  <2>5. QED
    BY <1>1, <2>1, <2>4 DEF r
<1> HIDE DEF r, found
<1>5. QED
  BY <1>3, <1>4

-----------------------------------------------------------------------------
(* Signing and verifying.                                                  *)

(* The key of a certificate, and its signature.                             *)
LEMMA InsideOf ==
  ASSUME NEW c \in Names_
  PROVE  /\ Inside(c).cvc.pubkey = KeyOf(c) /\ IsKey(KeyOf(c))
         /\ Inside(c).cvc.sig = Certs[c].sig
         /\ Inside(c).code = "ERR_OK" => btokPubkeyVal(KeyOf(c)) = "ERR_OK"
BY Unwrapped DEF Inside, KeyOf

(* A key that matches a certificate is its key.                             *)
LEMMA MatchOk ==
  ASSUME NEW c \in Names_, NEW key, IsKey(key), btokCVCMatch(Certs[c], key) = "ERR_OK"
  PROVE  Inside(c).code = "ERR_OK" /\ key[1] \in Lens /\ KeyOf(c) = btokPubkeyCalc(key)
<1>1. Inside(c).code = "ERR_OK" /\ btokKeypairVal(key, Inside(c).cvc.pubkey) = "ERR_OK"
  BY DEF btokCVCMatch, Inside
<1>2. Inside(c).cvc.pubkey = KeyOf(c) /\ IsKey(KeyOf(c))
  BY InsideOf
<1>3. KeyOf(c)[1] = 2 * key[1] /\ key[1] \in Lens /\ KeyOf(c)[2] = key[2]
  BY <1>1, <1>2, KeypairOk
<1>4. KeyOf(c) = <<KeyOf(c)[1], KeyOf(c)[2]>>
  BY <1>2 DEF IsKey
<1>5. QED
  BY <1>1, <1>3, <1>4 DEF btokPubkeyCalc

(* What is known of a chain that something was signed with.                *)
GoodChain(certs, date, key) ==
  /\ date = NoDate \/ tmDateIsValid2(date)
  /\ cmdCVCsVal(Items(certs), date) = "ERR_OK" /\ key[1] \in Lens
  /\ certs # <<>> => /\ Inside(certs[Len(certs)]).code = "ERR_OK"
                     /\ KeyOf(certs[Len(certs)]) = btokPubkeyCalc(key)

(* Signing ends well with a good chain, over a file that is there.          *)
LEMMA SignOk ==
  ASSUME NEW certs \in Seq(Names_), NEW date, NEW key, IsKey(key), NEW file,
         cmdSigSign(Items(certs), date, key, file) = "ERR_OK"
  PROVE  GoodChain(certs, date, key) /\ Exists(file)
<1> DEFINE val == cmdCVCsVal(Items(certs), date)
           match == Matched(val, Items(certs), key)
           p == date = NoDate \/ tmDateIsValid2(date)
           q == match = "ERR_OK"
           r == key[1] \in Lens
           t == Exists(file)
<1>1. p \in BOOLEAN /\ q \in BOOLEAN /\ r \in BOOLEAN /\ t \in BOOLEAN
  BY DEF tmDateIsValid2, Exists
<1>2. cmdSigSign(Items(certs), date, key, file)
        = First(<<<<r, "ERR_BAD_INPUT">>, <<p, "ERR_BAD_DATE">>, <<q, match>>,
                  <<t, "ERR_FILE_READ">>>>, "ERR_OK")
  BY DEF cmdSigSign
<1>3. q \/ match # "ERR_OK"
  OBVIOUS
<1> HIDE DEF p, q, r, t, match, val
<1>4. p /\ q /\ r /\ t
  <2> DEFINE f == First(<<<<r, "ERR_BAD_INPUT">>, <<p, "ERR_BAD_DATE">>, <<q, match>>,
                          <<t, "ERR_FILE_READ">>>>, "ERR_OK")
  <2>1. f = "ERR_OK" <=> p /\ q /\ r /\ t /\ "ERR_OK" = "ERR_OK"
    <3>1. /\ p \/ "ERR_BAD_DATE" # "ERR_OK"
          /\ r \/ "ERR_BAD_INPUT" # "ERR_OK"
          /\ t \/ "ERR_FILE_READ" # "ERR_OK"
      OBVIOUS
    <3>2. QED
      BY <1>1, <1>3, <3>1, First4, SMT
  <2>2. f = "ERR_OK"
    BY <1>2
  <2>3. QED
    BY <2>1, <2>2
<1>5. CASE certs = <<>>
  <2>1. Items(certs) = <<>>
    BY <1>5, ItemsOf
  <2>2. val = "ERR_OK"
    BY <1>4, <2>1 DEF q, match, Matched
  <2>3. QED
    BY <1>4, <1>5, <2>2 DEF p, r, t, val, GoodChain
<1>6. CASE certs # <<>>
  <2>1. Len(certs) \in 1 .. Len(certs) /\ certs[Len(certs)] \in Names_
    BY <1>6
  <2>2. /\ Items(certs) # <<>>
        /\ Last_(Items(certs)).cert = certs[Len(certs)]
    BY <1>6, <2>1, ItemsOf DEF Last_
  <2>3. val = "ERR_OK" /\ btokCVCMatch(Certs[certs[Len(certs)]], key) = "ERR_OK"
    BY <1>4, <2>2 DEF q, match, Matched
  <2>4. /\ Inside(certs[Len(certs)]).code = "ERR_OK"
        /\ KeyOf(certs[Len(certs)]) = btokPubkeyCalc(key)
    BY <2>1, <2>3, MatchOk
  <2>5. QED
    BY <1>4, <2>3, <2>4 DEF p, r, t, val, GoodChain
<1>7. QED
  BY <1>5, <1>6

(* The signer is the one whose certificate is the last.                    *)
LEMMA SignerLast ==
  ASSUME NEW certs \in Seq(Names_), certs # <<>>
  PROVE  /\ Signer(Items(certs)) = Inside(certs[Len(certs)])
         /\ Signer(Items(certs)).cvc.pubkey = KeyOf(certs[Len(certs)])
<1>1. Len(certs) \in 1 .. Len(certs) /\ certs[Len(certs)] \in Names_
  OBVIOUS
<1>2. /\ Items(certs) # <<>> /\ WalkEnds(Items(certs))
      /\ Last_(Items(certs)).cert = certs[Len(certs)]
  BY <1>1, ItemsOf DEF Last_
<1>3. Signer(Items(certs)) = Inside(certs[Len(certs)])
  BY <1>2 DEF Signer, cmdCVCsGetLast, Inside
<1> DEFINE c == certs[Len(certs)]
<1>4. Signer(Items(certs)) = Inside(c) /\ c \in Names_
  BY <1>1, <1>3
<1> HIDE DEF c
<1>5. Signer(Items(certs)).cvc.pubkey = KeyOf(c)
  BY <1>4, InsideOf
<1>6. QED
  BY <1>3, <1>5 DEF c

(* A signature is verified on the key it was made with and on what it was  *)
(* made over, on nothing else.                                             *)
LEMMA VerifyOnSig ==
  ASSUME NEW certs, NEW date, NEW key, IsKey(key), NEW file,
         NEW k, IsKey(k), NEW items
  PROVE  VerifyOn(SigOf(certs, date, key, file), k, items) = "ERR_OK"
           <=> btokPubkeyVal(k) = "ERR_OK" /\ k = btokPubkeyCalc(key) /\ items = file
<1> DEFINE s == SigOf(certs, date, key, file)
           hash == cmdSigHash(k[1] \div 2, items, s.certs, s.date)
           p == btokPubkeyVal(k) = "ERR_OK"
           q == s.sig.len = SigLen(k[1] \div 2) /\ btokPubkeyCalc(s.sig.by) = k
                /\ s.sig.over = hash
<1>1. p \in BOOLEAN /\ q \in BOOLEAN /\ (p \/ btokPubkeyVal(k) # "ERR_OK")
  OBVIOUS
<1>2. VerifyOn(s, k, items)
        = First(<<<<p, btokPubkeyVal(k)>>, <<q, "ERR_BAD_SIG">>>>, "ERR_OK")
  BY DEF VerifyOn
<1>3. /\ s.certs = certs /\ s.date = date
      /\ s.sig.len = SigLen(key[1]) /\ s.sig.by = key
      /\ s.sig.over = cmdSigHash(key[1], file, certs, date)
  BY DEF SigOf, Sig
<1> HIDE DEF p, q, s, hash
<1>4. VerifyOn(s, k, items) = "ERR_OK" <=> p /\ q
  BY <1>1, <1>2, First2
<1>5. q <=> k = btokPubkeyCalc(key) /\ items = file
  <2>1. CASE k # btokPubkeyCalc(key)
    BY <1>3, <2>1 DEF q
  <2>2. CASE k = btokPubkeyCalc(key)
    <3>1. k[1] \div 2 = key[1]
      <4>1. k[1] = 2 * key[1] /\ key[1] \in Nat
        BY <2>2 DEF btokPubkeyCalc, IsKey
      <4>2. QED
        BY <4>1
    <3>2. hash = cmdSigHash(key[1], items, certs, date)
      BY <1>3, <3>1 DEF hash
    <3>3. hash = cmdSigHash(key[1], file, certs, date) <=> items = file
      BY <3>2 DEF cmdSigHash
    <3>4. QED
      BY <1>3, <2>2, <3>1, <3>3 DEF q
  <2>3. QED
    BY <2>1, <2>2
<1>6. QED
  BY <1>4, <1>5 DEF p, s

EndsSigned(file) == Exists(file) /\ file # <<>> /\ Last_(file).kind = "sig"

(* Only a file that ends with a signature is read as one.                  *)
LEMMA ReadOk ==
  ASSUME NEW file
  PROVE  /\ cmdSigRead(file).code = "ERR_OK"
              => EndsSigned(file) /\ cmdSigRead(file).sig = Last_(file).sig
         /\ EndsSigned(file) /\ cmdSigSeemsValid(Last_(file).sig)
              => cmdSigRead(file).code = "ERR_OK" /\ cmdSigRead(file).sig = Last_(file).sig
BY DEF cmdSigRead, EndsSigned

(* A signature that was made with a chain is read back as it was made.     *)
LEMMA SigReadBack ==
  ASSUME NEW certs \in Seq(Names_), NEW date, NEW key, GoodChain(certs, date, key), NEW over_,
         NEW file, EndsSigned(file),
         Last_(file) = SigItem(SigOf(Items(certs), date, key, over_))
  PROVE  /\ cmdSigRead(file).code = "ERR_OK"
         /\ cmdSigRead(file).sig = SigOf(Items(certs), date, key, over_)
<1>1. Last_(file).sig = SigOf(Items(certs), date, key, over_)
  BY DEF SigItem
<1>2. cmdSigSeemsValid(Last_(file).sig)
  <2>1. Last_(file).sig.certs = Items(certs) /\ Last_(file).sig.date = date
    BY <1>1 DEF SigOf
  <2>2. WalkEnds(Items(certs))
    BY ItemsOf
  <2>3. QED
    BY <2>1, <2>2 DEF cmdSigSeemsValid, GoodChain
<1>3. QED
  BY <1>1, <1>2, ReadOk

(* The second half of a verification that starts from a certificate.       *)
LEMMA ChainOk ==
  ASSUME NEW certs \in Seq(Names_), certs # <<>>, NEW date, NEW key, IsKey(key),
         GoodChain(certs, date, key), NEW over_, NEW file, NEW same
  PROVE  VerifyChain(SigOf(Items(certs), date, key, over_), cmdCVCsVal(Items(certs), date),
                     Signer(Items(certs)), file, same) = "ERR_OK"
           <=> Exists(file) /\ Signed(file, same) = over_
<1> DEFINE s == SigOf(Items(certs), date, key, over_)
           val == cmdCVCsVal(Items(certs), date)
           u == Signer(Items(certs))
           c == certs[Len(certs)]
           end == VerifyOn(s, u.cvc.pubkey, Signed(file, same))
           p == val = "ERR_OK"
           q == u.code = "ERR_OK"
           r == Exists(file)
           f == <<<<p, val>>, <<q, u.code>>, <<r, "ERR_FILE_READ">>>>
<1>1. c \in Names_
  <2>1. Len(certs) \in 1 .. Len(certs)
    OBVIOUS
  <2>2. QED
    BY <2>1
<1>2. p /\ q /\ u.cvc.pubkey = KeyOf(c) /\ KeyOf(c) = btokPubkeyCalc(key)
      /\ Inside(c).code = "ERR_OK"
  BY SignerLast DEF GoodChain
<1>3. IsKey(KeyOf(c)) /\ btokPubkeyVal(KeyOf(c)) = "ERR_OK"
  BY <1>1, <1>2, InsideOf
<1>4. end = "ERR_OK" <=> Signed(file, same) = over_
  BY <1>2, <1>3, VerifyOnSig
<1>5. VerifyChain(s, val, u, file, same) = First(f, end)
  BY DEF VerifyChain
<1>6. p \in BOOLEAN /\ q \in BOOLEAN /\ r \in BOOLEAN
  BY DEF Exists
<1> HIDE DEF p, q, r, val, u, s, end, c
<1>7. First(f, end) = "ERR_OK" <=> p /\ q /\ r /\ end = "ERR_OK"
  <2>1. /\ Len(f) = 3 /\ f[1][1] = p /\ f[2][1] = q /\ f[3][1] = r
        /\ f[3][2] = "ERR_FILE_READ"
    BY <1>6
  <2> HIDE DEF f
  <2>2. f[1][1] /\ f[2][1] /\ (f[3][1] <=> r)
    BY <1>2, <2>1
  <2>3. f[3][1] \/ f[3][2] # "ERR_OK"
    BY <2>1
  <2>4. First(f, end) = "ERR_OK" <=> f[1][1] /\ f[2][1] /\ f[3][1] /\ end = "ERR_OK"
    BY <2>1, <2>2, <2>3, First3
  <2>5. QED
    BY <1>2, <2>2, <2>4
<1>8. QED
  BY <1>2, <1>4, <1>5, <1>7 DEF r, s, val, u

-----------------------------------------------------------------------------
(* Rings.                                                                  *)

RingOf(a, items, date, key) ==
  Append(items, SigItem(SigOf(Items(<<a>>), date, key, items)))

(* A ring with a signature of its holder is read back, and accepted with   *)
(* the certificate of the holder only.                                     *)
LEMMA RingRead ==
  ASSUME NEW a \in Names_, NEW S, NEW items \in Seq(S), NEW date, NEW key, IsKey(key),
         GoodChain(<<a>>, date, key)
  PROVE  /\ EndsSigned(RingOf(a, items, date, key))
         /\ Front_(RingOf(a, items, date, key)) = items
         /\ cmdSigRead(RingOf(a, items, date, key)).code = "ERR_OK"
         /\ cmdSigRead(RingOf(a, items, date, key)).sig
              = SigOf(Items(<<a>>), date, key, items)
         /\ Len(RingOf(a, items, date, key)) = Len(items) + 1
<1> DEFINE s == SigOf(Items(<<a>>), date, key, items)
           ring == Append(items, SigItem(s))
<1>1. <<a>> \in Seq(Names_)
  OBVIOUS
<1>2. items \in Seq(S)
  OBVIOUS
<1> HIDE DEF s
<1>3. /\ ring # <<>> /\ Last_(ring) = SigItem(s) /\ Front_(ring) = items
      /\ Len(ring) = Len(items) + 1
  BY <1>2, AppendParts
<1>4. Exists(ring)
  <2>1. ring # Absent
    <3>1. ring[Len(ring)].kind = "sig"
      BY <1>3 DEF Last_, SigItem
    <3>2. Absent[Len(Absent)].kind = "absent"
      BY DEF Absent
    <3> HIDE DEF ring
    <3>3. QED
      BY <3>1, <3>2
  <2>2. QED
    BY <2>1 DEF Exists
<1> HIDE DEF ring
<1>5. EndsSigned(ring)
  BY <1>3, <1>4 DEF EndsSigned, SigItem
<1>6. /\ cmdSigRead(ring).code = "ERR_OK" /\ cmdSigRead(ring).sig = s
  BY <1>1, <1>3, <1>5, SigReadBack DEF s
<1>7. ring = RingOf(a, items, date, key)
  BY DEF ring, s, RingOf
<1>8. QED
  BY <1>3, <1>5, <1>6, <1>7 DEF s

(* A ring is accepted with the certificate of its holder, no other.         *)
LEMMA RingAccepted ==
  ASSUME NEW a \in Names_, NEW S, NEW items \in Seq(S), NEW date, NEW key, IsKey(key),
         GoodChain(<<a>>, date, key), NEW b
  PROVE  Accepts(RingOf(a, items, date, key), b) = "ERR_OK" <=> b = a
<1> DEFINE ring == RingOf(a, items, date, key)
           s == SigOf(Items(<<a>>), date, key, items)
           found == cmdCVCsFind(Items(<<a>>), CertItem(b)).code
           chain == VerifyChain(s, cmdCVCsVal(Items(<<a>>), date), Signer(Items(<<a>>)), ring, TRUE)
<1>1. <<a>> \in Seq(Names_) /\ <<a>> # <<>> /\ Len(<<a>>) = 1 /\ <<a>>[1] = a
  OBVIOUS
<1>2. /\ EndsSigned(ring) /\ Front_(ring) = items
      /\ cmdSigRead(ring).code = "ERR_OK" /\ cmdSigRead(ring).sig = s
  BY RingRead
<1>3. chain = "ERR_OK"
  <2>1. Exists(ring) /\ Signed(ring, TRUE) = items
    BY <1>2 DEF Signed, EndsSigned
  <2> DEFINE one == <<a>>
             over_ == items
             same == TRUE
  <2>2. one \in Seq(Names_) /\ one # <<>> /\ GoodChain(one, date, key)
    BY <1>1
  <2>3. chain = VerifyChain(SigOf(Items(one), date, key, over_), cmdCVCsVal(Items(one), date),
                            Signer(Items(one)), ring, same)
    OBVIOUS
  <2> HIDE DEF ring, one, over_, chain, same
  <2>4. chain = "ERR_OK" <=> Exists(ring) /\ Signed(ring, same) = over_
    BY <2>2, <2>3, ChainOk
  <2>5. QED
    BY <2>1, <2>4 DEF over_, same
<1>4. found = "ERR_OK" <=> b = a
  <2> DEFINE one == <<a>>
  <2>1. one \in Seq(Names_) /\ Len(one) = 1 /\ one[1] = a /\ 1 .. 1 = {1}
    BY <1>1
  <2> HIDE DEF one
  <2> DEFINE r == cmdCVCsFind(Items(one), CertItem(b))
  <2>0. r.code = IF \E i \in 1 .. Len(one) : one[i] = b THEN "ERR_OK" ELSE "ERR_NOT_FOUND"
    BY <2>1, FindOne
  <2> HIDE DEF r
  <2>2. r.code = "ERR_OK" <=> \E i \in 1 .. Len(one) : one[i] = b
    BY <2>0
  <2>3. r.code = "ERR_OK" <=> b = a
    BY <2>1, <2>2
  <2>4. QED
    BY <2>3 DEF one, r
<1>5. s.certs = Items(<<a>>) /\ s.date = date
  BY DEF SigOf
<1> HIDE DEF ring, s
<1>6. Accepts(ring, b) = IF found # "ERR_OK" THEN found ELSE chain
  BY <1>2, <1>5 DEF Accepts, cmdSigVerify2
<1>7. QED
  BY <1>3, <1>4, <1>6 DEF ring

-----------------------------------------------------------------------------
(* Bodies of rings.                                                        *)

Item == {CertItem(c) : c \in Names_} \cup {Torn}
Distinct(s) == \A i, j \in 1 .. Len(s) : s[i] = s[j] => i = j
GoodList(certs) == certs \in Seq(Names_) /\ Readable(certs) /\ Distinct(certs)
(* Some of the certificates, none twice, and perhaps a torn end.           *)
Body(items, certs) ==
  /\ items \in Seq(Item) /\ Distinct(items)
  /\ \A i \in 1 .. Len(items) : \/ \E j \in 1 .. Len(certs) : items[i] = CertItem(certs[j])
                                \/ items[i] = Torn /\ i = Len(items)

(* Certificates are told from what was torn.                                *)
LEMMA ItemKinds ==
  /\ \A c : CertItem(c).kind = "cert" /\ CertItem(c).cert = c /\ CertItem(c) # Torn
  /\ Torn.kind = "torn"
  /\ \A c, d : CertItem(c) = CertItem(d) <=> c = d
<1>1. \A c : CertItem(c).kind = "cert" /\ CertItem(c).cert = c
  BY DEF CertItem
<1>2. Torn.kind = "torn"
  BY DEF Torn
<1>3. QED
  BY <1>1, <1>2

(* All of the certificates are a body.                                      *)
LEMMA BodyItems ==
  ASSUME NEW certs \in Seq(Names_), Distinct(certs)
  PROVE  Body(Items(certs), certs)
<1> DEFINE items == Items(certs)
<1>1. /\ items \in Seq({CertItem(c) : c \in Names_}) /\ Len(items) = Len(certs)
      /\ \A i \in 1 .. Len(certs) : items[i] = CertItem(certs[i])
  BY ItemsOf, Zenon
<1> HIDE DEF items
<1>2. items \in Seq(Item)
  <2> DEFINE T == {CertItem(c) : c \in Names_}
  <2>1. items \in Seq(T) /\ T \subseteq Item
    BY <1>1 DEF Item
  <2> HIDE DEF T
  <2>2. QED
    BY <2>1
<1>3. Distinct(items)
  BY <1>1, ItemKinds DEF Distinct
<1>4. \A i \in 1 .. Len(items) : \E j \in 1 .. Len(certs) : items[i] = CertItem(certs[j])
  BY <1>1
<1>5. QED
  BY <1>2, <1>3, <1>4 DEF Body, items

(* Where the certificates of a body are.                                    *)
LEMMA BodyParts ==
  ASSUME NEW certs, NEW items, Body(items, certs)
  PROVE  /\ Len(items) \in Nat /\ DOMAIN items = 1 .. Len(items)
         /\ \A i \in 1 .. Len(items) :
              /\ items[i] # Torn => /\ items[i].kind = "cert" /\ items[i] = CertItem(items[i].cert)
                                    /\ \E j \in 1 .. Len(certs) : items[i].cert = certs[j]
              /\ items[i] = Torn => i = Len(items) /\ items[i].kind # "cert"
         /\ \A i : i \in Walked(items) <=> i \in 1 .. Len(items) /\ items[i] # Torn
         /\ WalkEnds(items) <=> \A i \in 1 .. Len(items) : items[i] # Torn
<1>1. Len(items) \in Nat /\ DOMAIN items = 1 .. Len(items)
  BY DEF Body
<1>2. ASSUME NEW i \in 1 .. Len(items)
      PROVE  /\ items[i] # Torn => /\ items[i].kind = "cert" /\ items[i] = CertItem(items[i].cert)
                                   /\ \E j \in 1 .. Len(certs) : items[i].cert = certs[j]
             /\ items[i] = Torn => i = Len(items) /\ items[i].kind # "cert"
  <2>1. CASE \E j \in 1 .. Len(certs) : items[i] = CertItem(certs[j])
    BY <2>1, ItemKinds
  <2>2. CASE items[i] = Torn /\ i = Len(items)
    BY <2>2, ItemKinds
  <2>3. QED
    BY <2>1, <2>2 DEF Body
<1>3. ASSUME NEW i
      PROVE  i \in Walked(items) <=> i \in 1 .. Len(items) /\ items[i] # Torn
  <2>1. i \in Walked(items) <=> i \in 1 .. Len(items) /\ \A j \in 1 .. i : items[j].kind = "cert"
    BY <1>1 DEF Walked
  <2>2. ASSUME i \in 1 .. Len(items), items[i] # Torn, NEW j \in 1 .. i
        PROVE  items[j].kind = "cert"
    <3>1. j \in 1 .. Len(items) /\ (j = Len(items) => j = i)
      <4> DEFINE n == Len(items)
      <4>1. n \in Nat /\ i \in 1 .. n /\ j \in 1 .. i
        BY <1>1, <2>2
      <4> HIDE DEF n
      <4>2. j \in 1 .. n /\ (j = n => j = i)
        BY <4>1
      <4>3. QED
        BY <4>2 DEF n
    <3>2. items[j] # Torn
      BY <1>2, <2>2, <3>1, Zenon
    <3>3. QED
      BY <1>2, <3>1, <3>2
  <2>3. ASSUME i \in 1 .. Len(items), \A j \in 1 .. i : items[j].kind = "cert"
        PROVE  items[i] # Torn
    BY <1>1, <1>2, <2>3
  <2>4. QED
    BY <2>1, <2>2, <2>3
<1>4. WalkEnds(items) <=> \A i \in 1 .. Len(items) : items[i] # Torn
  BY <1>1, <1>3 DEF WalkEnds
<1>5. QED
  BY <1>1, <1>2, <1>3, <1>4

(* A body is not read as signed.                                            *)
LEMMA BodyUnsigned ==
  ASSUME NEW certs, NEW items, Body(items, certs)
  PROVE  ~ EndsSigned(items)
<1>1. CASE items = <<>>
  BY <1>1 DEF EndsSigned
<1>2. CASE items # <<>>
  <2>1. Len(items) \in 1 .. Len(items)
    BY <1>2 DEF Body
  <2>2. Last_(items).kind # "sig"
    BY <2>1, BodyParts, ItemKinds DEF Last_
  <2>3. QED
    BY <2>2 DEF EndsSigned
<1>3. QED
  BY <1>1, <1>2

(* What is left of a body whose writing broke off is one.                   *)
LEMMA BodyPartial ==
  ASSUME NEW certs, NEW items, Body(items, certs), NEW p \in Partial(items)
  PROVE  Body(p, certs)
<1>1. /\ items \in Seq(Item) /\ Len(items) \in Nat
      /\ \A i, j \in 1 .. Len(items) : items[i] = items[j] => i = j
      /\ \A i \in 1 .. Len(items) : \/ \E j \in 1 .. Len(certs) : items[i] = CertItem(certs[j])
                                    \/ items[i] = Torn /\ i = Len(items)
  BY DEF Body, Distinct
<1>2. ASSUME NEW k \in 0 .. Len(items), NEW q, q = SubSeq(items, 1, k)
      PROVE  /\ q \in Seq(Item) /\ Len(q) = k /\ \A i \in 1 .. k : q[i] = items[i]
             /\ Body(q, certs)
  <2>1. q \in Seq(Item) /\ Len(q) = k /\ \A i \in 1 .. k : q[i] = items[i]
    BY <1>1, <1>2
  <2>2. \A i \in 1 .. k : i \in 1 .. Len(items) /\ (i = Len(items) => i = k)
    BY <1>1
  <2>3. Distinct(q)
    BY <1>1, <2>1, <2>2 DEF Distinct
  <2>4. \A i \in 1 .. Len(q) : \/ \E j \in 1 .. Len(certs) : q[i] = CertItem(certs[j])
                               \/ q[i] = Torn /\ i = Len(q)
    BY <1>1, <2>1, <2>2
  <2>5. QED
    BY <2>1, <2>3, <2>4 DEF Body
<1>3. ASSUME NEW k \in 0 .. Len(items) - 1, p = Append(SubSeq(items, 1, k), Torn)
      PROVE  Body(p, certs)
  <2> DEFINE q == SubSeq(items, 1, k)
  <2>1. k \in 0 .. Len(items) /\ k \in Nat /\ \A i \in 1 .. k : i \in 1 .. Len(items) /\ i # Len(items)
    BY <1>1
  <2>2. q \in Seq(Item) /\ Len(q) = k /\ \A i \in 1 .. k : q[i] = items[i]
    BY <1>2, <2>1
  <2> HIDE DEF q
  <2>3. p = Append(q, Torn) /\ Torn \in Item
    BY <1>3 DEF q, Item
  <2>4. /\ p \in Seq(Item) /\ Len(p) = k + 1 /\ p[k + 1] = Torn
        /\ \A i \in 1 .. k : p[i] = items[i]
    BY <2>1, <2>2, <2>3
  <2>5. \A i \in 1 .. k : \E j \in 1 .. Len(certs) : p[i] = CertItem(certs[j])
    BY <1>1, <2>1, <2>4
  <2>6. Distinct(p)
    <3>1. \A i \in 1 .. k : p[i] # Torn
      BY <2>5, ItemKinds
    <3>2. \A i \in 1 .. k + 1 : i \in 1 .. k \/ i = k + 1
      BY <2>1
    <3>3. QED
      BY <1>1, <2>1, <2>4, <3>1, <3>2 DEF Distinct
  <2>7. \A i \in 1 .. Len(p) : \/ \E j \in 1 .. Len(certs) : p[i] = CertItem(certs[j])
                               \/ p[i] = Torn /\ i = Len(p)
    <3>1. \A i \in 1 .. k + 1 : i \in 1 .. k \/ i = k + 1
      BY <2>1
    <3>2. QED
      BY <2>4, <2>5, <3>1
  <2>8. QED
    BY <2>4, <2>6, <2>7 DEF Body
<1>4. p \in {SubSeq(items, 1, k) : k \in 0 .. Len(items)}
           \cup {Append(SubSeq(items, 1, k), Torn) : k \in 0 .. Len(items) - 1}
  BY Zenon DEF Partial
<1>5. QED
  BY <1>2, <1>3, <1>4

(* All of it is among what may be left.                                    *)
LEMMA PartialAll ==
  ASSUME NEW S, NEW items \in Seq(S)
  PROVE  items \in Partial(items)
<1>1. Len(items) \in 0 .. Len(items) /\ SubSeq(items, 1, Len(items)) = items
  <2> DEFINE u == SubSeq(items, 1, Len(items))
  <2>1. u \in Seq(S) /\ Len(u) = Len(items) /\ \A i \in 1 .. Len(items) : u[i] = items[i]
    OBVIOUS
  <2> HIDE DEF u
  <2>2. u = items
    BY <2>1
  <2>3. QED
    BY <2>2 DEF u
<1>2. QED
  BY <1>1 DEF Partial

(* A search in a body.                                                      *)
LEMMA FindIn ==
  ASSUME NEW certs, NEW items, Body(items, certs), NEW c
  PROVE  /\ cmdCVCsFind(items, CertItem(c)).code
              = IF \E i \in 1 .. Len(items) : items[i] = CertItem(c) THEN "ERR_OK"
                ELSE IF WalkEnds(items) THEN "ERR_NOT_FOUND" ELSE "ERR_BAD_CERTRING"
         /\ cmdCVCsFind(items, CertItem(c)).code = "ERR_OK"
              => /\ cmdCVCsFind(items, CertItem(c)).offset \in 1 .. Len(items)
                 /\ items[cmdCVCsFind(items, CertItem(c)).offset] = CertItem(c)
<1> DEFINE found == {i \in Walked(items) : items[i] = CertItem(c)}
           r == cmdCVCsFind(items, CertItem(c))
           o == CHOOSE i \in found : \A j \in found : i <= j
           e == IF WalkEnds(items) THEN "ERR_NOT_FOUND" ELSE "ERR_BAD_CERTRING"
<1>1. \A i : i \in found <=> i \in 1 .. Len(items) /\ items[i] = CertItem(c)
  BY BodyParts, ItemKinds
<1>2. CASE found = {}
  <2>1. r.code = e
    BY <1>2 DEF cmdCVCsFind
  <2>2. e # "ERR_OK"
    OBVIOUS
  <2> HIDE DEF r, found, e
  <2>3. QED
    BY <1>1, <1>2, <2>1, <2>2 DEF r, e
<1>3. CASE found # {}
  <2>1. r.code = "ERR_OK" /\ r.offset = o
    BY <1>3 DEF cmdCVCsFind
  <2>2. found \subseteq Nat
    BY <1>1
  <2> HIDE DEF r, found
  <2>3. \E i \in found : \A j \in found : i <= j
    BY <1>3, <2>2, LeastOf
  <2>4. o \in found
    BY <2>3
  <2> HIDE DEF o
  <2>5. QED
    BY <1>1, <2>1, <2>4 DEF r
<1> HIDE DEF r, found
<1>4. QED
  BY <1>2, <1>3

-----------------------------------------------------------------------------
(* The invariant.                                                          *)

Keys == {h.key : h \in Holder}
(* What is kept of a list: all of it, if no part was lost.                 *)
Kept(l, items, certs) == Body(items, certs) /\ (~ l => items = Items(certs))
DetOf(certs, date, key, items) == <<SigItem(SigOf(Items(certs), date, key, items))>>

(* A signature at the end of the ring is its holder's, over what was meant *)
(* to be there, or what is left of that; one in the other file is over     *)
(* what it was made for.                                                   *)
RingSigned ==
  EndsSigned(disk.ring) =>
     /\ meant.certa \in Names_
     /\ \E key \in Keys : \E date, items :
          /\ GoodChain(<<meant.certa>>, date, key) /\ Kept(lost, items, meant.certs)
          /\ disk.ring = RingOf(meant.certa, items, date, key)
DetSigned ==
  EndsSigned(disk.det) =>
     \E certs \in Chain, key \in Keys : \E date :
        /\ GoodChain(certs, date, key) /\ Exists(over)
        /\ disk.det = DetOf(certs, date, key, over)
(* A command that rewrites the ring, at each of its places.                *)
Rewriting ==
  cmd.op \in RingOps =>
    /\ cmd.key \in Keys /\ cmd.certa \in Names_
    /\ pc = "open" => /\ GoodList(Meaning.certs) /\ Meaning.certa = cmd.certa
                      /\ Kept(lost, mem, Meaning.certs) /\ (cmd.op = "init" => mem = <<>>)
    /\ pc # "open" => meant.certa = cmd.certa
    /\ pc = "write" => Kept(lost, mem, meant.certs)
    /\ pc \in {"sign", "append"} => Kept(lost, disk.ring, meant.certs)
    /\ pc = "append" => \E date : /\ GoodChain(<<cmd.certa>>, date, cmd.key)
                                  /\ mem = DetOf(<<cmd.certa>>, date, cmd.key, disk.ring)
    /\ pc = "told" /\ ~ lost => EndsSigned(disk.ring)
(* A command that signs the ring in a file of its own.                     *)
Signing ==
  cmd.op = "sign" =>
    /\ cmd.key \in Keys /\ cmd.certs \in Chain /\ pc # "append"
    /\ pc = "open" => /\ GoodChain(cmd.certs, cmd.date, cmd.key) /\ Exists(disk.ring)
                      /\ mem = DetOf(cmd.certs, cmd.date, cmd.key, disk.ring)
    /\ pc = "write" => /\ GoodChain(cmd.certs, cmd.date, cmd.key) /\ Exists(over)
                       /\ mem = DetOf(cmd.certs, cmd.date, cmd.key, over)
RingInv ==
  /\ DOMAIN disk = {"ring", "det"}
  /\ pc \in {"idle", "open", "write", "sign", "append", "told"}
  /\ pc = "idle" => cmd = Idle
  /\ pc \notin {"idle", "told"} => cmd.op \in RingOps \cup {"sign"}
  /\ GoodList(meant.certs) /\ RingSigned /\ DetSigned /\ Rewriting /\ Signing

-----------------------------------------------------------------------------
(* Files that end with no signature.                                       *)

(* Files that are not read as signed.                                       *)
LEMMA Unsigned ==
  /\ ~ EndsSigned(<<>>) /\ ~ EndsSigned(Absent) /\ ~ EndsSigned(<<Torn>>)
  /\ \A S : \A s \in Seq(S) : ~ EndsSigned(Append(s, Torn))
  /\ \A certs \in Seq(Names_) : ~ EndsSigned(Items(certs))
<1>1. ~ EndsSigned(<<>>) /\ ~ EndsSigned(Absent)
  BY DEF EndsSigned, Exists
<1>2. ASSUME NEW S, NEW s \in Seq(S)
      PROVE  ~ EndsSigned(Append(s, Torn))
  <2>1. Last_(Append(s, Torn)) = Torn
    BY AppendParts
  <2>2. Torn.kind # "sig"
    BY DEF Torn
  <2>3. QED
    BY <2>1, <2>2 DEF EndsSigned
<1>3. ~ EndsSigned(<<Torn>>)
  <2>1. Last_(<<Torn>>).kind # "sig"
    BY DEF Last_, Torn
  <2>2. QED
    BY <2>1 DEF EndsSigned
<1>4. ASSUME NEW certs \in Seq(Names_)
      PROVE  ~ EndsSigned(Items(certs))
  <2>1. CASE certs = <<>>
    BY <2>1, ItemsOf DEF EndsSigned
  <2>2. CASE certs # <<>>
    <3>1. Len(certs) \in 1 .. Len(certs)
      BY <2>2
    <3>2. Last_(Items(certs)).kind = "cert"
      BY <3>1, ItemsOf DEF Last_
    <3>3. QED
      BY <3>2 DEF EndsSigned
  <2>3. QED
    BY <2>1, <2>2
<1>5. QED
  BY <1>1, <1>2, <1>3, <1>4

(* What is written of one item.                                            *)
LEMMA PartialOne ==
  ASSUME NEW x, NEW p \in Partial(<<x>>)
  PROVE  p = <<>> \/ p = <<x>> \/ p = <<Torn>>
<1>1. Len(<<x>>) = 1 /\ <<x>> \in Seq({x})
  OBVIOUS
<1>2. \/ \E k \in 0 .. 1 : p = SubSeq(<<x>>, 1, k)
      \/ p = Append(SubSeq(<<x>>, 1, 0), Torn)
  <2>1. p \in {SubSeq(<<x>>, 1, k) : k \in 0 .. 1}
             \cup {Append(SubSeq(<<x>>, 1, k), Torn) : k \in 0 .. 0}
    BY <1>1 DEF Partial
  <2>2. QED
    BY <2>1
<1>3. SubSeq(<<x>>, 1, 0) = <<>> /\ SubSeq(<<x>>, 1, 1) = <<x>>
  <2> DEFINE t == <<x>>
             u == SubSeq(t, 1, 1)
  <2>1. t \in Seq({x}) /\ Len(t) = 1
    OBVIOUS
  <2> HIDE DEF t
  <2>2. u \in Seq({x}) /\ Len(u) = 1 /\ u[1] = t[1] /\ SubSeq(t, 1, 0) = <<>>
    BY <2>1
  <2> HIDE DEF u
  <2>3. u = t
    BY <2>1, <2>2
  <2>4. QED
    BY <2>2, <2>3 DEF u, t
<1>4. Append(<<>>, Torn) = <<Torn>>
  OBVIOUS
<1>5. QED
  BY <1>2, <1>3, <1>4

(* What an item, or what was left of it, makes of a body.                  *)
LEMMA Joined ==
  ASSUME NEW T, NEW items \in Seq(T), NEW x
  PROVE  /\ items \o <<>> = items
         /\ items \o <<x>> = Append(items, x)
<1> DEFINE S == T \cup {x}
<1>1. items \in Seq(S)
  OBVIOUS
<1>2. items \o <<>> = items
  BY <1>1
<1>3. items \o <<x>> = Append(items, x)
  <2>1. /\ items \o <<x>> \in Seq(S) /\ Len(items \o <<x>>) = Len(items) + 1
    BY <1>1 DEF S
  <2>2. \A i \in 1 .. Len(items) + 1 : (items \o <<x>>)[i] = Append(items, x)[i]
    BY <1>1
  <2>3. Append(items, x) \in Seq(S) /\ Len(Append(items, x)) = Len(items) + 1
    BY <1>1 DEF S
  <2>4. QED
    BY <2>1, <2>2, <2>3
<1>4. QED
  BY <1>2, <1>3

-----------------------------------------------------------------------------
(* What a command that changes the ring is about to write.                 *)

(* The keys of users are keys.                                              *)
LEMMA KeysKnown ==
  ASSUME NEW key \in Keys
  PROVE  IsKey(key) /\ key[2] # "nobody"
BY RingAssumption DEF Keys

(* A ring that is read is what is kept of what it was meant to be.         *)
LEMMA RingIsMeant ==
  ASSUME RingSigned, EndsSigned(disk.ring)
  PROVE  /\ meant.certa \in Names_
         /\ Kept(lost, Front_(disk.ring), meant.certs)
         /\ cmdSigRead(disk.ring).code = "ERR_OK"
         /\ cmdSigRead(disk.ring).sig.certs = Items(<<meant.certa>>)
         /\ Len(disk.ring) = Len(Front_(disk.ring)) + 1
         /\ \A b : Accepts(disk.ring, b) = "ERR_OK" <=> b = meant.certa
<1>1. PICK key \in Keys : \E date, items :
           /\ GoodChain(<<meant.certa>>, date, key) /\ Kept(lost, items, meant.certs)
           /\ disk.ring = RingOf(meant.certa, items, date, key)
  BY DEF RingSigned
<1>2. PICK date, items :
           /\ GoodChain(<<meant.certa>>, date, key) /\ Kept(lost, items, meant.certs)
           /\ disk.ring = RingOf(meant.certa, items, date, key)
  BY <1>1
<1>3. IsKey(key) /\ meant.certa \in Names_
  BY KeysKnown DEF RingSigned
<1> DEFINE a == meant.certa
           s == SigOf(Items(<<a>>), date, key, items)
<1>4. /\ a \in Names_ /\ GoodChain(<<a>>, date, key)
      /\ disk.ring = RingOf(a, items, date, key)
  BY <1>2, <1>3
<1>5. s.certs = Items(<<a>>) /\ items \in Seq(Item)
  BY <1>2 DEF SigOf, Kept, Body
<1> HIDE DEF a
<1>6. /\ Front_(disk.ring) = items /\ cmdSigRead(disk.ring).code = "ERR_OK"
      /\ cmdSigRead(disk.ring).sig = s /\ Len(disk.ring) = Len(items) + 1
  BY <1>3, <1>4, <1>5, RingRead
<1>7. \A b : Accepts(disk.ring, b) = "ERR_OK" <=> b = a
  BY <1>3, <1>4, <1>5, RingAccepted
<1>8. QED
  BY <1>2, <1>4, <1>5, <1>6, <1>7 DEF a

(* The checks of add and del end well on a signed ring only.                *)
LEMMA ChecksOk ==
  ASSUME NEW ring, NEW h, NEW c, RingChecks(ring, h, c) = "ERR_OK"
  PROVE  EndsSigned(ring) /\ Inside(c).code = "ERR_OK"
<1> DEFINE r == cmdSigRead(ring)
           match == btokCVCMatch(Certs[h.certa], h.key)
           u == Inside(c).code
           acc == Accepts(ring, h.certa)
           x == r.sig.certs = Items(<<h.certa>>)
           y == acc = "ERR_OK"
           z == u = "ERR_OK"
           f == <<<<x, "ERR_BAD_ANCHOR">>, <<y, acc>>, <<z, u>>>>
<1>1. RingChecks(ring, h, c)
        = IF ~Exists(ring) THEN "ERR_FILE_NOT_FOUND"
          ELSE IF match # "ERR_OK" THEN match
          ELSE IF r.code # "ERR_OK" THEN r.code
          ELSE First(f, "ERR_OK")
  BY DEF RingChecks, Inside
<1>2. x \in BOOLEAN /\ y \in BOOLEAN /\ z \in BOOLEAN
      /\ (y \/ acc # "ERR_OK") /\ (z \/ u # "ERR_OK")
  OBVIOUS
<1>3. r.code = "ERR_OK" => EndsSigned(ring)
  BY ReadOk
<1> HIDE DEF r, match, u, acc, x, y, z
<1>4. r.code = "ERR_OK" /\ First(f, "ERR_OK") = "ERR_OK"
  <2> HIDE DEF f
  <2>1. QED
    BY <1>1
<1>5. First(f, "ERR_OK") = "ERR_OK" <=> x /\ y /\ z
  <2>1. /\ Len(f) = 3 /\ (f[1][1] <=> x) /\ (f[2][1] <=> y) /\ (f[3][1] <=> z)
        /\ f[1][2] = "ERR_BAD_ANCHOR" /\ f[2][2] = acc /\ f[3][2] = u
    BY <1>2
  <2> HIDE DEF f
  <2>2. (f[1][1] \/ f[1][2] # "ERR_OK") /\ (f[2][1] \/ f[2][2] # "ERR_OK")
        /\ (f[3][1] \/ f[3][2] # "ERR_OK")
    BY <1>2, <2>1
  <2>3. First(f, "ERR_OK") = "ERR_OK" <=> f[1][1] /\ f[2][1] /\ f[3][1] /\ "ERR_OK" = "ERR_OK"
    BY <2>1, <2>2, First3
  <2>4. QED
    BY <2>1, <2>3
<1>6. z
  BY <1>4, <1>5
<1>7. QED
  BY <1>3, <1>4, <1>6 DEF z, u

(* Adding a certificate that is not there keeps a list good.                *)
LEMMA GoodAdded ==
  ASSUME NEW certs, GoodList(certs), NEW c \in Names_, Inside(c).code = "ERR_OK",
         ~ \E i \in 1 .. Len(certs) : certs[i] = c
  PROVE  GoodList(Append(certs, c))
<1>1. /\ certs \in Seq(Names_) /\ Distinct(certs)
      /\ \A i \in 1 .. Len(certs) : Inside(certs[i]).code = "ERR_OK"
  BY DEF GoodList, Readable
<1> DEFINE t == Append(certs, c)
<1>2. /\ t \in Seq(Names_) /\ Len(t) = Len(certs) + 1 /\ t[Len(certs) + 1] = c
      /\ \A i \in 1 .. Len(certs) : t[i] = certs[i]
  BY <1>1
<1> HIDE DEF t
<1>3. Readable(t)
  BY <1>1, <1>2 DEF Readable
<1>4. Distinct(t)
  <2>1. ASSUME NEW i \in 1 .. Len(t), NEW j \in 1 .. Len(t), t[i] = t[j], i < j
        PROVE  FALSE
    <3>1. i \in 1 .. Len(certs) /\ t[i] = certs[i]
      BY <1>1, <1>2, <2>1
    <3>2. CASE j = Len(certs) + 1
      BY <1>2, <2>1, <3>1, <3>2
    <3>3. CASE j # Len(certs) + 1
      <4>1. j \in 1 .. Len(certs) /\ t[j] = certs[j]
        BY <1>1, <1>2, <3>3
      <4>2. i = j
        BY <1>1, <2>1, <3>1, <4>1 DEF Distinct
      <4>3. QED
        BY <2>1, <4>2
    <3>4. QED
      BY <3>2, <3>3
  <2>2. ASSUME NEW i \in 1 .. Len(t), NEW j \in 1 .. Len(t), t[i] = t[j]
        PROVE  i = j
    <3>1. ~ (i < j) /\ ~ (j < i)
      BY <2>1, <2>2
    <3>2. i \in Int /\ j \in Int
      OBVIOUS
    <3>3. QED
      BY <3>1, <3>2
  <2>3. QED
    BY <2>2 DEF Distinct
<1>5. QED
  BY <1>2, <1>3, <1>4 DEF GoodList, t

(* Removing a certificate keeps a list good.                                *)
LEMMA GoodRemoved ==
  ASSUME NEW certs, GoodList(certs), NEW i \in 1 .. Len(certs)
  PROVE  GoodList(Without(certs, i))
<1>1. /\ certs \in Seq(Names_) /\ Distinct(certs)
      /\ \A k \in 1 .. Len(certs) : Inside(certs[k]).code = "ERR_OK"
  BY DEF GoodList, Readable
<1> DEFINE t == Without(certs, i)
           at(k) == IF k < i THEN k ELSE k + 1
<1>2. /\ t \in Seq(Names_) /\ Len(t) = Len(certs) - 1
      /\ \A k \in 1 .. Len(certs) - 1 : t[k] = certs[at(k)]
  BY <1>1, WithoutParts
<1>3. /\ Len(certs) \in Nat
      /\ \A k \in 1 .. Len(certs) - 1 : at(k) \in 1 .. Len(certs)
      /\ \A k, l \in 1 .. Len(certs) - 1 : at(k) = at(l) => k = l
  BY <1>1
<1> HIDE DEF t, at
<1>4. Readable(t)
  BY <1>1, <1>2, <1>3 DEF Readable
<1>5. Distinct(t)
  BY <1>1, <1>2, <1>3 DEF Distinct
<1>6. QED
  BY <1>2, <1>4, <1>5 DEF GoodList, t

(* Nothing is taken out of a list that has not got it.                      *)
LEMMA LessNone ==
  ASSUME NEW certs, GoodList(certs), NEW c, \A i \in 1 .. Len(certs) : certs[i] # c
  PROVE  Less(certs, c) = certs
<1>1. DOMAIN certs = 1 .. Len(certs)
  BY DEF GoodList
<1>2. ~ \E i \in DOMAIN certs : certs[i] = c
  BY <1>1
<1>3. QED
  BY <1>2 DEF Less

(* A list that a certificate is taken out of if it is there.                *)
LEMMA LessParts ==
  ASSUME NEW certs, GoodList(certs), NEW c
  PROVE  /\ GoodList(Less(certs, c))
         /\ \A i \in 1 .. Len(certs) :
              certs[i] # c => \E j \in 1 .. Len(Less(certs, c)) : Less(certs, c)[j] = certs[i]
         /\ \A j \in 1 .. Len(Less(certs, c)) : Less(certs, c)[j] # c
         /\ \A i \in 1 .. Len(certs) : certs[i] = c => Less(certs, c) = Without(certs, i)
         /\ (\A i \in 1 .. Len(certs) : certs[i] # c) => Less(certs, c) = certs
<1>1. /\ certs \in Seq(Names_) /\ DOMAIN certs = 1 .. Len(certs) /\ Len(certs) \in Nat
      /\ \A i, j \in 1 .. Len(certs) : certs[i] = certs[j] => i = j
  BY DEF GoodList, Distinct
<1>2. CASE \A i \in 1 .. Len(certs) : certs[i] # c
  <2>1. Less(certs, c) = certs
    BY <1>1, <1>2 DEF Less
  <2>2. QED
    BY <1>2, <2>1
<1>3. CASE \E i \in 1 .. Len(certs) : certs[i] = c
  <2>1. PICK i \in 1 .. Len(certs) : certs[i] = c
    BY <1>3
  <2>2. (CHOOSE k \in DOMAIN certs : certs[k] = c) = i
    BY <1>1, <2>1
  <2>3. Less(certs, c) = Without(certs, i)
    BY <1>1, <2>1, <2>2 DEF Less
  <2> DEFINE t == Without(certs, i)
             at(k) == IF k < i THEN k ELSE k + 1
  <2>4. GoodList(t)
    BY <2>1, GoodRemoved
  <2>5. /\ t \in Seq(Names_) /\ Len(t) = Len(certs) - 1
        /\ \A k \in 1 .. Len(certs) - 1 : t[k] = certs[at(k)]
    BY <1>1, WithoutParts
  <2>6. /\ \A k \in 1 .. Len(certs) - 1 : at(k) \in 1 .. Len(certs) /\ at(k) # i
        /\ \A k \in 1 .. Len(certs) : k # i => \E l \in 1 .. Len(certs) - 1 : at(l) = k
    <3>1. \A k \in 1 .. Len(certs) - 1 : at(k) \in 1 .. Len(certs) /\ at(k) # i
      BY <1>1, <2>1
    <3>2. ASSUME NEW k \in 1 .. Len(certs), k # i
          PROVE  \E l \in 1 .. Len(certs) - 1 : at(l) = k
      <4> DEFINE l == IF k < i THEN k ELSE k - 1
      <4>1. l \in 1 .. Len(certs) - 1 /\ at(l) = k
        BY <1>1, <2>1, <3>2
      <4>2. QED
        BY <4>1
    <3>3. QED
      BY <3>1, <3>2
  <2> HIDE DEF t, at
  <2>7. \A k \in 1 .. Len(certs) : certs[k] # c => \E j \in 1 .. Len(t) : t[j] = certs[k]
    BY <2>1, <2>5, <2>6
  <2>8. \A j \in 1 .. Len(t) : t[j] # c
    BY <1>1, <2>1, <2>5, <2>6
  <2>9. \A k \in 1 .. Len(certs) : certs[k] = c => k = i
    BY <1>1, <2>1
  <2>10. Less(certs, c) = t
    BY <2>3 DEF t
  <2> HIDE DEF Less
  <2>11. QED
    BY <2>1, <2>3, <2>4, <2>7, <2>8, <2>9, <2>10
<1>4. QED
  BY <1>2, <1>3

(* A body with no torn end that a certificate is added to.                  *)
LEMMA BodyAdded ==
  ASSUME NEW certs, GoodList(certs), NEW items, Body(items, certs), WalkEnds(items),
         NEW c \in Names_, Inside(c).code = "ERR_OK",
         ~ \E i \in 1 .. Len(items) : items[i] = CertItem(c)
  PROVE  /\ GoodList(Append(Less(certs, c), c))
         /\ Body(Append(items, CertItem(c)), Append(Less(certs, c), c))
<1> DEFINE less == Less(certs, c)
           t == Append(less, c)
           e == CertItem(c)
           q == Append(items, e)
<1>1. /\ GoodList(less) /\ \A j \in 1 .. Len(less) : less[j] # c
      /\ \A i \in 1 .. Len(certs) :
           certs[i] # c => \E j \in 1 .. Len(less) : less[j] = certs[i]
  BY LessParts
<1> HIDE DEF less
<1>2. GoodList(t)
  BY <1>1, GoodAdded
<1>3. /\ t \in Seq(Names_) /\ Len(t) = Len(less) + 1 /\ t[Len(less) + 1] = c
      /\ \A i \in 1 .. Len(less) : t[i] = less[i]
      /\ Len(less) \in Nat
  BY <1>1 DEF GoodList
<1>4. e \in Item
  BY DEF Item
<1>5. items \in Seq(Item) /\ Len(items) \in Nat
  BY DEF Body
<1> HIDE DEF t, e
<1>6. /\ q \in Seq(Item) /\ Len(q) = Len(items) + 1 /\ q[Len(items) + 1] = e
      /\ \A i \in 1 .. Len(items) : q[i] = items[i]
  BY <1>4, <1>5
<1> HIDE DEF q
<1>7. \A i \in 1 .. Len(items) + 1 : i \in 1 .. Len(items) \/ i = Len(items) + 1
  BY <1>5
<1>8. Distinct(q)
  BY <1>5, <1>6, <1>7 DEF Distinct, Body, e
<1>9. ASSUME NEW i \in 1 .. Len(items)
      PROVE  \E j \in 1 .. Len(t) : q[i] = CertItem(t[j])
  <2>1. items[i] = CertItem(items[i].cert) /\ \E j \in 1 .. Len(certs) : items[i].cert = certs[j]
    BY BodyParts
  <2>2. items[i].cert # c
    BY <2>1
  <2>3. PICK j \in 1 .. Len(less) : less[j] = items[i].cert
    BY <1>1, <2>1, <2>2
  <2>4. j \in 1 .. Len(t) /\ t[j] = items[i].cert
    BY <1>3, <2>3
  <2>5. QED
    BY <1>6, <2>1, <2>4
<1>10. \E j \in 1 .. Len(t) : e = CertItem(t[j])
  <2>1. Len(less) + 1 \in 1 .. Len(t)
    BY <1>3
  <2>2. QED
    BY <1>3, <2>1 DEF e
<1>11. Body(q, t)
  BY <1>6, <1>7, <1>8, <1>9, <1>10 DEF Body
<1>12. QED
  BY <1>2, <1>11 DEF q, t, e, less

(* A body that a certificate is taken out of.                               *)
LEMMA BodyRemoved ==
  ASSUME NEW certs, GoodList(certs), NEW items, Body(items, certs), NEW c,
         NEW i \in 1 .. Len(items), items[i] = CertItem(c)
  PROVE  /\ GoodList(Less(certs, c)) /\ Body(Without(items, i), Less(certs, c))
         /\ \E j \in 1 .. Len(certs) : certs[j] = c
<1> DEFINE less == Less(certs, c)
           q == Without(items, i)
           at(k) == IF k < i THEN k ELSE k + 1
<1>1. /\ GoodList(less)
      /\ \A k \in 1 .. Len(certs) :
           certs[k] # c => \E j \in 1 .. Len(less) : less[j] = certs[k]
  BY LessParts
<1> HIDE DEF less
<1>2. items \in Seq(Item) /\ Len(items) \in Nat
      /\ \A k, l \in 1 .. Len(items) : items[k] = items[l] => k = l
  BY DEF Body, Distinct
<1>3. /\ q \in Seq(Item) /\ Len(q) = Len(items) - 1
      /\ \A k \in 1 .. Len(items) - 1 : q[k] = items[at(k)]
  BY <1>2, WithoutParts
<1>4. /\ \A k \in 1 .. Len(items) - 1 :
           at(k) \in 1 .. Len(items) /\ at(k) # i /\ (at(k) = Len(items) => k = Len(items) - 1)
      /\ \A k, l \in 1 .. Len(items) - 1 : at(k) = at(l) => k = l
  BY <1>2
<1> HIDE DEF q, at
<1>5. Distinct(q)
  BY <1>2, <1>3, <1>4 DEF Distinct
<1>6. ASSUME NEW k \in 1 .. Len(q)
      PROVE  \/ \E j \in 1 .. Len(less) : q[k] = CertItem(less[j])
             \/ q[k] = Torn /\ k = Len(q)
  <2>1. at(k) \in 1 .. Len(items) /\ q[k] = items[at(k)] /\ at(k) # i
        /\ (at(k) = Len(items) => k = Len(q))
    BY <1>3, <1>4
  <2>2. CASE items[at(k)] = Torn
    BY <2>1, <2>2, BodyParts
  <2>3. CASE items[at(k)] # Torn
    <3>1. items[at(k)] = CertItem(items[at(k)].cert)
          /\ \E j \in 1 .. Len(certs) : items[at(k)].cert = certs[j]
      BY <2>1, <2>3, BodyParts
    <3>2. items[at(k)].cert # c
      BY <1>2, <2>1, <3>1
    <3>3. PICK j \in 1 .. Len(less) : less[j] = items[at(k)].cert
      BY <1>1, <3>1, <3>2
    <3>4. QED
      BY <2>1, <3>1, <3>3
  <2>4. QED
    BY <2>2, <2>3
<1>7. Body(q, less)
  BY <1>3, <1>5, <1>6 DEF Body
<1>8. \E j \in 1 .. Len(certs) : certs[j] = c
  <2>1. \E j \in 1 .. Len(certs) : items[i].cert = certs[j]
    BY BodyParts, ItemKinds
  <2>2. items[i].cert = c
    BY ItemKinds
  <2>3. QED
    BY <2>1, <2>2
<1>9. QED
  BY <1>1, <1>7, <1>8 DEF q, less

(* What add is about to write is what is meant, or what is left of it.     *)
LEMMA AddOk ==
  ASSUME RingSigned, GoodList(meant.certs), NEW h, NEW c \in Names_,
         cvrAdd(disk.ring, h, c).code = "ERR_OK"
  PROVE  /\ Kept(lost, cvrAdd(disk.ring, h, c).body, Append(Less(meant.certs, c), c))
         /\ GoodList(Append(Less(meant.certs, c), c))
<1> DEFINE code == RingChecks(disk.ring, h, c)
           items == Front_(disk.ring)
           found == cmdCVCsFind(items, CertItem(c)).code
           certs == meant.certs
           t == Append(Less(certs, c), c)
<1>1. cvrAdd(disk.ring, h, c) = Added(code, found, disk.ring, c)
  BY DEF cvrAdd
<1> HIDE DEF code, found
<1>2. code = "ERR_OK" /\ found = "ERR_NOT_FOUND"
      /\ Added(code, found, disk.ring, c).body = Append(Front_(disk.ring), CertItem(c))
  BY <1>1 DEF Added
<1>3. EndsSigned(disk.ring) /\ Inside(c).code = "ERR_OK"
  BY <1>2, ChecksOk DEF code
<1>4. GoodList(certs) /\ certs \in Seq(Names_)
  BY DEF GoodList
<1>5. Body(items, certs) /\ (~ lost => items = Items(certs))
  BY <1>3, <1>4, RingIsMeant DEF Kept
<1> HIDE DEF items, certs
<1>6. WalkEnds(items) /\ ~ \E i \in 1 .. Len(items) : items[i] = CertItem(c)
  BY <1>2, <1>5, FindIn DEF found
<1>7. GoodList(t) /\ Body(Append(items, CertItem(c)), t)
  BY <1>3, <1>4, <1>5, <1>6, BodyAdded
<1>8. ASSUME ~ lost
      PROVE  Append(items, CertItem(c)) = Items(t)
  <2>1. items = Items(certs)
    BY <1>5, <1>8
  <2>2. \A i \in 1 .. Len(certs) : certs[i] # c
    <3>1. /\ Len(Items(certs)) = Len(certs)
          /\ \A k \in 1 .. Len(certs) : Items(certs)[k] = CertItem(certs[k])
      BY <1>4, ItemsOf
    <3>2. \A k \in 1 .. Len(certs) : CertItem(certs[k]) # CertItem(c)
      BY <1>6, <2>1, <3>1
    <3>3. QED
      BY <3>2
  <2>3. t = Append(certs, c)
    BY <1>4, <2>2, LessNone
  <2>4. QED
    BY <1>4, <2>1, <2>3, ItemsAppend
<1>9. cvrAdd(disk.ring, h, c).body = Append(items, CertItem(c))
  BY <1>1, <1>2 DEF items
<1> HIDE DEF t
<1>10. QED
  BY <1>7, <1>8, <1>9 DEF Kept, t, certs

(* What del is about to write is what is meant, or what is left of it.     *)
LEMMA DelOk ==
  ASSUME RingSigned, GoodList(meant.certs), NEW h, NEW c \in Names_,
         cvrDel(disk.ring, h, c).code = "ERR_OK"
  PROVE  /\ Kept(lost, cvrDel(disk.ring, h, c).body, Less(meant.certs, c))
         /\ GoodList(Less(meant.certs, c))
<1> DEFINE code == RingChecks(disk.ring, h, c)
           items == Front_(disk.ring)
           found == cmdCVCsFind(items, CertItem(c))
           certs == meant.certs
           i == found.offset
           t == Less(certs, c)
<1>1. cvrDel(disk.ring, h, c) = Removed(code, found, disk.ring)
  BY DEF cvrDel
<1> HIDE DEF code, found
<1>2. code = "ERR_OK" /\ found.code = "ERR_OK"
      /\ Removed(code, found, disk.ring).body = Without(Front_(disk.ring), i)
  BY <1>1 DEF Removed
<1>3. EndsSigned(disk.ring)
  BY <1>2, ChecksOk DEF code
<1>4. GoodList(certs) /\ certs \in Seq(Names_)
  BY DEF GoodList
<1>5. Body(items, certs) /\ (~ lost => items = Items(certs))
  BY <1>3, <1>4, RingIsMeant DEF Kept
<1> HIDE DEF items, certs
<1>6. i \in 1 .. Len(items) /\ items[i] = CertItem(c)
  BY <1>2, <1>5, FindIn DEF found
<1> HIDE DEF i
<1>7. GoodList(t) /\ Body(Without(items, i), t)
  BY <1>4, <1>5, <1>6, BodyRemoved
<1>8. ASSUME ~ lost
      PROVE  Without(items, i) = Items(t)
  <2>1. items = Items(certs)
    BY <1>5, <1>8
  <2>2. i \in 1 .. Len(certs) /\ certs[i] = c
    <3>1. /\ Len(Items(certs)) = Len(certs)
          /\ \A k \in 1 .. Len(certs) : Items(certs)[k] = CertItem(certs[k])
      BY <1>4, ItemsOf
    <3>2. i \in 1 .. Len(certs)
      BY <1>6, <2>1, <3>1
    <3>3. CertItem(certs[i]) = CertItem(c)
      BY <1>6, <2>1, <3>1, <3>2
    <3>4. QED
      BY <3>2, <3>3, ItemKinds
  <2>3. t = Without(certs, i)
    BY <1>4, <2>2, LessParts
  <2>4. QED
    BY <1>4, <2>1, <2>2, <2>3, ItemsWithout
<1>9. cvrDel(disk.ring, h, c).body = Without(items, i)
  BY <1>1, <1>2 DEF items
<1> HIDE DEF t
<1>10. QED
  BY <1>7, <1>8, <1>9 DEF Kept, t, certs

-----------------------------------------------------------------------------
(* Every step keeps the invariant.                                         *)

(* A command that is gone leaves only the files.                           *)
LEMMA Dropped ==
  ASSUME RingInv, NEW c, End(c), c # "ERR_OK", UNCHANGED meant,
         DOMAIN disk' = {"ring", "det"}, RingSigned', DetSigned'
  PROVE  RingInv'
<1>1. pc' = "idle" /\ cmd' = Idle
  BY DEF End
<1>2. cmd'.op = "none"
  BY <1>1 DEF Idle
<1>3. Rewriting' /\ Signing'
  BY <1>2 DEF Rewriting, Signing, RingOps
<1>4. GoodList(meant.certs)'
  BY DEF RingInv, GoodList, Readable, Distinct
<1>5. QED
  BY <1>1, <1>3, <1>4 DEF RingInv

(* When nothing is written, all that is known of the files stays.           *)
LEMMA FilesKept ==
  ASSUME RingInv, UNCHANGED <<disk, meant, over, lost>>
  PROVE  RingSigned' /\ DetSigned' /\ DOMAIN disk' = {"ring", "det"} /\ GoodList(meant.certs)'
<1>1. RingSigned' = RingSigned /\ DetSigned' = DetSigned
      /\ GoodList(meant.certs)' = GoodList(meant.certs)
  BY DEF RingSigned, DetSigned, GoodList, Readable, Distinct, Kept, Body
<1>2. QED
  BY <1>1 DEF RingInv

(* A ring starts with no certificates.                                      *)
LEMMA EmptyOk ==
  GoodList(<<>>) /\ Items(<<>>) = <<>> /\ \A l : Kept(l, <<>>, <<>>)
<1>1. <<>> \in Seq(Names_) /\ 1 .. Len(<<>>) = {}
  OBVIOUS
<1>2. Items(<<>>) = <<>>
  <2> DEFINE s == <<>>
  <2>1. s \in Seq(Names_) /\ s = <<>>
    BY <1>1
  <2> HIDE DEF s
  <2>2. Items(s) = <<>>
    BY <2>1, ItemsOf
  <2>3. QED
    BY <2>1, <2>2
<1>3. GoodList(<<>>)
  BY <1>1 DEF GoodList, Readable, Distinct
<1>4. Body(<<>>, <<>>)
  <2>1. Body(Items(<<>>), <<>>)
    BY <1>3, BodyItems DEF GoodList
  <2>2. QED
    BY <1>2, <2>1
<1>5. QED
  BY <1>2, <1>3, <1>4 DEF Kept

(* A command that is through is gone.                                       *)
LEMMA StepReturn ==
  ASSUME RingInv, Return
  PROVE  RingInv'
<1>1. pc' = "idle" /\ cmd' = Idle /\ UNCHANGED <<disk, meant, over, lost>>
  BY DEF Return
<1>2. Rewriting' /\ Signing'
  BY <1>1 DEF Rewriting, Signing, RingOps, Idle
<1>3. QED
  BY <1>1, <1>2, FilesKept DEF RingInv

(* A day passes, or nothing happens.                                        *)
LEMMA StepDay ==
  ASSUME RingInv, Day \/ UNCHANGED vars
  PROVE  RingInv'
<1>1. UNCHANGED <<disk, pc, cmd, mem, meant, over, lost>>
  BY DEF Day, vars
<1>2. Rewriting' = Rewriting /\ Signing' = Signing
  BY <1>1 DEF Rewriting, Signing, Meaning, GoodList, Readable, Distinct, Kept, Body
<1>3. QED
  BY <1>1, <1>2, FilesKept DEF RingInv

(* init.                                                                    *)
LEMMA StepCreate ==
  ASSUME RingInv, NEW h \in Holder, cvrCreate(h)
  PROVE  RingInv'
<1>1. UNCHANGED <<disk, meant, over, lost>>
  BY DEF cvrCreate
<1>2. CASE Begin([op |-> "init", key |-> h.key, certa |-> h.certa], "open", <<>>)
  <2>1. pc' = "open" /\ cmd'.op = "init" /\ cmd'.key = h.key /\ cmd'.certa = h.certa
        /\ mem' = <<>>
    BY <1>2 DEF Begin
  <2>2. Meaning'.certs = <<>> /\ Meaning'.certa = h.certa
    BY <2>1 DEF Meaning
  <2>3. GoodList(<<>>) /\ Kept(lost', <<>>, <<>>)
    BY EmptyOk
  <2>4. h.key \in Keys /\ h.certa \in Names_
    BY RingAssumption DEF Keys
  <2>5. Rewriting' /\ Signing'
    BY <2>1, <2>2, <2>3, <2>4 DEF Rewriting, Signing, RingOps
  <2>6. QED
    BY <1>1, <2>1, <2>5, FilesKept DEF RingInv, RingOps
<1>3. CASE End("ERR_FILE_EXISTS")
  BY <1>1, <1>3, Dropped, FilesKept
<1>4. QED
  BY <1>2, <1>3 DEF cvrCreate

(* add and del.                                                             *)
LEMMA StepChange ==
  ASSUME RingInv, NEW op \in {"add", "del"}, NEW h \in Holder, NEW c \in Addable,
         Change(op, h, c)
  PROVE  RingInv'
<1> DEFINE r == IF op = "add" THEN cvrAdd(disk.ring, h, c) ELSE cvrDel(disk.ring, h, c)
<1>1. UNCHANGED <<disk, meant, over, lost>>
  BY DEF Change
<1>2. c \in Names_ /\ h.key \in Keys /\ h.certa \in Names_
  BY RingAssumption DEF Keys
<1>3. GoodList(meant.certs) /\ RingSigned
  BY DEF RingInv
<1>4. CASE r.code # "ERR_OK"
  <2>1. End(r.code)
    BY <1>4 DEF Change
  <2> HIDE DEF r
  <2>2. QED
    BY <1>1, <1>4, <2>1, Dropped, FilesKept
<1>5. CASE r.code = "ERR_OK"
  <2>1. Begin([op |-> op, key |-> h.key, certa |-> h.certa, c |-> c], "open", r.body)
    BY <1>5 DEF Change
  <2>2. pc' = "open" /\ cmd'.op = op /\ cmd'.key = h.key /\ cmd'.certa = h.certa
        /\ cmd'.c = c /\ mem' = r.body
    BY <2>1 DEF Begin
  <2>3. /\ Kept(lost, r.body, Meaning'.certs) /\ GoodList(Meaning'.certs)
        /\ Meaning'.certa = h.certa
    <3>1. CASE op = "add"
      <4> DEFINE t == Append(Less(meant.certs, c), c)
      <4>1. Kept(lost, r.body, t) /\ GoodList(t)
        BY <1>2, <1>3, <1>5, <3>1, AddOk
      <4>2. Meaning' = [certa |-> h.certa, certs |-> t]
        BY <1>1, <2>2, <3>1 DEF Meaning
      <4> HIDE DEF r, t
      <4>3. QED
        BY <4>1, <4>2
    <3>2. CASE op = "del"
      <4> DEFINE t == Less(meant.certs, c)
      <4>1. Kept(lost, r.body, t) /\ GoodList(t)
        BY <1>2, <1>3, <1>5, <3>2, DelOk
      <4>2. Meaning' = [certa |-> h.certa, certs |-> t]
        BY <1>1, <2>2, <3>2 DEF Meaning
      <4> HIDE DEF r, t
      <4>3. QED
        BY <4>1, <4>2
    <3>3. QED
      BY <3>1, <3>2
  <2> HIDE DEF r
  <2>4. Rewriting' /\ Signing'
    BY <1>1, <1>2, <2>2, <2>3 DEF Rewriting, Signing, RingOps
  <2>5. QED
    BY <1>1, <2>2, <2>4, FilesKept DEF RingInv, RingOps
<1>6. QED
  BY <1>4, <1>5

(* sign.                                                                    *)
LEMMA StepSigSign ==
  ASSUME RingInv, NEW key \in Keys, NEW certs \in Chain, NEW date, sigSign(key, certs, date)
  PROVE  RingInv'
<1>1. UNCHANGED <<disk, meant, over, lost>>
  BY DEF sigSign
<1>2. CASE Begin([op |-> "sign", key |-> key, certs |-> certs, date |-> date], "sign", <<>>)
  <2>1. pc' = "sign" /\ cmd'.op = "sign" /\ cmd'.key = key /\ cmd'.certs = certs
    BY <1>2 DEF Begin
  <2>2. Rewriting' /\ Signing'
    BY <2>1 DEF Rewriting, Signing, RingOps
  <2>3. QED
    BY <1>1, <2>1, <2>2, FilesKept DEF RingInv
<1>3. CASE End("ERR_FILE_NOT_FOUND") \/ End("ERR_FILE_EXISTS")
  BY <1>1, <1>3, Dropped, FilesKept
<1>4. QED
  BY <1>2, <1>3 DEF sigSign

(* The file is emptied, and what the ring is meant to be is that of the    *)
(* command from now on.                                                    *)
LEMMA StepOpen ==
  ASSUME RingInv, OpenFile
  PROVE  RingInv'
<1>1. pc = "open" /\ cmd.op \in RingOps \cup {"sign"}
  BY DEF OpenFile, RingInv
<1>2. CASE End("ERR_FILE_CREATE") /\ UNCHANGED <<disk, meant, over, lost>>
  BY <1>2, Dropped, FilesKept
<1>3. CASE /\ disk' = [disk EXCEPT ![Target] = <<>>]
           /\ pc' = "write" /\ meant' = Meaning
           /\ over' = IF cmd.op = "sign" THEN disk.ring ELSE over
           /\ lost' = (lost /\ cmd.op # "init")
           /\ UNCHANGED <<cmd, mem>>
  <2>1. CASE cmd.op \in RingOps
    <3>1. cmd.op # "sign" /\ Target = "ring" /\ Target' = "ring"
      BY <1>3, <2>1 DEF Target, RingOps
    <3>2. DOMAIN disk' = {"ring", "det"} /\ disk'.ring = <<>> /\ disk'.det = disk.det
          /\ over' = over
      BY <1>3, <3>1 DEF RingInv
    <3>3. RingSigned' /\ DetSigned'
      <4>1. RingSigned'
        BY <3>2, Unsigned DEF RingSigned
      <4>2. DetSigned' = DetSigned
        BY <3>2 DEF DetSigned
      <4>3. QED
        BY <4>1, <4>2 DEF RingInv
    <3>4. /\ GoodList(Meaning.certs) /\ Meaning.certa = cmd.certa
          /\ Kept(lost, mem, Meaning.certs) /\ (cmd.op = "init" => mem = <<>>)
          /\ cmd.key \in Keys /\ cmd.certa \in Names_
      BY <1>1, <2>1 DEF RingInv, Rewriting
    <3>5. GoodList(meant'.certs) /\ meant'.certa = cmd.certa /\ mem' = mem
      BY <1>3, <3>4
    <3>6. Kept(lost', mem', meant'.certs)
      <4>1. CASE cmd.op = "init"
        <5>1. Meaning.certs = <<>> /\ mem = <<>>
          BY <3>4, <4>1 DEF Meaning
        <5>2. QED
          BY <1>3, <5>1, EmptyOk
      <4>2. CASE cmd.op # "init"
        BY <1>3, <3>4, <4>2 DEF Kept
      <4>3. QED
        BY <4>1, <4>2
    <3>7. Rewriting' /\ Signing'
      BY <1>3, <2>1, <3>1, <3>4, <3>5, <3>6 DEF Rewriting, Signing
    <3>8. QED
      BY <1>3, <2>1, <3>2, <3>3, <3>5, <3>7 DEF RingInv, GoodList, Readable, Distinct
  <2>2. CASE cmd.op = "sign"
    <3>1. Target = "det" /\ cmd.op \notin RingOps /\ Meaning = meant
      BY <2>2 DEF Target, RingOps, Meaning
    <3>2. DOMAIN disk' = {"ring", "det"} /\ disk'.ring = disk.ring /\ disk'.det = <<>>
          /\ over' = disk.ring /\ meant' = meant /\ (lost' <=> lost)
      BY <1>3, <2>2, <3>1 DEF RingInv
    <3>3. RingSigned' /\ DetSigned' /\ GoodList(meant.certs)'
      <4>1. DetSigned'
        BY <3>2, Unsigned DEF DetSigned
      <4>2. GoodList(meant.certs)' = GoodList(meant.certs)
        BY <3>2 DEF GoodList, Readable, Distinct
      <4>3. RingSigned'
        BY <3>2 DEF RingInv, RingSigned, Kept
      <4>4. QED
        BY <4>1, <4>2, <4>3 DEF RingInv
    <3>4. Rewriting' /\ Signing'
      BY <1>1, <1>3, <2>2, <3>1, <3>2 DEF RingInv, Rewriting, Signing
    <3>5. QED
      BY <1>3, <2>2, <3>2, <3>3, <3>4 DEF RingInv
  <2>3. QED
    BY <1>1, <2>1, <2>2
<1>4. QED
  BY <1>2, <1>3 DEF OpenFile

(* A ring that is put down without a signature, or with that of the        *)
(* command.                                                                *)
LEMMA RingPut ==
  ASSUME RingInv, NEW x, disk' = [disk EXCEPT !.ring = x], UNCHANGED <<meant, over>>,
         EndsSigned(x) =>
           /\ meant.certa \in Names_
           /\ \E key \in Keys : \E date, items :
                /\ GoodChain(<<meant.certa>>, date, key) /\ Kept(lost', items, meant.certs)
                /\ x = RingOf(meant.certa, items, date, key)
  PROVE  /\ RingSigned' /\ DetSigned' /\ DOMAIN disk' = {"ring", "det"}
         /\ GoodList(meant.certs)' /\ disk'.ring = x /\ disk'.det = disk.det
<1>1. DOMAIN disk' = {"ring", "det"} /\ disk'.ring = x /\ disk'.det = disk.det
  BY DEF RingInv
<1>2. DetSigned' = DetSigned /\ GoodList(meant.certs)' = GoodList(meant.certs)
  BY <1>1 DEF DetSigned, GoodList, Readable, Distinct
<1>3. RingSigned'
  BY <1>1 DEF RingSigned
<1>4. QED
  BY <1>1, <1>2, <1>3 DEF RingInv

(* The same for the file of a separate signature.                           *)
LEMMA DetPut ==
  ASSUME RingInv, NEW x, disk' = [disk EXCEPT !.det = x], UNCHANGED <<meant, over, lost>>,
         EndsSigned(x) =>
           \E certs \in Chain, key \in Keys : \E date :
              /\ GoodChain(certs, date, key) /\ Exists(over)
              /\ x = DetOf(certs, date, key, over)
  PROVE  /\ RingSigned' /\ DetSigned' /\ DOMAIN disk' = {"ring", "det"}
         /\ GoodList(meant.certs)' /\ disk'.ring = disk.ring /\ disk'.det = x
<1>1. DOMAIN disk' = {"ring", "det"} /\ disk'.ring = disk.ring /\ disk'.det = x
  BY DEF RingInv
<1>2. RingSigned' = RingSigned /\ GoodList(meant.certs)' = GoodList(meant.certs)
  BY <1>1 DEF RingSigned, GoodList, Readable, Distinct, Kept, Body
<1>3. DetSigned'
  BY <1>1 DEF DetSigned
<1>4. QED
  BY <1>1, <1>2, <1>3 DEF RingInv

(* A separate signature is there as a whole or is none.                     *)
LEMMA PartialDet ==
  ASSUME NEW certs, NEW date, NEW key, NEW items, NEW p \in Partial(DetOf(certs, date, key, items))
  PROVE  EndsSigned(p) => p = DetOf(certs, date, key, items)
<1>1. p = <<>> \/ p = DetOf(certs, date, key, items) \/ p = <<Torn>>
  BY PartialOne DEF DetOf
<1>2. QED
  BY <1>1, Unsigned

(* What is on the disk when the content of a file was written, or some of  *)
(* it.                                                                     *)
LEMMA Written ==
  ASSUME RingInv, pc = "write", NEW p \in Partial(mem),
         disk' = [disk EXCEPT ![Target] = p], UNCHANGED <<meant, over>>,
         cmd.op = "sign" => UNCHANGED lost
  PROVE  /\ RingSigned' /\ DetSigned' /\ DOMAIN disk' = {"ring", "det"}
         /\ GoodList(meant.certs)'
         /\ cmd.op \in RingOps => disk'.ring = p /\ Body(p, meant.certs)
<1>1. cmd.op \in RingOps \cup {"sign"} /\ GoodList(meant.certs)
  BY DEF RingInv
<1>2. CASE cmd.op \in RingOps
  <2>1. Target = "ring"
    BY <1>2 DEF Target, RingOps
  <2>2. Body(mem, meant.certs)
    BY <1>2 DEF RingInv, Rewriting, Kept
  <2>3. Body(p, meant.certs) /\ ~ EndsSigned(p)
    BY <2>2, BodyPartial, BodyUnsigned
  <2>4. QED
    BY <2>1, <2>3, RingPut
<1>3. CASE cmd.op = "sign"
  <2>1. Target = "det" /\ cmd.op \notin RingOps
    BY <1>3 DEF Target, RingOps
  <2>2. /\ cmd.key \in Keys /\ cmd.certs \in Chain
        /\ GoodChain(cmd.certs, cmd.date, cmd.key) /\ Exists(over)
        /\ mem = DetOf(cmd.certs, cmd.date, cmd.key, over)
    BY <1>3 DEF RingInv, Signing
  <2>3. EndsSigned(p) => p = DetOf(cmd.certs, cmd.date, cmd.key, over)
    BY <2>2, PartialDet
  <2>4. EndsSigned(p) =>
           \E certs \in Chain, key \in Keys : \E date :
              /\ GoodChain(certs, date, key) /\ Exists(over)
              /\ p = DetOf(certs, date, key, over)
    BY <2>2, <2>3
  <2>5. QED
    BY <1>3, <2>1, <2>4, DetPut
<1>4. QED
  BY <1>1, <1>2, <1>3

(* The content of a file is written, or some of it.                        *)
LEMMA StepWrite ==
  ASSUME RingInv, cmdFileWrite
  PROVE  RingInv'
<1>1. pc = "write" /\ UNCHANGED <<meant, over>> /\ cmd.op \in RingOps \cup {"sign"}
  BY DEF cmdFileWrite, RingInv
<1>2. PICK p \in Partial(mem) :
        /\ disk' = [disk EXCEPT ![Target] = p]
        /\ \/ cmd.op = "sign" /\ End("ERR_OK") /\ UNCHANGED lost
           \/ cmd.op # "sign" /\ pc' = "sign" /\ mem' = <<>> /\ UNCHANGED cmd /\ Lose(p)
           \/ End("ERR_FILE_WRITE") /\ UNCHANGED lost
  BY DEF cmdFileWrite
<1>3. /\ RingSigned' /\ DetSigned' /\ DOMAIN disk' = {"ring", "det"}
      /\ GoodList(meant.certs)'
      /\ cmd.op \in RingOps => disk'.ring = p /\ Body(p, meant.certs)
  BY <1>1, <1>2, Written
<1>4. CASE cmd.op = "sign" /\ End("ERR_OK") /\ UNCHANGED lost
  <2>1. pc' = "told" /\ cmd' = cmd /\ cmd.op \notin RingOps
    BY <1>4 DEF End, RingOps
  <2>2. cmd.key \in Keys /\ cmd.certs \in Chain
    BY <1>4 DEF RingInv, Signing
  <2>3. Rewriting' /\ Signing'
    BY <2>1, <2>2 DEF Rewriting, Signing
  <2>4. QED
    BY <1>3, <2>1, <2>3 DEF RingInv
<1>5. CASE cmd.op # "sign" /\ pc' = "sign" /\ mem' = <<>> /\ UNCHANGED cmd /\ Lose(p)
  <2>1. cmd.op \in RingOps
    BY <1>1, <1>5
  <2>2. /\ cmd.key \in Keys /\ cmd.certa \in Names_ /\ meant.certa = cmd.certa
        /\ Kept(lost, mem, meant.certs)
    BY <1>1, <2>1 DEF RingInv, Rewriting
  <2>3. Kept(lost', disk'.ring, meant.certs)
    BY <1>3, <1>5, <2>1, <2>2 DEF Kept, Lose
  <2>4. Rewriting' /\ Signing'
    BY <1>1, <1>5, <2>1, <2>2, <2>3 DEF Rewriting, Signing
  <2>5. QED
    BY <1>1, <1>3, <1>5, <2>1, <2>4 DEF RingInv
<1>6. CASE End("ERR_FILE_WRITE")
  BY <1>1, <1>3, <1>6, Dropped
<1>7. QED
  BY <1>2, <1>4, <1>5, <1>6

(* The signature is made.                                                   *)
LEMMA StepSign ==
  ASSUME RingInv, Sign
  PROVE  RingInv'
<1> DEFINE certs == IF cmd.op = "sign" THEN cmd.certs ELSE <<cmd.certa>>
           code == cmdSigSign(ChainOf, DateOf, cmd.key, disk.ring)
<1>1. pc = "sign" /\ UNCHANGED <<disk, meant, over, lost>> /\ cmd.op \in RingOps \cup {"sign"}
  BY DEF Sign, RingInv
<1>2. ASSUME NEW c, End(c), c # "ERR_OK"
      PROVE  RingInv'
  BY <1>1, <1>2, FilesKept, Dropped
<1>3. CASE /\ code = "ERR_OK"
           /\ mem' = <<SigItem(SigOf(ChainOf, DateOf, cmd.key, disk.ring))>>
           /\ pc' = IF cmd.op = "sign" THEN "open" ELSE "append"
           /\ UNCHANGED cmd
  <2>1. cmd.key \in Keys /\ certs \in Seq(Names_)
    <3>1. CASE cmd.op = "sign"
      BY <3>1, RingAssumption DEF RingInv, Signing
    <3>2. CASE cmd.op \in RingOps
      <4>1. cmd.key \in Keys /\ cmd.certa \in Names_ /\ cmd.op # "sign"
        BY <3>2 DEF RingInv, Rewriting, RingOps
      <4>2. QED
        BY <4>1
    <3>3. QED
      BY <1>1, <3>1, <3>2
  <2>2. ChainOf = Items(certs)
    BY DEF ChainOf
  <2> HIDE DEF certs
  <2>3. GoodChain(certs, DateOf, cmd.key) /\ Exists(disk.ring)
    BY <1>3, <2>1, <2>2, KeysKnown, SignOk
  <2>4. mem' = DetOf(certs, DateOf, cmd.key, disk.ring)
    BY <1>3, <2>2 DEF DetOf
  <2>5. CASE cmd.op = "sign"
    <3>1. certs = cmd.certs /\ DateOf = cmd.date /\ cmd.op \notin RingOps
      BY <2>5 DEF certs, DateOf, RingOps
    <3>2. cmd.certs \in Chain /\ pc' = "open" /\ cmd' = cmd
      BY <1>3, <2>5 DEF RingInv, Signing
    <3>3. Rewriting' /\ Signing'
      BY <1>1, <2>1, <2>3, <2>4, <2>5, <3>1, <3>2 DEF Rewriting, Signing
    <3>4. QED
      BY <1>1, <2>5, <3>2, <3>3, FilesKept DEF RingInv
  <2>6. CASE cmd.op \in RingOps
    <3>1. certs = <<cmd.certa>> /\ cmd.op # "sign"
      BY <2>6 DEF certs, RingOps
    <3>2. /\ pc' = "append" /\ cmd' = cmd /\ cmd.certa \in Names_ /\ meant.certa = cmd.certa
          /\ Kept(lost, disk.ring, meant.certs)
      BY <1>1, <1>3, <2>6, <3>1 DEF RingInv, Rewriting
    <3>3. \E date : /\ GoodChain(<<cmd.certa>>, date, cmd.key)
                    /\ mem' = DetOf(<<cmd.certa>>, date, cmd.key, disk.ring)
      BY <2>3, <2>4, <3>1
    <3>4. Rewriting' /\ Signing'
      BY <1>1, <2>1, <3>1, <3>2, <3>3 DEF Rewriting, Signing
    <3>5. QED
      BY <1>1, <2>6, <3>2, <3>4, FilesKept DEF RingInv
  <2>7. QED
    BY <1>1, <2>5, <2>6
<1>4. \/ /\ code = "ERR_OK"
         /\ mem' = <<SigItem(SigOf(ChainOf, DateOf, cmd.key, disk.ring))>>
         /\ pc' = IF cmd.op = "sign" THEN "open" ELSE "append"
         /\ UNCHANGED cmd
      \/ code # "ERR_OK" /\ End(code)
      \/ End("ERR_OUTOFMEMORY")
  BY DEF Sign
<1> HIDE DEF code
<1>5. QED
  BY <1>2, <1>3, <1>4

(* What is on the disk when the signature was written, or some of it.      *)
LEMMA Appended ==
  ASSUME RingInv, pc = "append", NEW p \in Partial(mem), lost => lost',
         disk' = [disk EXCEPT !.ring = @ \o p], UNCHANGED <<meant, over>>
  PROVE  /\ RingSigned' /\ DetSigned' /\ DOMAIN disk' = {"ring", "det"}
         /\ GoodList(meant.certs)'
         /\ p = mem => EndsSigned(disk'.ring)
<1>1. cmd.op \in RingOps /\ GoodList(meant.certs)
  BY DEF RingInv, Signing
<1>2. /\ cmd.key \in Keys /\ cmd.certa \in Names_ /\ meant.certa = cmd.certa
      /\ Kept(lost, disk.ring, meant.certs)
      /\ \E date : /\ GoodChain(<<cmd.certa>>, date, cmd.key)
                   /\ mem = DetOf(<<cmd.certa>>, date, cmd.key, disk.ring)
  BY <1>1 DEF RingInv, Rewriting
<1>3. PICK date : /\ GoodChain(<<cmd.certa>>, date, cmd.key)
                  /\ mem = DetOf(<<cmd.certa>>, date, cmd.key, disk.ring)
  BY <1>2
<1> DEFINE a == cmd.certa
           items == disk.ring
           sig == SigItem(SigOf(Items(<<a>>), date, cmd.key, items))
<1>4. /\ a \in Names_ /\ GoodChain(<<a>>, date, cmd.key)
      /\ mem = <<sig>> /\ meant.certa = a
  BY <1>2, <1>3 DEF DetOf
<1>5. RingOf(a, items, date, cmd.key) = Append(items, sig)
  BY DEF RingOf
<1>6. IsKey(cmd.key) /\ Body(items, meant.certs) /\ items \in Seq(Item)
      /\ Kept(lost', items, meant.certs)
  BY <1>2, KeysKnown DEF Kept, Body
<1> HIDE DEF a, sig
<1>7. EndsSigned(RingOf(a, items, date, cmd.key))
  BY <1>4, <1>6, RingRead
<1>8. /\ items \o <<>> = items /\ items \o <<sig>> = Append(items, sig)
      /\ items \o <<Torn>> = Append(items, Torn)
  BY <1>6, Joined
<1>9. ~ EndsSigned(items) /\ ~ EndsSigned(Append(items, Torn))
  BY <1>6, BodyUnsigned, Unsigned
<1>10. p = <<>> \/ p = <<sig>> \/ p = <<Torn>>
  BY <1>4, PartialOne
<1> DEFINE x == items \o p
<1>11. EndsSigned(x) => x = RingOf(a, items, date, cmd.key)
  BY <1>5, <1>8, <1>9, <1>10
<1>12. p = mem => EndsSigned(x)
  BY <1>4, <1>5, <1>7, <1>8
<1>13. disk' = [disk EXCEPT !.ring = x]
  OBVIOUS
<1> HIDE DEF x, items
<1>14. EndsSigned(x) =>
          /\ meant.certa \in Names_
          /\ \E key \in Keys : \E d, it :
               /\ GoodChain(<<meant.certa>>, d, key) /\ Kept(lost', it, meant.certs)
               /\ x = RingOf(meant.certa, it, d, key)
  BY <1>2, <1>4, <1>6, <1>11
<1>15. /\ RingSigned' /\ DetSigned' /\ DOMAIN disk' = {"ring", "det"}
       /\ GoodList(meant.certs)' /\ disk'.ring = x
  BY <1>13, <1>14, RingPut
<1>16. QED
  BY <1>12, <1>15

(* The signature of the ring is put at its end, or some of it.              *)
LEMMA StepAppend ==
  ASSUME RingInv, cmdFileAppend
  PROVE  RingInv'
<1>1. pc = "append" /\ UNCHANGED <<meant, over>> /\ cmd.op \in RingOps /\ cmd.op # "sign"
  BY DEF cmdFileAppend, RingInv, Signing
<1>2. CASE \E p \in Partial(mem) :
             /\ disk' = [disk EXCEPT !.ring = @ \o p]
             /\ \/ End("ERR_OK") /\ Lose(p)
                \/ End("ERR_FILE_WRITE") /\ UNCHANGED lost
  <2>1. PICK p \in Partial(mem) :
             /\ disk' = [disk EXCEPT !.ring = @ \o p]
             /\ \/ End("ERR_OK") /\ Lose(p)
                \/ End("ERR_FILE_WRITE") /\ UNCHANGED lost
    BY <1>2
  <2>2. lost => lost'
    BY <2>1 DEF Lose
  <2>3. /\ RingSigned' /\ DetSigned' /\ DOMAIN disk' = {"ring", "det"}
        /\ GoodList(meant.certs)' /\ (p = mem => EndsSigned(disk'.ring))
    BY <1>1, <2>1, <2>2, Appended
  <2>4. CASE End("ERR_OK") /\ Lose(p)
    <3>1. pc' = "told" /\ cmd' = cmd /\ (~ lost' => p = mem)
      BY <2>4 DEF End, Lose
    <3>2. cmd.key \in Keys /\ cmd.certa \in Names_ /\ meant.certa = cmd.certa
      BY <1>1 DEF RingInv, Rewriting
    <3>3. Rewriting' /\ Signing'
      BY <1>1, <2>3, <3>1, <3>2 DEF Rewriting, Signing
    <3>4. QED
      BY <2>3, <3>1, <3>3 DEF RingInv
  <2>5. CASE End("ERR_FILE_WRITE")
    BY <1>1, <2>3, <2>5, Dropped
  <2>6. QED
    BY <2>1, <2>4, <2>5
<1>3. CASE End("ERR_FILE_OPEN") /\ UNCHANGED <<disk, lost>>
  BY <1>1, <1>3, FilesKept, Dropped
<1>4. QED
  BY <1>2, <1>3 DEF cmdFileAppend

(* The program is killed.                                                   *)
LEMMA StepCrash ==
  ASSUME RingInv, Crash
  PROVE  RingInv'
<1>1. End("killed") /\ UNCHANGED <<meant, over, lost>>
  BY DEF Crash
<1>2. PICK p \in Partial(mem) :
        disk' = CASE pc = "write" -> [disk EXCEPT ![Target] = p]
                  [] pc = "append" -> [disk EXCEPT !.ring = @ \o p]
                  [] OTHER -> disk
  BY DEF Crash
<1>3. RingSigned' /\ DetSigned' /\ DOMAIN disk' = {"ring", "det"}
  <2>1. CASE pc = "write"
    BY <1>1, <1>2, <2>1, Written
  <2>2. CASE pc = "append"
    BY <1>1, <1>2, <2>2, Appended
  <2>3. CASE pc # "write" /\ pc # "append"
    BY <1>1, <1>2, <2>3, FilesKept
  <2>4. QED
    BY <2>1, <2>2, <2>3
<1>4. QED
  BY <1>1, <1>3, Dropped

(* What the disk holds, and what a command that is under way holds of it,  *)
(* is as it is meant to be: see Rewriting and Signing for the places of a  *)
(* command of cvr.c and of sig.c.                                          *)
THEOREM RingInductive == Spec => []RingInv
<1>1. Init => RingInv
  <2> SUFFICES ASSUME Init PROVE RingInv
    OBVIOUS
  <2>1. cmd.op = "none" /\ cmd = Idle /\ pc = "idle" /\ meant.certs = <<>>
        /\ DOMAIN disk = {"ring", "det"} /\ disk.ring = Absent /\ disk.det = Absent
    BY DEF Init, Idle, NoRing
  <2>2. RingSigned /\ DetSigned
    BY <2>1, Unsigned DEF RingSigned, DetSigned
  <2>3. Rewriting /\ Signing
    BY <2>1 DEF Rewriting, Signing, RingOps
  <2>4. QED
    BY <2>1, <2>2, <2>3, EmptyOk DEF RingInv
<1>2. RingInv /\ [Next]_vars => RingInv'
  <2> SUFFICES ASSUME RingInv, [Next]_vars PROVE RingInv'
    OBVIOUS
  <2>1. CASE \E h \in Holder : cvrCreate(h)
    BY <2>1, StepCreate
  <2>2. CASE \E op \in {"add", "del"}, h \in Holder, c \in Addable : Change(op, h, c)
    BY <2>2, StepChange
  <2>3. CASE \E key \in {h.key : h \in Holder}, certs \in Chain, date \in {NoDate, today} :
               sigSign(key, certs, date)
    BY <2>3, StepSigSign DEF Keys
  <2>4. CASE Step
    BY <2>4, StepReturn, StepOpen, StepWrite, StepSign, StepAppend DEF Step
  <2>5. CASE Crash
    BY <2>5, StepCrash
  <2>6. CASE Day \/ UNCHANGED vars
    BY <2>6, StepDay
  <2>7. QED
    BY <2>1, <2>2, <2>3, <2>4, <2>5, <2>6 DEF Next
<1>3. QED
  BY <1>1, <1>2, PTL DEF Spec

-----------------------------------------------------------------------------
(* What follows of rings.                                                  *)

(* As many certificates as places, when none is there twice.               *)
LEMMA DistinctMany ==
  ASSUME NEW S, NEW certs \in Seq(S), Distinct(certs)
  PROVE  Cardinality({certs[i] : i \in DOMAIN certs}) = Len(certs)
<1> DEFINE n == Len(certs)
           T == {certs[i] : i \in 1 .. n}
           f == [i \in 1 .. n |-> certs[i]]
<1>1. n \in Nat /\ DOMAIN certs = 1 .. n
  OBVIOUS
<1> HIDE DEF n
<1>2. IsFiniteSet(1 .. n) /\ Cardinality(1 .. n) = n
  BY <1>1, FS_Interval
<1>3. f \in Bijection(1 .. n, T)
  <2>1. f \in [1 .. n -> T]
    OBVIOUS
  <2>2. \A i, j \in 1 .. n : f[i] = f[j] => i = j
    BY DEF Distinct, n
  <2>3. \A t \in T : \E i \in 1 .. n : f[i] = t
    OBVIOUS
  <2> QED
    BY <2>1, <2>2, <2>3 DEF Bijection, Injection, Surjection, IsInjective
<1>4. ExistsBijection(1 .. n, T)
  BY <1>3 DEF ExistsBijection
<1>5. Cardinality(T) = n
  BY <1>2, <1>4, FS_Bijection
<1>6. QED
  BY <1>1, <1>5 DEF n

(* What is accepted is signed.                                              *)
LEMMA AcceptedSigned ==
  ASSUME NEW ring, NEW a, Accepts(ring, a) = "ERR_OK"
  PROVE  EndsSigned(ring)
<1>1. cmdSigRead(ring).code = "ERR_OK"
  BY DEF Accepts, cmdSigVerify2
<1>2. QED
  BY <1>1, ReadOk

(* What may be left of a body, in the words of the specification.          *)
LEMMA BodyRemains ==
  ASSUME NEW certs \in Seq(Names_), NEW items, Body(items, certs)
  PROVE  Remains(items, certs)
<1>1. DOMAIN certs = 1 .. Len(certs) /\ DOMAIN items = 1 .. Len(items)
  BY BodyParts
<1>2. \A i \in 1 .. Len(items) :
        IF items[i].kind = "cert" THEN \E j \in 1 .. Len(certs) : certs[j] = items[i].cert
        ELSE i = Len(items) /\ items[i] = Torn
  BY BodyParts
<1>3. \A i, j \in 1 .. Len(items) : items[i] = items[j] => i = j
  BY DEF Body, Distinct
<1>4. QED
  BY <1>1, <1>2, <1>3 DEF Remains

(* A ring that its holder's certificate accepts is what the commands were  *)
(* asked to make of it, whatever writes were told to have failed, and a    *)
(* command that ends well has left such a ring (add, del and init of       *)
(* cvr.c); where an fclose failed unheard (cmd_file.c), what is accepted   *)
(* is the holder's and among what was asked for, each once.                *)
THEOREM RingAsMeantCorrect == Spec => []RingAsMeant
<1>1. ASSUME RingInv
      PROVE  RingAsMeant
  <2>1. GoodList(meant.certs) /\ RingSigned
    BY <1>1 DEF RingInv
  <2>2. meant.certs \in Seq(Names_) /\ Readable(meant.certs) /\ Distinct(meant.certs)
    BY <2>1 DEF GoodList
  <2>3. ASSUME NEW a \in Names_, Accepts(disk.ring, a) = "ERR_OK"
        PROVE  /\ a = meant.certa
               /\ IF lost THEN Remains(Front_(disk.ring), meant.certs)
                  ELSE /\ Front_(disk.ring) = Items(meant.certs)
                       /\ cmdCVCsCheck(Front_(disk.ring)) = "ERR_OK"
               /\ Cardinality({meant.certs[i] : i \in DOMAIN meant.certs}) = Len(meant.certs)
    <3>1. EndsSigned(disk.ring)
      BY <2>3, AcceptedSigned
    <3>2. a = meant.certa /\ Kept(lost, Front_(disk.ring), meant.certs)
      BY <2>1, <2>3, <3>1, RingIsMeant
    <3>3. Remains(Front_(disk.ring), meant.certs)
      BY <2>2, <3>2, BodyRemains DEF Kept
    <3>4. cmdCVCsCheck(Items(meant.certs)) = "ERR_OK"
      BY <2>2, CheckAll
    <3>5. ~ lost => /\ Front_(disk.ring) = Items(meant.certs)
                    /\ cmdCVCsCheck(Front_(disk.ring)) = "ERR_OK"
      BY <3>2, <3>4 DEF Kept
    <3>6. Cardinality({meant.certs[i] : i \in DOMAIN meant.certs}) = Len(meant.certs)
      BY <2>2, DistinctMany
    <3>7. QED
      BY <3>2, <3>3, <3>5, <3>6
  <2>4. ASSUME Told, ~ lost
        PROVE  Done
    <3>1. EndsSigned(disk.ring) /\ meant.certa = cmd.certa
      BY <1>1, <2>4 DEF RingInv, Rewriting, Told
    <3>2. /\ Kept(lost, Front_(disk.ring), meant.certs)
          /\ Accepts(disk.ring, cmd.certa) = "ERR_OK"
      BY <2>1, <3>1, RingIsMeant
    <3>3. QED
      BY <2>4, <3>2 DEF Done, Kept
  <2>5. RingHolds
    BY <2>3 DEF RingHolds
  <2>6. QED
    BY <2>4, <2>5 DEF RingAsMeant
<1>2. QED
  BY <1>1, RingInductive, PTL

(* The certificate of the chain of a ring is that of its holder.            *)
LEMMA ChainRead ==
  ASSUME NEW ring, NEW a \in Names_, cmdSigRead(ring).code = "ERR_OK",
         cmdSigRead(ring).sig.certs = Items(<<a>>)
  PROVE  cmdSigExtr(ring, "cert", 0) = [code |-> "ERR_OK", items |-> <<CertItem(a)>>]
<1>1. Len(Items(<<a>>)) = 1 /\ Items(<<a>>)[1] = CertItem(a)
  <2> DEFINE one == <<a>>
  <2>1. one \in Seq(Names_) /\ Len(one) = 1 /\ one[1] = a
    OBVIOUS
  <2> HIDE DEF one
  <2>2. /\ Len(Items(one)) = Len(one)
        /\ \A i \in 1 .. Len(one) : Items(one)[i] = CertItem(one[i])
    BY <2>1, ItemsOf
  <2>3. 1 \in 1 .. Len(one)
    BY <2>1
  <2>4. Len(Items(one)) = 1 /\ Items(one)[1] = CertItem(one[1])
    BY <2>1, <2>2, <2>3
  <2>5. QED
    BY <2>1, <2>4 DEF one
<1> DEFINE c == Items(<<a>>)
<1> HIDE DEF c
<1>2. Len(c) = 1 /\ c[1] = CertItem(a) /\ cmdSigRead(ring).sig.certs = c
  BY <1>1 DEF c
<1>3. cmdSigExtr(ring, "cert", 0) = [code |-> "ERR_OK", items |-> <<c[1]>>]
  BY <1>2 DEF cmdSigExtr
<1>4. QED
  BY <1>2, <1>3

(* val ends as the check of the body does on a ring that is accepted.       *)
LEMMA ValEnds ==
  ASSUME NEW ring, NEW a, Exists(ring), cmdSigRead(ring).code = "ERR_OK",
         Accepts(ring, a) = "ERR_OK"
  PROVE  cvrVal(ring, a) = cmdCVCsCheck(Front_(ring))
<1> DEFINE acc == Accepts(ring, a)
           p == acc = "ERR_OK"
           f == <<<<p, acc>>>>
           end == cmdCVCsCheck(Front_(ring))
<1>1. cvrVal(ring, a) = First(f, end)
  BY DEF cvrVal
<1>2. Len(f) = 1 /\ f[1][1] = p /\ p
  OBVIOUS
<1> HIDE DEF f, end, acc
<1>3. f[1][1]
  BY <1>2
<1> HIDE DEF p
<1>4. First(f, end) = end
  <2>1. \A i \in 1 .. Len(f) : f[i][1]
    <3>1. \A i \in 1 .. Len(f) : i = 1
      BY <1>2
    <3>2. QED
      BY <1>3, <3>1
  <2>2. Failed(f) = {}
    BY <2>1 DEF Failed
  <2>3. QED
    BY <2>2 DEF First, CodeOf
<1>5. QED
  BY <1>1, <1>4 DEF end

(* The check of a body fails at its torn end only.                          *)
LEMMA CheckBody ==
  ASSUME NEW certs, Readable(certs), NEW items, Body(items, certs)
  PROVE  cmdCVCsCheck(items) = IF WalkEnds(items) THEN "ERR_OK" ELSE "ERR_BAD_CERTRING"
<1> DEFINE n == Len(items)
           code == [i \in 1 .. n |-> IF items[i] = Torn THEN "ERR_BAD_CERTRING"
                                     ELSE Inside(items[i].cert).code]
           f == [i \in 1 .. n |-> <<code[i] = "ERR_OK", code[i]>>]
<1>1. n \in Nat /\ DOMAIN items = 1 .. n
  BY BodyParts
<1>2. cmdCVCsCheck(items) = First(f, "ERR_OK")
  <2> DEFINE c(i) == IF items[i].kind # "cert" THEN "ERR_BAD_CERTRING"
                     ELSE btokCVCUnwrap(Certs[items[i].cert], None).code
  <2>1. cmdCVCsCheck(items) = First([i \in DOMAIN items |-> <<c(i) = "ERR_OK", c(i)>>], "ERR_OK")
    BY DEF cmdCVCsCheck
  <2>2. ASSUME NEW i \in 1 .. n
        PROVE  c(i) = code[i]
    BY BodyParts, ItemKinds DEF Inside
  <2> HIDE DEF c, code
  <2>3. QED
    BY <1>1, <2>1, <2>2
<1>3. \A i \in 1 .. n : code[i] = IF items[i] = Torn THEN "ERR_BAD_CERTRING" ELSE "ERR_OK"
  <2>1. ASSUME NEW i \in 1 .. n, items[i] # Torn
        PROVE  Inside(items[i].cert).code = "ERR_OK"
    <3>1. \E j \in 1 .. Len(certs) : items[i].cert = certs[j]
      BY <2>1, BodyParts
    <3>2. QED
      BY <3>1 DEF Readable
  <2>2. QED
    BY <2>1
<1>4. \A i \in 1 .. n : items[i] = Torn => i = n
  BY BodyParts
<1>5. WalkEnds(items) <=> \A i \in 1 .. n : items[i] # Torn
  BY BodyParts
<1> HIDE DEF code, n
<1>6. CASE WalkEnds(items)
  <2>1. \A i \in 1 .. n : code[i] = "ERR_OK"
    BY <1>3, <1>5, <1>6
  <2>2. First(f, "ERR_OK") = "ERR_OK"
    BY <1>1, <2>1, EachOk
  <2>3. QED
    BY <1>2, <1>6, <2>2
<1>7. CASE ~ WalkEnds(items)
  <2>1. n \in 1 .. n /\ items[n] = Torn
    BY <1>4, <1>5, <1>7
  <2>2. code[n] = "ERR_BAD_CERTRING" /\ \A i \in 1 .. n : i # n => code[i] = "ERR_OK"
    BY <1>3, <1>4, <2>1
  <2>3. Len(f) = n /\ \A i \in 1 .. n : f[i] = <<code[i] = "ERR_OK", code[i]>>
    BY <1>1
  <2> HIDE DEF f
  <2>4. \A i \in 1 .. n : (f[i][1] <=> code[i] = "ERR_OK") /\ f[i][2] = code[i]
    <3>1. \A q \in BOOLEAN : \A x : <<q, x>>[1] = q /\ <<q, x>>[2] = x
      OBVIOUS
    <3>2. ASSUME NEW i \in 1 .. n
          PROVE  (f[i][1] <=> code[i] = "ERR_OK") /\ f[i][2] = code[i]
      <4> DEFINE p == code[i] = "ERR_OK"
      <4>1. p \in BOOLEAN /\ f[i] = <<p, code[i]>>
        BY <2>3
      <4> HIDE DEF p
      <4>2. f[i][1] = p /\ f[i][2] = code[i]
        BY <3>1, <4>1
      <4>3. QED
        BY <4>2 DEF p
    <3>3. QED
      BY <3>2
  <2>5. Failed(f) = {n}
    BY <2>1, <2>2, <2>3, <2>4 DEF Failed
  <2>6. (CHOOSE i \in {n} : \A j \in {n} : i <= j) = n
    BY <1>1
  <2>7. First(f, "ERR_OK") = f[n][2]
    BY <2>5, <2>6 DEF First, CodeOf
  <2>8. QED
    BY <1>2, <1>7, <2>1, <2>2, <2>4, <2>7
<1>8. QED
  BY <1>6, <1>7

(* What the commands that only read answer on a ring that has lost part.    *)
LEMMA ReadersLost ==
  ASSUME NEW ring, NEW a \in Names_, NEW certs \in Seq(Names_), Readable(certs),
         Exists(ring), cmdSigRead(ring).code = "ERR_OK",
         Body(Front_(ring), certs), Accepts(ring, a) = "ERR_OK"
  PROVE  /\ cvrVal(ring, a) = cvrPrint(ring).code
         /\ \A c : IF cvrFind(ring, c) = "ERR_OK" THEN \E i \in DOMAIN certs : certs[i] = c
                   ELSE cvrFind(ring, c) = IF cvrPrint(ring).code = "ERR_OK" THEN "ERR_NOT_FOUND"
                                           ELSE cvrPrint(ring).code
         /\ \A i \in Nat : cvrExtr(ring, i).code = "ERR_OK" =>
              \E c \in Names_ : /\ \E j \in DOMAIN certs : certs[j] = c
                                /\ cvrExtr(ring, i).cert = CertItem(c)
<1> DEFINE items == Front_(ring)
           torn == IF WalkEnds(items) THEN "ERR_OK" ELSE "ERR_BAD_CERTRING"
<1>1. cvrPrint(ring).code = torn
  BY DEF cvrPrint, cmdCVCsCount
<1>2. cvrVal(ring, a) = torn
  BY ValEnds, CheckBody
<1>3. DOMAIN certs = 1 .. Len(certs) /\ \A i \in 1 .. Len(certs) : certs[i] \in Names_
  OBVIOUS
<1>4. ASSUME NEW c
      PROVE  IF cvrFind(ring, c) = "ERR_OK" THEN \E i \in DOMAIN certs : certs[i] = c
             ELSE cvrFind(ring, c) = IF torn = "ERR_OK" THEN "ERR_NOT_FOUND" ELSE torn
  <2>1. cvrFind(ring, c) = cmdCVCsFind(items, CertItem(c)).code
    BY DEF cvrFind
  <2>2. cmdCVCsFind(items, CertItem(c)).code
          = IF \E i \in 1 .. Len(items) : items[i] = CertItem(c) THEN "ERR_OK"
            ELSE IF WalkEnds(items) THEN "ERR_NOT_FOUND" ELSE "ERR_BAD_CERTRING"
    BY FindIn
  <2>3. CASE \E i \in 1 .. Len(items) : items[i] = CertItem(c)
    <3>1. PICK i \in 1 .. Len(items) : items[i] = CertItem(c)
      BY <2>3
    <3>2. \E j \in 1 .. Len(certs) : items[i].cert = certs[j]
      BY <3>1, BodyParts, ItemKinds
    <3>3. \E j \in 1 .. Len(certs) : certs[j] = c
      BY <3>1, <3>2, ItemKinds
    <3>4. QED
      BY <1>3, <2>1, <2>2, <2>3, <3>3
  <2>4. CASE ~ \E i \in 1 .. Len(items) : items[i] = CertItem(c)
    BY <2>1, <2>2, <2>4
  <2>5. QED
    BY <2>3, <2>4
<1>5. ASSUME NEW i \in Nat, cvrExtr(ring, i).code = "ERR_OK"
      PROVE  \E c \in Names_ : /\ \E j \in DOMAIN certs : certs[j] = c
                               /\ cvrExtr(ring, i).cert = CertItem(c)
  <2>1. cvrExtr(ring, i) = cmdCVCsGet(items, i)
    BY DEF cvrExtr
  <2> HIDE DEF items
  <2>2. i + 1 \in Walked(items) /\ cvrExtr(ring, i).cert = items[i + 1]
    BY <1>5, <2>1 DEF cmdCVCsGet
  <2>3. i + 1 \in 1 .. Len(items) /\ items[i + 1] # Torn
    BY <2>2, BodyParts DEF items
  <2>4. items[i + 1] = CertItem(items[i + 1].cert)
        /\ \E j \in 1 .. Len(certs) : items[i + 1].cert = certs[j]
    BY <2>3, BodyParts DEF items
  <2>5. QED
    BY <1>3, <2>2, <2>4
<1>6. QED
  BY <1>1, <1>2, <1>4, <1>5

(* What the commands that only read answer on such a ring.                  *)
LEMMA ReadersOk ==
  ASSUME NEW ring, NEW a \in Names_, NEW certs \in Seq(Names_), Readable(certs),
         Exists(ring), cmdSigRead(ring).code = "ERR_OK",
         cmdSigRead(ring).sig.certs = Items(<<a>>), Front_(ring) = Items(certs),
         Len(ring) = Len(certs) + 1, Accepts(ring, a) = "ERR_OK"
  PROVE  /\ cvrVal(ring, a) = "ERR_OK"
         /\ \A c : cvrFind(ring, c) = IF \E i \in DOMAIN certs : certs[i] = c
                                      THEN "ERR_OK" ELSE "ERR_NOT_FOUND"
         /\ \A i \in 0 .. Len(certs) - 1 :
              cvrExtr(ring, i) = [code |-> "ERR_OK", cert |-> CertItem(certs[i + 1])]
         /\ cvrExtr(ring, Len(certs)).code = "ERR_OUTOFRANGE"
         /\ cvrPrint(ring) = [code |-> "ERR_OK", count |-> Len(certs)]
         /\ cmdSigExtr(ring, "cert", 0) = [code |-> "ERR_OK", items |-> <<CertItem(a)>>]
         /\ Len(certs) > 0 => cmdSigExtr(ring, "body", 0).items = Items(certs)
<1>0. Len(certs) \in Nat /\ DOMAIN certs = 1 .. Len(certs)
  OBVIOUS
<1>1. cvrVal(ring, a) = "ERR_OK"
  <2> DEFINE acc == Accepts(ring, a)
             p == acc = "ERR_OK"
             f == <<<<p, acc>>>>
             end == cmdCVCsCheck(Front_(ring))
  <2>1. cvrVal(ring, a) = First(f, end)
    BY DEF cvrVal
  <2>2. end = "ERR_OK"
    BY CheckAll
  <2>3. Len(f) = 1 /\ f[1][1] = p /\ f[1][2] = acc /\ p
    OBVIOUS
  <2> HIDE DEF f, end, acc
  <2>4. f[1][1]
    BY <2>3
  <2> HIDE DEF p
  <2>5. First(f, end) = "ERR_OK" <=> f[1][1] /\ end = "ERR_OK"
    BY <2>3, <2>4, First1
  <2>6. QED
    BY <2>1, <2>2, <2>4, <2>5
<1>2. ASSUME NEW c
      PROVE  cvrFind(ring, c) = IF \E i \in DOMAIN certs : certs[i] = c
                                THEN "ERR_OK" ELSE "ERR_NOT_FOUND"
  <2>1. cvrFind(ring, c) = cmdCVCsFind(Items(certs), CertItem(c)).code
    BY DEF cvrFind
  <2>2. QED
    BY <1>0, <2>1, FindOne
<1>3. Walked(Items(certs)) = 1 .. Len(certs) /\ WalkEnds(Items(certs))
      /\ \A i \in 1 .. Len(certs) : Items(certs)[i] = CertItem(certs[i])
  BY ItemsOf
<1>4. \A i : cvrExtr(ring, i) = cmdCVCsGet(Items(certs), i)
  BY DEF cvrExtr
<1>5. ASSUME NEW i \in 0 .. Len(certs) - 1
      PROVE  cvrExtr(ring, i) = [code |-> "ERR_OK", cert |-> CertItem(certs[i + 1])]
  <2>1. i + 1 \in 1 .. Len(certs)
    BY <1>0
  <2>2. QED
    BY <1>3, <1>4, <2>1 DEF cmdCVCsGet
<1>6. cvrExtr(ring, Len(certs)).code = "ERR_OUTOFRANGE"
  <2>1. Len(certs) + 1 \notin 1 .. Len(certs)
    BY <1>0
  <2>2. QED
    BY <1>3, <1>4, <2>1 DEF cmdCVCsGet
<1>7. cvrPrint(ring) = [code |-> "ERR_OK", count |-> Len(certs)]
  <2>1. Cardinality(1 .. Len(certs)) = Len(certs)
    <3> DEFINE n == Len(certs)
    <3>1. n \in Nat
      BY <1>0
    <3> HIDE DEF n
    <3>2. Cardinality(1 .. n) = n
      BY <3>1, FS_Interval
    <3>3. QED
      BY <3>2 DEF n
  <2>2. cvrPrint(ring) = cmdCVCsCount(Items(certs))
    BY DEF cvrPrint
  <2>3. QED
    BY <1>3, <2>1, <2>2 DEF cmdCVCsCount
<1>8. cmdSigExtr(ring, "cert", 0) = [code |-> "ERR_OK", items |-> <<CertItem(a)>>]
  BY ChainRead
<1>9. ASSUME Len(certs) > 0
      PROVE  cmdSigExtr(ring, "body", 0).items = Items(certs)
  <2>1. Len(ring) # 1
    BY <1>0, <1>9
  <2>2. QED
    BY <2>1 DEF cmdSigExtr
<1>10. QED
  BY <1>1, <1>2, <1>5, <1>6, <1>7, <1>8, <1>9

(* The commands that only read find in a ring what its holder has signed,  *)
(* and the answers of find, extr, print and val agree (cvr.c); where an    *)
(* fclose failed unheard they give nothing that was not asked for and are  *)
(* of one mind about a torn end.                                           *)
THEOREM ReadersAgreeCorrect == Spec => []ReadersAgree
<1>1. ASSUME RingInv
      PROVE  ReadersAgree
  <2>1. GoodList(meant.certs) /\ RingSigned
    BY <1>1 DEF RingInv
  <2>2. meant.certs \in Seq(Names_) /\ Readable(meant.certs)
    BY <2>1 DEF GoodList
  <2> DEFINE ring == disk.ring
             a == meant.certa
             certs == meant.certs
  <2>3. CASE cmdSigRead(disk.ring).code = "ERR_OK"
    <3>1. EndsSigned(disk.ring)
      BY <2>3, ReadOk
    <3>2. /\ a \in Names_ /\ Kept(lost, Front_(ring), certs) /\ cmdSigRead(ring).code = "ERR_OK"
          /\ cmdSigRead(ring).sig.certs = Items(<<a>>)
          /\ Len(ring) = Len(Front_(ring)) + 1 /\ Exists(ring) /\ Accepts(ring, a) = "ERR_OK"
      BY <2>1, <3>1, RingIsMeant DEF EndsSigned
    <3>3. certs \in Seq(Names_) /\ Readable(certs) /\ Len(certs) \in Nat
      BY <2>2
    <3> HIDE DEF ring, a, certs
    <3>4. cmdSigExtr(ring, "cert", 0) = [code |-> "ERR_OK", items |-> <<CertItem(a)>>]
      BY <3>2, ChainRead
    <3>5. CASE lost
      <4>1. /\ cvrVal(ring, a) = cvrPrint(ring).code
            /\ \A c : IF cvrFind(ring, c) = "ERR_OK" THEN \E i \in DOMAIN certs : certs[i] = c
                      ELSE cvrFind(ring, c) = IF cvrPrint(ring).code = "ERR_OK" THEN "ERR_NOT_FOUND"
                                              ELSE cvrPrint(ring).code
            /\ \A i \in Nat : cvrExtr(ring, i).code = "ERR_OK" =>
                 \E c \in Names_ : /\ \E j \in DOMAIN certs : certs[j] = c
                                   /\ cvrExtr(ring, i).cert = CertItem(c)
        BY <3>2, <3>3, ReadersLost DEF Kept
      <4>2. \A i \in 0 .. Len(certs) : i \in Nat
        BY <3>3
      <4>3. QED
        BY <2>3, <3>4, <3>5, <4>1, <4>2 DEF ReadersAgree, ring, a, certs
    <3>6. CASE ~ lost
      <4>1. Front_(ring) = Items(certs) /\ Len(ring) = Len(certs) + 1
        BY <3>2, <3>3, <3>6, ItemsOf DEF Kept
      <4>2. /\ cvrVal(ring, a) = "ERR_OK"
            /\ \A c : cvrFind(ring, c) = IF \E i \in DOMAIN certs : certs[i] = c
                                         THEN "ERR_OK" ELSE "ERR_NOT_FOUND"
            /\ \A i \in 0 .. Len(certs) - 1 :
                 cvrExtr(ring, i) = [code |-> "ERR_OK", cert |-> CertItem(certs[i + 1])]
            /\ cvrExtr(ring, Len(certs)).code = "ERR_OUTOFRANGE"
            /\ cvrPrint(ring) = [code |-> "ERR_OK", count |-> Len(certs)]
            /\ Len(certs) > 0 => cmdSigExtr(ring, "body", 0).items = Items(certs)
        BY <3>2, <3>3, <4>1, ReadersOk
      <4>3. QED
        BY <2>3, <3>4, <3>6, <4>2 DEF ReadersAgree, ring, a, certs
    <3>7. QED
      BY <3>5, <3>6
  <2>4. CASE cmdSigRead(disk.ring).code # "ERR_OK"
    <3>1. ASSUME NEW c \in Names_
          PROVE  cvrVal(disk.ring, c) # "ERR_OK"
      BY <2>4 DEF cvrVal
    <3>2. QED
      BY <2>4, <3>1 DEF ReadersAgree
  <2>5. QED
    BY <2>3, <2>4
<1>2. QED
  BY <1>1, RingInductive, PTL

-----------------------------------------------------------------------------
(* What follows of separate signatures.                                    *)

(* A separate signature is one.                                             *)
LEMMA DetEnds ==
  ASSUME NEW certs, NEW date, NEW key, NEW items
  PROVE  EndsSigned(DetOf(certs, date, key, items))
<1> DEFINE x == SigItem(SigOf(Items(certs), date, key, items))
<1>1. x.kind = "sig"
  BY DEF SigItem
<1>2. DetOf(certs, date, key, items) = <<x>>
  BY DEF DetOf
<1> HIDE DEF x
<1>3. <<x>> # <<>> /\ Last_(<<x>>) = x
  BY DEF Last_
<1>4. <<x>> # Absent
  <2>1. Absent[1].kind = "absent"
    BY DEF Absent
  <2>2. <<x>>[1].kind = "sig"
    BY <1>1
  <2>3. QED
    BY <2>1, <2>2
<1>5. QED
  BY <1>1, <1>2, <1>3, <1>4 DEF EndsSigned, Exists

(* Verifying with a key.                                                   *)
LEMMA VerifyOk1 ==
  ASSUME NEW certs \in Seq(Names_), NEW date, NEW key \in Keys, GoodChain(certs, date, key),
         NEW over_, Exists(over_), NEW file, NEW k \in Keys, NEW same
  PROVE  cmdSigVerify(file, DetOf(certs, date, key, over_), same, btokPubkeyCalc(k)) = "ERR_OK"
           <=> Exists(file) /\ Signed(file, same) = over_ /\ key = k
<1> DEFINE det == DetOf(certs, date, key, over_)
           s == SigOf(Items(certs), date, key, over_)
           pub == btokPubkeyCalc(k)
           val == cmdCVCsVal(Items(certs), date)
           u == Signer(Items(certs))
           none == Items(certs) = <<>>
           len == Len(det) = 1
           end == VerifyOn(s, pub, Signed(file, same))
           p1 == same \/ len
           p2 == val = "ERR_OK"
           p3 == none \/ u.code = "ERR_OK"
           p4 == none \/ u.cvc.pubkey = pub
           p5 == Exists(file)
           f == <<<<p1, "ERR_BAD_FORMAT">>, <<p2, val>>, <<p3, u.code>>,
                  <<p4, "ERR_BAD_PUBKEY">>, <<p5, "ERR_FILE_READ">>>>
<1>1. IsKey(key) /\ IsKey(k) /\ key[2] # "nobody"
  BY KeysKnown
<1>2. /\ cmdSigRead(det).code = "ERR_OK" /\ cmdSigRead(det).sig = s /\ len
  <2>1. Len(det) = 1 /\ Last_(det) = SigItem(s)
    BY DEF DetOf, Last_
  <2>2. EndsSigned(det)
    BY DetEnds
  <2> HIDE DEF det
  <2>3. QED
    BY <2>1, <2>2, SigReadBack
<1>3. s.certs = Items(certs) /\ s.date = date
  BY DEF SigOf
<1>4. cmdSigVerify(file, det, same, pub) = First(f, end)
  <2> HIDE DEF det, s, pub
  <2>1. QED
    BY <1>2, <1>3 DEF cmdSigVerify
<1>5. p1 /\ p2 /\ p3
  <2>1. p1 /\ p2
    BY <1>2 DEF GoodChain
  <2>2. CASE certs = <<>>
    BY <2>1, <2>2, ItemsOf
  <2>3. CASE certs # <<>>
    <3>1. u = Inside(certs[Len(certs)])
      BY <2>3, SignerLast
    <3>2. u.code = "ERR_OK"
      BY <2>3, <3>1 DEF GoodChain
    <3>3. QED
      BY <2>1, <3>2
  <2>4. QED
    BY <2>2, <2>3
<1>6. p4 <=> certs = <<>> \/ btokPubkeyCalc(key) = pub
  <2>1. none <=> certs = <<>>
    BY ItemsOf
  <2>2. CASE certs # <<>>
    <3>1. u.cvc.pubkey = KeyOf(certs[Len(certs)]) /\ KeyOf(certs[Len(certs)]) = btokPubkeyCalc(key)
      BY <2>2, SignerLast DEF GoodChain
    <3> HIDE DEF u, none, pub
    <3>2. QED
      BY <2>1, <2>2, <3>1
  <2>3. CASE certs = <<>>
    BY <2>1, <2>3
  <2>4. QED
    BY <2>2, <2>3
<1>7. pub = btokPubkeyCalc(key) <=> k = key
  BY <1>1 DEF btokPubkeyCalc, IsKey
<1>8. IsKey(pub)
  BY <1>1 DEF btokPubkeyCalc, IsKey
<1>9. btokPubkeyVal(btokPubkeyCalc(key)) = "ERR_OK"
  <2> DEFINE n == key[1]
             q == btokPubkeyCalc(key)
  <2>1. n \in Nat /\ n \in Lens /\ q[1] = 2 * n /\ q[2] = key[2]
    BY <1>1 DEF IsKey, GoodChain, btokPubkeyCalc
  <2>2. (2 * n) % 2 = 0 /\ (2 * n) \div 2 = n
    BY <2>1
  <2> HIDE DEF n, q
  <2>3. btokPubkeyVal(q) = "ERR_OK"
    BY <1>1, <2>1, <2>2, PubkeyOk
  <2>4. QED
    BY <2>3 DEF q
<1> DEFINE body == Signed(file, same)
<1>11. end = "ERR_OK" <=> btokPubkeyVal(pub) = "ERR_OK" /\ pub = btokPubkeyCalc(key) /\ body = over_
  <2> DEFINE t == Items(certs)
  <2> HIDE DEF pub, t, body
  <2>1. VerifyOn(SigOf(t, date, key, over_), pub, body) = "ERR_OK"
          <=> btokPubkeyVal(pub) = "ERR_OK" /\ pub = btokPubkeyCalc(key) /\ body = over_
    BY <1>1, <1>8, VerifyOnSig
  <2>2. end = VerifyOn(SigOf(t, date, key, over_), pub, body)
    BY DEF t, pub, body
  <2>3. QED
    BY <2>1, <2>2
<1>12. p1 \in BOOLEAN /\ p2 \in BOOLEAN /\ p3 \in BOOLEAN /\ p4 \in BOOLEAN /\ p5 \in BOOLEAN
  BY DEF Exists
<1> HIDE DEF len, p1, p2, p3, p4, p5, val, u, end, body
<1>13. First(f, end) = "ERR_OK" <=> p4 /\ p5 /\ end = "ERR_OK"
  <2>1. /\ Len(f) = 5 /\ (f[1][1] <=> p1) /\ (f[2][1] <=> p2) /\ (f[3][1] <=> p3)
        /\ (f[4][1] <=> p4) /\ (f[5][1] <=> p5)
        /\ f[4][2] = "ERR_BAD_PUBKEY" /\ f[5][2] = "ERR_FILE_READ"
    BY <1>12
  <2> HIDE DEF f
  <2>2. f[1][1] /\ f[2][1] /\ f[3][1] /\ (f[4][1] \/ f[4][2] # "ERR_OK")
        /\ (f[5][1] \/ f[5][2] # "ERR_OK")
    BY <1>2, <1>5, <2>1
  <2>3. First(f, end) = "ERR_OK"
          <=> f[1][1] /\ f[2][1] /\ f[3][1] /\ f[4][1] /\ f[5][1] /\ end = "ERR_OK"
    BY <2>1, <2>2, First5
  <2>4. QED
    BY <2>1, <2>2, <2>3
<1> HIDE DEF f, pub, det
<1>14. First(f, end) = "ERR_OK" <=> Exists(file) /\ body = over_ /\ key = k
  <2>1. ASSUME First(f, end) = "ERR_OK"
        PROVE  Exists(file) /\ body = over_ /\ key = k
    BY <1>7, <1>11, <1>13, <2>1 DEF p5
  <2>2. ASSUME Exists(file), body = over_, key = k
        PROVE  First(f, end) = "ERR_OK"
    <3>1. p4 /\ p5 /\ pub = btokPubkeyCalc(key)
      BY <1>6, <1>7, <2>2 DEF p5
    <3>2. QED
      BY <1>9, <1>11, <1>13, <2>2, <3>1
  <2>3. QED
    BY <2>1, <2>2
<1>15. QED
  BY <1>4, <1>14 DEF det, pub, body

(* A signature on its own is read back as it was made.                     *)
LEMMA DetRead ==
  ASSUME NEW certs \in Seq(Names_), NEW date, NEW key, GoodChain(certs, date, key),
         NEW items, NEW det, det = DetOf(certs, date, key, items)
  PROVE  /\ cmdSigRead(det).code = "ERR_OK" /\ Len(det) = 1
         /\ cmdSigRead(det).sig = SigOf(Items(certs), date, key, items)
<1>1. Len(det) = 1 /\ Last_(det) = SigItem(SigOf(Items(certs), date, key, items))
  BY DEF DetOf, Last_
<1>2. EndsSigned(det)
  BY DetEnds
<1>3. QED
  BY <1>1, <1>2, SigReadBack

(* Verifying with a certificate of the chain.                              *)
LEMMA VerifyOk2 ==
  ASSUME NEW certs \in Seq(Names_), NEW date, NEW key \in Keys, GoodChain(certs, date, key),
         NEW over_, Exists(over_), NEW file, NEW a, NEW same
  PROVE  cmdSigVerify2(file, DetOf(certs, date, key, over_), same, CertItem(a)) = "ERR_OK"
           <=> Exists(file) /\ Signed(file, same) = over_ /\ \E i \in 1 .. Len(certs) : Items(certs)[i] = CertItem(a)
<1> DEFINE det == DetOf(certs, date, key, over_)
           t == Items(certs)
           s == SigOf(t, date, key, over_)
           found == cmdCVCsFind(t, CertItem(a)).code
           chain == VerifyChain(s, cmdCVCsVal(t, date), Signer(t), file, same)
<1>1. cmdSigRead(det).code = "ERR_OK" /\ cmdSigRead(det).sig = s /\ Len(det) = 1
  BY DetRead
<1>2. s.certs = t /\ s.date = date
  BY DEF SigOf
<1>3. found = "ERR_OK" <=> \E i \in 1 .. Len(certs) : t[i] = CertItem(a)
  <2>1. \A i \in 1 .. Len(certs) : t[i] = CertItem(certs[i])
    BY ItemsOf
  <2>2. \A c : CertItem(c) = CertItem(a) <=> c = a
    BY DEF CertItem
  <2>3. found = "ERR_OK" <=> \E i \in 1 .. Len(certs) : certs[i] = a
    BY FindOne
  <2> HIDE DEF found, t
  <2>4. QED
    BY <2>1, <2>2, <2>3
<1>4. IsKey(key)
  BY KeysKnown
<1> HIDE DEF det, s
<1>5. cmdSigVerify2(file, det, same, CertItem(a)) = IF found # "ERR_OK" THEN found ELSE chain
  BY <1>1, <1>2 DEF cmdSigVerify2
<1>6. CASE certs = <<>>
  <2>1. Len(certs) = 0 /\ 1 .. 0 = {}
    BY <1>6
  <2> HIDE DEF found, chain
  <2>2. found # "ERR_OK"
    BY <1>3, <2>1
  <2>3. QED
    BY <1>3, <1>5, <2>2 DEF det, t
<1>7. CASE certs # <<>>
  <2>1. chain = "ERR_OK" <=> Exists(file) /\ Signed(file, same) = over_
    BY <1>4, <1>7, ChainOk DEF s
  <2> HIDE DEF found, chain
  <2>3. QED
    BY <1>3, <1>5, <2>1 DEF det, t
<1>8. QED
  BY <1>6, <1>7

(* A certificate that is validated with another was signed with its key,   *)
(* and is good on the date.                                                *)
LEMMA Val2Ok ==
  ASSUME NEW c \in Names_, NEW d \in Names_, NEW on,
         btokCVCVal2(Certs[c], Inside(d).cvc, on) = "ERR_OK"
  PROVE  /\ Inside(c).cvc.sig.by[2] = Inside(d).cvc.pubkey[2]
         /\ on # <<>> => Inside(c).cvc.from <= on[1] /\ on[1] <= Inside(c).cvc.until
<1> DEFINE k == KeyOf(d)
           u == btokCVCUnwrap(Certs[c], k)
           check == btokCVCCheck2(u.cvc, Inside(d).cvc)
           p == u.code = "ERR_OK"
           q == check = "ERR_OK"
           end == OnDate(u.cvc, on)
           f == <<<<p, u.code>>, <<q, check>>>>
<1>1. Inside(d).cvc.pubkey = k /\ IsKey(k) /\ Inside(c).cvc.sig = Certs[c].sig
  BY InsideOf
<1>2. k # None /\ k # Own
  BY <1>1, KeyIsKey
<1>3. First(f, end) = "ERR_OK"
  <2>1. btokCVCVal2(Certs[c], Inside(d).cvc, on) = ValidTo(btokCVCUnwrap(Certs[c], k), Inside(d).cvc, on)
    BY <1>1 DEF btokCVCVal2
  <2>2. QED
    BY <2>1 DEF ValidTo
<1>4. u.cvc = Inside(c).cvc
  <2>1. u.cvc = [btokCVCBodyDec(Certs[c].body).cvc EXCEPT !.sig = Certs[c].sig]
    BY Unwrapped
  <2>2. Inside(c).cvc = [btokCVCBodyDec(Certs[c].body).cvc EXCEPT !.sig = Certs[c].sig]
    BY Unwrapped DEF Inside
  <2>3. QED
    BY <2>1, <2>2
<1>5. u.code = "ERR_OK" => btokPubkeyCalc(Certs[c].sig.by) = k
  BY <1>2, Unwrapped
<1>6. p \in BOOLEAN /\ q \in BOOLEAN /\ (p \/ u.code # "ERR_OK") /\ (q \/ check # "ERR_OK")
  OBVIOUS
<1> HIDE DEF p, q, check, end, u
<1>7. p /\ end = "ERR_OK"
  <2>1. /\ Len(f) = 2 /\ (f[1][1] <=> p) /\ (f[2][1] <=> q)
        /\ f[1][2] = u.code /\ f[2][2] = check
    BY <1>6
  <2> HIDE DEF f
  <2>2. First(f, end) = "ERR_OK" <=> f[1][1] /\ f[2][1] /\ end = "ERR_OK"
    BY <1>6, <2>1, First2
  <2>3. QED
    BY <1>3, <2>1, <2>2
<1>8. Inside(c).cvc.sig.by[2] = Inside(d).cvc.pubkey[2]
  <2>1. btokPubkeyCalc(Certs[c].sig.by) = k
    BY <1>5, <1>7 DEF p
  <2>2. Certs[c].sig.by[2] = k[2]
    BY <2>1 DEF btokPubkeyCalc
  <2>3. QED
    BY <1>1, <2>2
<1>9. ASSUME on # <<>>
      PROVE  Inside(c).cvc.from <= on[1] /\ on[1] <= Inside(c).cvc.until
  <2> DEFINE x == tmDateIsValid2(on[1])
             y == tmDateLeq2(u.cvc.from, on[1]) /\ tmDateLeq2(on[1], u.cvc.until)
             g == <<<<on = <<>> \/ x, "ERR_BAD_DATE">>, <<on = <<>> \/ y, "ERR_OUTOFRANGE">>>>
             v == on = <<>> \/ x
             w == on = <<>> \/ y
  <2>1. end = First(g, "ERR_OK")
    BY DEF OnDate, end
  <2>2. v \in BOOLEAN /\ w \in BOOLEAN /\ g = <<<<v, "ERR_BAD_DATE">>, <<w, "ERR_OUTOFRANGE">>>>
    BY DEF tmDateIsValid2, tmDateLeq2
  <2> HIDE DEF g, v, w
  <2>3. First(g, "ERR_OK") = "ERR_OK" => w
    <3>1. /\ Len(g) = 2 /\ (g[1][1] <=> v) /\ (g[2][1] <=> w)
          /\ g[1][2] = "ERR_BAD_DATE" /\ g[2][2] = "ERR_OUTOFRANGE"
      BY <2>2
    <3>2. First(g, "ERR_OK") = "ERR_OK" <=> g[1][1] /\ g[2][1] /\ "ERR_OK" = "ERR_OK"
      BY <3>1, First2
    <3>3. QED
      BY <3>1, <3>2
  <2>4. y
    BY <1>7, <1>9, <2>1, <2>3, SMTT(40) DEF w
  <2>5. QED
    BY <1>4, <2>4 DEF tmDateLeq2
<1>10. QED
  BY <1>8, <1>9

(* A separate signature is accepted just as long as the ring is what it    *)
(* was made over, and its chain is one (sig.c, cmd_sig.c).                 *)
THEOREM SignatureOfThisCorrect == Spec => []SignatureOfThis
<1>1. ASSUME RingInv
      PROVE  SignatureOfThis
  <2> SUFFICES ASSUME cmdSigRead(disk.det).code = "ERR_OK" PROVE SignatureOfThis
    BY DEF SignatureOfThis
  <2>1. EndsSigned(disk.det) /\ DetSigned
    BY <1>1, ReadOk DEF RingInv
  <2> PICK certs \in Chain, key \in Keys : \E date :
         /\ GoodChain(certs, date, key) /\ Exists(over)
         /\ disk.det = DetOf(certs, date, key, over)
    BY <2>1 DEF DetSigned
  <2>2. PICK date :
           /\ GoodChain(certs, date, key) /\ Exists(over)
           /\ disk.det = DetOf(certs, date, key, over)
    OBVIOUS
  <2>3. certs \in Seq(Names_)
    BY RingAssumption
  <2> DEFINE s == cmdSigRead(disk.det).sig
             t == Items(certs)
             cvc(i) == btokCVCUnwrap(Certs[s.certs[i].cert], None).cvc
             same == over = disk.ring /\ over # Absent
  <2>4. s = SigOf(t, date, key, over)
    BY <2>2, <2>3, DetRead
  <2>5. s.certs = t /\ s.date = date /\ s.sig.by = key
    BY <2>4 DEF SigOf, Sig
  <2>6. same <=> over = disk.ring
    BY <2>2 DEF Exists
  <2>7. ASSUME NEW h \in Holder
        PROVE  (cmdSigVerify(disk.ring, disk.det, FALSE, btokPubkeyCalc(h.key)) = "ERR_OK")
                 <=> (same /\ s.sig.by = h.key)
    <3>1. h.key \in Keys
      BY DEF Keys
    <3>2. (cmdSigVerify(disk.ring, disk.det, FALSE, btokPubkeyCalc(h.key)) = "ERR_OK")
            <=> (over = disk.ring /\ key = h.key)
      <4> DEFINE k == h.key
                 o == over
                 r == disk.ring
                 apart == FALSE
      <4>1. k \in Keys /\ Exists(o) /\ disk.det = DetOf(certs, date, key, o)
        BY <2>2, <3>1
      <4> HIDE DEF k, o, r, apart
      <4>2. cmdSigVerify(r, DetOf(certs, date, key, o), apart, btokPubkeyCalc(k)) = "ERR_OK"
              <=> Exists(r) /\ Signed(r, apart) = o /\ key = k
        BY <2>2, <2>3, <4>1, VerifyOk1
      <4>3. Signed(r, apart) = r
        BY DEF Signed, apart
      <4>4. QED
        BY <4>1, <4>2, <4>3 DEF k, o, r, apart
    <3> HIDE DEF s, same
    <3>3. QED
      BY <2>5, <2>6, <3>2
  <2>8. ASSUME NEW a \in Names_
        PROVE  (cmdSigVerify2(disk.ring, disk.det, FALSE, CertItem(a)) = "ERR_OK")
                 <=> (same /\ \E i \in DOMAIN s.certs : s.certs[i] = CertItem(a))
    <3>1. (cmdSigVerify2(disk.ring, disk.det, FALSE, CertItem(a)) = "ERR_OK")
            <=> over = disk.ring /\ \E i \in 1 .. Len(certs) : t[i] = CertItem(a)
      <4> DEFINE o == over
                 r == disk.ring
                 apart == FALSE
      <4>1. Exists(o) /\ disk.det = DetOf(certs, date, key, o)
        BY <2>2
      <4> HIDE DEF o, r, t, apart
      <4>2. cmdSigVerify2(r, DetOf(certs, date, key, o), apart, CertItem(a)) = "ERR_OK"
              <=> Exists(r) /\ Signed(r, apart) = o /\ \E i \in 1 .. Len(certs) : Items(certs)[i] = CertItem(a)
        BY <2>2, <2>3, <4>1, VerifyOk2
      <4>3. Signed(r, apart) = r
        BY DEF Signed, apart
      <4>4. QED
        BY <4>1, <4>2, <4>3 DEF o, r, t, apart
    <3>2. DOMAIN t = 1 .. Len(certs)
      BY <2>3, ItemsOf
    <3> HIDE DEF s, same, t
    <3>3. QED
      BY <2>5, <2>6, <3>1, <3>2
  <2>9. /\ Len(t) = Len(certs)
        /\ \A i \in 1 .. Len(certs) : /\ certs[i] \in Names_ /\ cvc(i) = Inside(certs[i]).cvc
                                      /\ ValCode(certs, date, i) = "ERR_OK"
    <3>1. \A i \in 1 .. Len(certs) : ValCode(certs, date, i) = "ERR_OK"
      BY <2>2, <2>3, ValAll DEF GoodChain
    <3>2. Len(t) = Len(certs) /\ \A i \in 1 .. Len(certs) : t[i].cert = certs[i]
      BY <2>3, ItemsOf
    <3>3. ASSUME NEW i \in 1 .. Len(certs)
          PROVE  certs[i] \in Names_ /\ cvc(i) = Inside(certs[i]).cvc
      BY <2>3, <2>5, <3>2 DEF Inside
    <3>4. QED
      BY <3>1, <3>2, <3>3
  <2> HIDE DEF cvc, s, t
  <2>10. ASSUME NEW i \in 2 .. Len(certs)
         PROVE  /\ cvc(i).sig.by[2] = cvc(i - 1).pubkey[2]
                /\ i = Len(certs) /\ date # NoDate => cvc(i).from <= date /\ date <= cvc(i).until
    <3>1. i \in 1 .. Len(certs) /\ i - 1 \in 1 .. Len(certs) /\ i # 1
      BY <2>3
    <3>2. btokCVCVal2(Certs[certs[i]], Inside(certs[i - 1]).cvc, OnDay(certs, date, i)) = "ERR_OK"
      BY <2>9, <3>1 DEF ValCode
    <3> DEFINE on == OnDay(certs, date, i)
               c == certs[i]
               d == certs[i - 1]
    <3>3. c \in Names_ /\ d \in Names_ /\ cvc(i) = Inside(c).cvc /\ cvc(i - 1) = Inside(d).cvc
      BY <2>9, <3>1
    <3>4. i = Len(certs) /\ date # NoDate => on # <<>> /\ on[1] = date
      BY DEF OnDay
    <3>5. btokCVCVal2(Certs[c], Inside(d).cvc, on) = "ERR_OK"
      BY <3>2
    <3> HIDE DEF on, c, d
    <3>6. /\ Inside(c).cvc.sig.by[2] = Inside(d).cvc.pubkey[2]
          /\ on # <<>> => Inside(c).cvc.from <= on[1] /\ on[1] <= Inside(c).cvc.until
      BY <3>3, <3>5, Val2Ok
    <3>7. QED
      BY <3>3, <3>4, <3>6
  <2>11. Len(s.certs) = Len(certs)
    BY <2>5, <2>9
  <2>12. \A i \in 2 .. Len(s.certs) : cvc(i).sig.by[2] = cvc(i - 1).pubkey[2]
    BY <2>10, <2>11
  <2>13. (Len(s.certs) > 1 /\ s.date # NoDate) =>
             (cvc(Len(s.certs)).from <= s.date /\ s.date <= cvc(Len(s.certs)).until)
    <3>1. Len(certs) \in Nat
      BY <2>3
    <3>2. Len(certs) > 1 => Len(certs) \in 2 .. Len(certs)
      BY <3>1
    <3>3. QED
      BY <2>5, <2>10, <2>11, <3>2
  <2>14. QED
    BY <2>7, <2>8, <2>12, <2>13, ZenonT(60) DEF SignatureOfThis, s, cvc
<1>2. QED
  BY <1>1, RingInductive, PTL
===============================================================================
