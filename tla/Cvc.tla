--------------------------------- MODULE Cvc ---------------------------------
(***************************************************************************)
(* Card-verifiable certificates, src/src/crypto/btok/btok_cvc.c.  Keys are *)
(* pairs <<length, owner>>, the public one twice as long; a signature is   *)
(* what was signed with which key.  A certificate is the list of its       *)
(* fields with their tags, and trail says that octets follow it.           *)
(***************************************************************************)
EXTENDS Naturals, Sequences

Lens == {24, 32, 48, 64}
Names == {"BYCA0000", "BYCA1000", "590082394654"}          \* 8 to 12 characters
Days == 1 .. 6                                             \* 0 is not a date
NoHat == "0"
SigLen(privlen) == IF privlen = 24 THEN 34 ELSE privlen + (privlen \div 2)
Sig(privkey, body) == [len |-> SigLen(privkey[1]), by |-> privkey, over |-> body]
Blank == [authority |-> "", holder |-> "", from |-> 0, until |-> 0,
          hat_eid |-> NoHat, hat_esign |-> NoHat, pubkey |-> <<0, "">>, sig |-> <<>>]
Failed(checks) == {i \in 1 .. Len(checks) : ~checks[i][1]}
CodeOf(checks, failed, end) ==
  IF failed = {} THEN end ELSE checks[CHOOSE i \in failed : \A j \in failed : i <= j][2]
First(checks, end) == CodeOf(checks, Failed(checks), end)

btokPubkeyCalc(privkey) == <<2 * privkey[1], privkey[2]>>
btokPubkeyVal(pubkey) ==
  First(<<<<pubkey[1] % 2 = 0 /\ pubkey[1] \div 2 \in Lens, "ERR_BAD_INPUT">>,
          <<pubkey[2] # "nobody", "ERR_BAD_PUBKEY">>>>, "ERR_OK")
btokKeypairVal(privkey, pubkey) ==
  First(<<<<pubkey[1] = 2 * privkey[1], "ERR_BAD_KEYPAIR">>, <<privkey[1] \in Lens, "ERR_BAD_INPUT">>,
          <<pubkey[2] = privkey[2], "ERR_BAD_PUBKEY">>>>, "ERR_OK")
btokSign(body, privkey) == Sig(privkey, body)
btokVerify(body, sig, pubkey) ==
  First(<<<<btokPubkeyVal(pubkey) = "ERR_OK", btokPubkeyVal(pubkey)>>,
          <<btokPubkeyCalc(sig.by) = pubkey /\ sig.over = body, "ERR_BAD_SIG">>>>, "ERR_OK")

btokCVCNameIsValid(name) == name \in Names
tmDateIsValid2(date) == date \in Days
tmDateLeq2(left, right) == left <= right
DatesValid(cvc) ==
  tmDateIsValid2(cvc.from) /\ tmDateIsValid2(cvc.until) /\ tmDateLeq2(cvc.from, cvc.until)
btokCVCSeemsValid(cvc) ==
  /\ btokCVCNameIsValid(cvc.authority) /\ btokCVCNameIsValid(cvc.holder)
  /\ DatesValid(cvc) /\ cvc.pubkey[1] \in {2 * l : l \in Lens}
btokCVCCheck(cvc) ==
  First(<<<<btokCVCNameIsValid(cvc.authority) /\ btokCVCNameIsValid(cvc.holder), "ERR_BAD_NAME">>,
          <<DatesValid(cvc), "ERR_BAD_DATE">>>>, btokPubkeyVal(cvc.pubkey))
btokCVCCheck2(cvc, cvca) ==
  First(<<<<btokCVCCheck(cvc) = "ERR_OK", btokCVCCheck(cvc)>>,
          <<cvc.authority = cvca.holder, "ERR_BAD_NAME">>,
          <</\ tmDateIsValid2(cvca.from) /\ tmDateIsValid2(cvca.until)
            /\ tmDateLeq2(cvca.from, cvc.from) /\ tmDateLeq2(cvc.from, cvca.until), "ERR_BAD_DATE">>>>,
        "ERR_OK")

-----------------------------------------------------------------------------
(* The body.  Access rights that are zero are left out, and are zero when  *)
(* they are not there.                                                     *)
Optional(tag, hat) == IF hat = NoHat THEN <<>> ELSE <<<<tag, hat>>>>
btokCVCBodyEnc(cvc) ==
  <<<<"42", cvc.authority>>, <<"7F49", cvc.pubkey>>, <<"5F20", cvc.holder>>>>
  \o Optional("7F4C", cvc.hat_eid) \o <<<<"5F25", cvc.from>>, <<"5F24", cvc.until>>>>
  \o Optional("65", cvc.hat_esign)
StartsWith(fields, tag) == fields # <<>> /\ fields[1][1] = tag
(* A field is taken off when it has the tag; otherwise nothing is right    *)
(* from there on.                                                          *)
Take(s, tag, Put(_, _)) ==
  IF s.ok /\ StartsWith(s.rest, tag)
  THEN [s EXCEPT !.rest = Tail(@), !.cvc = Put(@, s.rest[1][2])] ELSE [s EXCEPT !.ok = FALSE]
TakeIf(s, tag, Put(_, _)) ==
  IF s.ok /\ StartsWith(s.rest, tag) THEN Take(s, tag, Put) ELSE s
TakeNames(s0) ==
  LET s1 == Take(s0, "42", LAMBDA c, v : [c EXCEPT !.authority = v])
      s2 == Take(s1, "7F49", LAMBDA c, v : [c EXCEPT !.pubkey = v])
  IN Take(s2, "5F20", LAMBDA c, v : [c EXCEPT !.holder = v])
TakeRights(s3) ==
  LET s4 == TakeIf(s3, "7F4C", LAMBDA c, v : [c EXCEPT !.hat_eid = v])
      s5 == Take(s4, "5F25", LAMBDA c, v : [c EXCEPT !.from = v])
      s6 == Take(s5, "5F24", LAMBDA c, v : [c EXCEPT !.until = v])
  IN TakeIf(s6, "65", LAMBDA c, v : [c EXCEPT !.hat_esign = v])
Taken(s) == [ok |-> s.ok /\ s.rest = <<>> /\ s.cvc.pubkey[1] \in {2 * l : l \in Lens}, cvc |-> s.cvc]
btokCVCBodyDec(body) == Taken(TakeRights(TakeNames([ok |-> TRUE, rest |-> body, cvc |-> Blank])))

(* A certificate without a public key gets that of the signing key.        *)
btokCVCWrap(cvc, privkey) ==
  LET own == IF cvc.pubkey[1] = 0 THEN [cvc EXCEPT !.pubkey = btokPubkeyCalc(privkey)] ELSE cvc
      body == btokCVCBodyEnc(own)
      code == First(<<<<privkey[1] \in Lens, "ERR_BAD_INPUT">>>>, btokCVCCheck(own))
      sig == btokSign(body, privkey)
  IN IF code # "ERR_OK" THEN [code |-> code, cert |-> <<>>, cvc |-> own]
     ELSE [code |-> code, cert |-> [body |-> body, sig |-> sig, trail |-> FALSE],
           cvc |-> [own EXCEPT !.sig = sig]]

(* key is what the signature is verified with: a key, None, or Own for the *)
(* key of the certificate itself.                                          *)
None == <<>>
Own == <<"own">>
Verified(cert, key, d) ==
  LET pubkey == IF key = Own THEN d.cvc.pubkey ELSE key
      lens == IF pubkey = None THEN {SigLen(l) : l \in Lens} ELSE {SigLen(pubkey[1] \div 2)}
      verified == IF pubkey = None THEN "ERR_OK" ELSE btokVerify(cert.body, cert.sig, pubkey)
      cvc == [d.cvc EXCEPT !.sig = cert.sig]
  IN [cvc |-> cvc,
      code |-> First(<<<<d.ok, "ERR_BAD_FORMAT">>, <<cert.sig.len \in lens, "ERR_BAD_FORMAT">>,
                       <<verified = "ERR_OK", verified>>, <<~cert.trail, "ERR_BAD_FORMAT">>>>,
                     btokCVCCheck(cvc))]
btokCVCUnwrap(cert, key) == Verified(cert, key, btokCVCBodyDec(cert.body))

IssuedBy(cvc, a, privkeya) ==
  LET w == btokCVCWrap(cvc, privkeya)
      code == First(<<<<a.code = "ERR_OK", a.code>>,
                      <<btokCVCCheck2(cvc, a.cvc) = "ERR_OK", btokCVCCheck2(cvc, a.cvc)>>,
                      <<btokKeypairVal(privkeya, a.cvc.pubkey) = "ERR_OK",
                        btokKeypairVal(privkeya, a.cvc.pubkey)>>>>, w.code)
  IN [code |-> code, cert |-> IF code = "ERR_OK" THEN w.cert ELSE <<>>]
btokCVCIss(cvc, certa, privkeya) == IssuedBy(cvc, btokCVCUnwrap(certa, None), privkeya)

OnDate(cvc, date) ==
  First(<<<<date = <<>> \/ tmDateIsValid2(date[1]), "ERR_BAD_DATE">>,
          <<date = <<>> \/ (tmDateLeq2(cvc.from, date[1]) /\ tmDateLeq2(date[1], cvc.until)),
            "ERR_OUTOFRANGE">>>>, "ERR_OK")
ValidTo(u, cvca, date) ==
  First(<<<<u.code = "ERR_OK", u.code>>,
          <<btokCVCCheck2(u.cvc, cvca) = "ERR_OK", btokCVCCheck2(u.cvc, cvca)>>>>,
        OnDate(u.cvc, date))
btokCVCVal2(cert, cvca, date) == ValidTo(btokCVCUnwrap(cert, cvca.pubkey), cvca, date)
btokCVCVal(cert, certa, date) ==
  LET a == btokCVCUnwrap(certa, None)
  IN IF a.code # "ERR_OK" THEN a.code ELSE btokCVCVal2(cert, a.cvc, date)
btokCVCMatch(cert, privkey) ==
  LET u == btokCVCUnwrap(cert, None)
  IN IF u.code # "ERR_OK" THEN u.code ELSE btokKeypairVal(privkey, u.cvc.pubkey)
=============================================================================
