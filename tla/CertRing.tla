------------------------------ MODULE CertRing ------------------------------
(***************************************************************************)
(* Collections of certificates and signatures of files, cmd_cvc.c and      *)
(* cmd_sig.c of src/cmd/core.  The octets of a file are a sequence of      *)
(* items: whole certificates (by name, Certs gives what is inside), whole  *)
(* signatures, and what was left of an item whose writing broke off.  The  *)
(* DER code of a signature is reversed in the file, so it is found from    *)
(* the end; what ends with another item is not read as a signature.        *)
(***************************************************************************)
EXTENDS Cvc, FiniteSets

CONSTANT Certs                       \* from names to certificates of Cvc

Names_ == DOMAIN Certs
CertItem(c) == [kind |-> "cert", cert |-> c]
SigItem(s) == [kind |-> "sig", sig |-> s]
Torn == [kind |-> "torn"]
Absent == <<[kind |-> "absent"]>>    \* instead of items: there is no file
Exists(file) == file # Absent
Items(certs) == [i \in DOMAIN certs |-> CertItem(certs[i])]
Front_(s) == SubSeq(s, 1, Len(s) - 1)
Last_(s) == s[Len(s)]
NoDate == 0

-----------------------------------------------------------------------------
(* Collections.  A walk ends where btokCVCLen finds no certificate.        *)
Walked(items) == {i \in DOMAIN items : \A j \in 1 .. i : items[j].kind = "cert"}
WalkEnds(items) == Walked(items) = DOMAIN items
cmdCVCsCount(items) == [code |-> IF WalkEnds(items) THEN "ERR_OK" ELSE "ERR_BAD_CERTRING",
                        count |-> Cardinality(Walked(items))]
cmdCVCsGet(items, num) ==
  IF num + 1 \in Walked(items) THEN [code |-> "ERR_OK", cert |-> items[num + 1]]
  ELSE [code |-> IF WalkEnds(items) THEN "ERR_OUTOFRANGE" ELSE "ERR_BAD_CERTRING", cert |-> Torn]
cmdCVCsGetLast(items) ==
  IF items = <<>> \/ ~WalkEnds(items)
  THEN [code |-> IF items = <<>> THEN "ERR_OUTOFRANGE" ELSE "ERR_BAD_CERTRING", cert |-> Torn]
  ELSE [code |-> "ERR_OK", cert |-> Last_(items)]
(* offset is that of the first of the certificates that are equal to cert. *)
cmdCVCsFind(items, cert) ==
  LET found == {i \in Walked(items) : items[i] = cert}
  IN IF found # {} THEN [code |-> "ERR_OK", offset |-> CHOOSE i \in found : \A j \in found : i <= j]
     ELSE [code |-> IF WalkEnds(items) THEN "ERR_NOT_FOUND" ELSE "ERR_BAD_CERTRING", offset |-> 0]
cmdCVCsCheck(items) ==
  LET code(i) == IF items[i].kind # "cert" THEN "ERR_BAD_CERTRING"
                 ELSE btokCVCUnwrap(Certs[items[i].cert], None).code
  IN First([i \in DOMAIN items |-> <<code(i) = "ERR_OK", code(i)>>], "ERR_OK")
(* The first certificate is only unwrapped; each other one is verified     *)
(* with the one before it, and only the last of them is held to the date.  *)
cmdCVCsVal(items, date) ==
  LET of(i) == btokCVCUnwrap(Certs[items[i].cert], None)
      on(i) == IF i = Len(items) /\ date # NoDate THEN <<date>> ELSE <<>>
      code(i) == CASE items[i].kind # "cert" -> "ERR_BAD_CERT"
                   [] i = 1 -> of(1).code
                   [] OTHER -> btokCVCVal2(Certs[items[i].cert], of(i - 1).cvc, on(i))
  IN First([i \in DOMAIN items |-> <<code(i) = "ERR_OK", code(i)>>], "ERR_OK")

-----------------------------------------------------------------------------
(* Faulty variant: Only the first block of the file is hashed.             *)
cmdSigHash_variant(len, items, certs, date) == [len |-> len, items |-> SubSeq(items, 1, IF items = <<>> THEN 0 ELSE 1), certs |-> certs, date |-> date]
(* A signature keeps the certificates of the signer's chain and the date.  *)
(* What is signed is the content of the file, the chain and the date.      *)
cmdSigHash(len, items, certs, date) == [len |-> len, items |-> items, certs |-> certs, date |-> date]
cmdSigSeemsValid(s) == WalkEnds(s.certs) /\ (s.date = NoDate \/ tmDateIsValid2(s.date))
cmdSigRead(file) ==
  IF Exists(file) /\ file # <<>> /\ Last_(file).kind = "sig"
  THEN [code |-> IF cmdSigSeemsValid(Last_(file).sig) THEN "ERR_OK" ELSE "ERR_BAD_SIG",
        sig |-> Last_(file).sig]
  ELSE [code |-> IF Exists(file) THEN "ERR_BAD_SIG" ELSE "ERR_FILE_READ", sig |-> <<>>]

(* What is in the last certificate of a chain.                             *)
Signer(certs) ==
  LET last == cmdCVCsGetLast(certs)
  IN IF last.code # "ERR_OK" THEN [code |-> last.code, cvc |-> Blank]
     ELSE btokCVCUnwrap(Certs[last.cert.cert], None)
(* What cmdSigSign makes before it writes: the chain is validated and its  *)
(* last certificate is matched with the key.                               *)
SigOf(certs, date, privkey, file) ==
  [certs |-> certs, date |-> date,
   sig |-> Sig(privkey, cmdSigHash(privkey[1], file, certs, date))]
Matched(val, certs, privkey) ==
  IF certs = <<>> \/ val # "ERR_OK" THEN val ELSE btokCVCMatch(Certs[Last_(certs).cert], privkey)
cmdSigSign(certs, date, privkey, file) ==
  LET match == Matched(cmdCVCsVal(certs, date), certs, privkey)
  IN First(<<<<privkey[1] \in Lens, "ERR_BAD_INPUT">>,
             <<date = NoDate \/ tmDateIsValid2(date), "ERR_BAD_DATE">>,
             <<match = "ERR_OK", match>>,
             <<Exists(file), "ERR_FILE_READ">>>>, "ERR_OK")

(* same: the signature is at the end of the file itself and is not signed. *)
Signed(file, same) == IF same THEN Front_(file) ELSE file
VerifyOn(s, pubkey, items) ==
  LET val == btokPubkeyVal(pubkey)
      hash == cmdSigHash(pubkey[1] \div 2, items, s.certs, s.date)
  IN First(<<<<val = "ERR_OK", val>>,
             <<s.sig.len = SigLen(pubkey[1] \div 2) /\ btokPubkeyCalc(s.sig.by) = pubkey
               /\ s.sig.over = hash, "ERR_BAD_SIG">>>>, "ERR_OK")
cmdSigVerify(file, sigfile, same, pubkey) ==
  LET r == cmdSigRead(sigfile)
      s == r.sig
      val == cmdCVCsVal(s.certs, s.date)
      u == Signer(s.certs)
  IN IF r.code # "ERR_OK" THEN r.code
     ELSE First(<<<<same \/ Len(sigfile) = 1, "ERR_BAD_FORMAT">>,
                  <<val = "ERR_OK", val>>,
                  <<s.certs = <<>> \/ u.code = "ERR_OK", u.code>>,
                  <<s.certs = <<>> \/ u.cvc.pubkey = pubkey, "ERR_BAD_PUBKEY">>,
                  <<Exists(file), "ERR_FILE_READ">>>>, VerifyOn(s, pubkey, Signed(file, same)))
VerifyChain(s, val, u, file, same) ==
  First(<<<<val = "ERR_OK", val>>, <<u.code = "ERR_OK", u.code>>, <<Exists(file), "ERR_FILE_READ">>>>,
        VerifyOn(s, u.cvc.pubkey, Signed(file, same)))
cmdSigVerify2(file, sigfile, same, anchor) ==
  LET r == cmdSigRead(sigfile)
      s == r.sig
      found == cmdCVCsFind(s.certs, anchor).code
  IN IF r.code # "ERR_OK" THEN r.code
     ELSE IF ~same /\ Len(sigfile) # 1 THEN "ERR_BAD_FORMAT"
     ELSE IF found # "ERR_OK" THEN found
     ELSE VerifyChain(s, cmdCVCsVal(s.certs, s.date), Signer(s.certs), file, same)

(* Objects of a signed file: the body, the signature, the num-th           *)
(* certificate of the chain.  The walk to the certificate may stop at the  *)
(* end of the chain with the right number: what is written then is as      *)
(* long as the last certificate and lies after it.                         *)
cmdSigExtr(file, scope, num) ==
  LET r == cmdSigRead(file)
      c == r.sig.certs
      out(code, items) == [code |-> code, items |-> items]
  IN CASE r.code # "ERR_OK" -> out(r.code, <<>>)
       [] scope = "cert" -> IF num < Len(c) THEN out("ERR_OK", <<c[num + 1]>>)
                            ELSE IF num = Len(c) /\ c # <<>> THEN out("ERR_OK", <<Torn>>)
                            ELSE out("ERR_BAD_CERT", <<>>)
       [] scope = "body" -> IF Len(file) = 1 THEN out("ERR_BAD_FORMAT", <<>>)
                            ELSE out("ERR_OK", Front_(file))
       [] OTHER -> out("ERR_OK", <<Last_(file)>>)

-----------------------------------------------------------------------------
(***************************************************************************)
(* Rings of certificates: the commands of src/cmd/cvr/cvr.c and sign and   *)
(* val of src/cmd/sig/sig.c over the files they keep.  A command checks,   *)
(* rewrites the ring without its signature, and signs it afterwards; any   *)
(* write may fail or be broken off, and so may the command between them.   *)
(* What fclose could not put on the disk is lost though the write returns  *)
(* ERR_OK.                                                                 *)
(***************************************************************************)
CONSTANTS Holder,        \* key and certificate the user names as a holder's
          Addable,       \* files of certificates that are added or removed
          Chain,         \* chains that a separate signature comes with
          MaxRing,       \* bound: certificates in a ring
          MaxDay,        \* bound: the days that pass
          SignAndLose    \* bound: whether a ring that has lost part may have
                         \* a separate signature too
(* The key of a certificate and that of a user are a length and an owner;  *)
(* a user has his key and a name of a certificate.                         *)
IsKey(k) == k = <<k[1], k[2]>> /\ k[1] \in Nat
ASSUME RingAssumption ==
  /\ \A c \in Names_ : IsKey(btokCVCBodyDec(Certs[c].body).cvc.pubkey)
  /\ \A h \in Holder : h.certa \in Names_ /\ IsKey(h.key) /\ h.key[2] # "nobody"
  /\ Addable \subseteq Names_ /\ Chain \subseteq Seq(Names_)
VARIABLES disk,          \* the ring and the file of a separate signature
          pc,            \* where the present command is
          cmd,           \* its operation and arguments
          mem,           \* what it is about to write
          today,
          meant,         \* what a ring was last rewritten to be, and for whom
          over,          \* what the separate signature was last made over
          lost           \* part of the ring was lost in a write told to be good
vars == <<disk, pc, cmd, mem, today, meant, over, lost>>

RingOps == {"init", "add", "del"}
NoRing == [certa |-> "", certs |-> <<>>]
Without(s, i) == SubSeq(s, 1, i - 1) \o SubSeq(s, i + 1, Len(s))
Less(s, c) == IF \E i \in DOMAIN s : s[i] = c
              THEN Without(s, CHOOSE i \in DOMAIN s : s[i] = c) ELSE s
Target == IF cmd.op = "sign" THEN "det" ELSE "ring"
Accepts(file, certa) == cmdSigVerify2(file, file, TRUE, CertItem(certa))

-----------------------------------------------------------------------------
(* What add and del find out before they write: the code, and the place of *)
(* the certificate in the ring.                                            *)
RingChecks(ring, h, c) ==
  LET r == cmdSigRead(ring)
      u == btokCVCUnwrap(Certs[c], None).code
      match == btokCVCMatch(Certs[h.certa], h.key)
  IN IF ~Exists(ring) THEN "ERR_FILE_NOT_FOUND"
     ELSE IF match # "ERR_OK" THEN match
     ELSE IF r.code # "ERR_OK" THEN r.code
     ELSE First(<<<<r.sig.certs = Items(<<h.certa>>), "ERR_BAD_ANCHOR">>,
                  <<Accepts(ring, h.certa) = "ERR_OK", Accepts(ring, h.certa)>>,
                  <<u = "ERR_OK", u>>>>, "ERR_OK")
(* Faulty variant: A certificate that is there is added again.             *)
Added_variant(code, found, ring, c) ==
  IF code # "ERR_OK" THEN [code |-> code, body |-> <<>>]
  ELSE [code |-> CASE found = "ERR_OK" -> "ERR_OK" [] found = "ERR_NOT_FOUND" -> "ERR_OK" [] OTHER -> found,
        body |-> Append(Front_(ring), CertItem(c))]
(* Body of a ring with a certificate added, or removed; found is what the  *)
(* search for it in the ring has come to.                                  *)
Added(code, found, ring, c) ==
  IF code # "ERR_OK" THEN [code |-> code, body |-> <<>>]
  ELSE [code |-> CASE found = "ERR_OK" -> "ERR_ALREADY_EXISTS"
                   [] found = "ERR_NOT_FOUND" -> "ERR_OK" [] OTHER -> found,
        body |-> Append(Front_(ring), CertItem(c))]
cvrAdd(ring, h, c) ==
  Added(RingChecks(ring, h, c), cmdCVCsFind(Front_(ring), CertItem(c)).code, ring, c)
(* Faulty variant: The old signature stays at the end.                     *)
Removed_variant(code, found, ring) ==
  IF code # "ERR_OK" THEN [code |-> code, body |-> <<>>]
  ELSE [code |-> found.code, body |-> IF found.code = "ERR_OK" THEN Without(ring, found.offset) ELSE <<>>]
Removed(code, found, ring) ==
  IF code # "ERR_OK" THEN [code |-> code, body |-> <<>>]
  ELSE [code |-> found.code,
        body |-> IF found.code = "ERR_OK" THEN Without(Front_(ring), found.offset) ELSE <<>>]
cvrDel(ring, h, c) ==
  Removed(RingChecks(ring, h, c), cmdCVCsFind(Front_(ring), CertItem(c)), ring)
(* Commands that only read: the check of the signer's certificate in val   *)
(* is overwritten by the next one; find and extr verify nothing.           *)
cvrVal(ring, certa) ==
  LET r == cmdSigRead(ring)
  IN IF ~Exists(ring) THEN "ERR_FILE_NOT_FOUND"
     ELSE IF r.code # "ERR_OK" THEN r.code
     ELSE First(<<<<Accepts(ring, certa) = "ERR_OK", Accepts(ring, certa)>>>>, cmdCVCsCheck(Front_(ring)))
cvrFind(ring, c) ==
  LET r == cmdSigRead(ring)
  IN IF r.code # "ERR_OK" THEN r.code ELSE cmdCVCsFind(Front_(ring), CertItem(c)).code
cvrExtr(ring, num) ==
  LET r == cmdSigRead(ring)
  IN IF r.code # "ERR_OK" THEN [code |-> r.code, cert |-> Torn] ELSE cmdCVCsGet(Front_(ring), num)
cvrPrint(ring) ==
  LET r == cmdSigRead(ring)
  IN IF r.code # "ERR_OK" THEN [code |-> r.code, count |-> 0] ELSE cmdCVCsCount(Front_(ring))

-----------------------------------------------------------------------------
Idle == [op |-> "none"]
Init ==
  /\ disk = [ring |-> Absent, det |-> Absent]
  /\ pc = "idle" /\ cmd = Idle /\ mem = <<>>
  /\ today = 1 /\ meant = NoRing /\ over = Absent /\ lost = FALSE

(* A command that ends well tells so, and then is gone; of other codes     *)
(* nothing is kept.                                                        *)
End(c) ==
  /\ mem' = <<>>
  /\ IF c = "ERR_OK" THEN pc' = "told" /\ UNCHANGED cmd ELSE pc' = "idle" /\ cmd' = Idle
Return == pc = "told" /\ pc' = "idle" /\ cmd' = Idle
          /\ UNCHANGED <<disk, mem, today, meant, over, lost>>
Begin(command, at, items) == pc' = at /\ cmd' = command /\ mem' = items
(* The certificate and the key are not compared before the ring is         *)
(* emptied.  A ring that is there is emptied if the user says so.          *)
cvrCreate(h) ==
  /\ pc = "idle"
  /\ \/ Begin([op |-> "init", key |-> h.key, certa |-> h.certa], "open", <<>>)
     \/ Exists(disk.ring) /\ End("ERR_FILE_EXISTS")
  /\ UNCHANGED <<disk, today, meant, over, lost>>
Change(op, h, c) ==
  /\ pc = "idle"
  /\ \E r \in {IF op = "add" THEN cvrAdd(disk.ring, h, c) ELSE cvrDel(disk.ring, h, c)} :
       IF r.code # "ERR_OK" THEN End(r.code)
       ELSE /\ Len(r.body) <= MaxRing
            /\ Begin([op |-> op, key |-> h.key, certa |-> h.certa, c |-> c], "open", r.body)
  /\ UNCHANGED <<disk, today, meant, over, lost>>
(* A separate signature of the ring, with a chain and a date or without.   *)
(* Bound: the user signs no ring that is broken.                           *)
sigSign(key, certs, date) ==
  /\ pc = "idle" /\ (~Exists(disk.ring) \/ cmdSigRead(disk.ring).code = "ERR_OK")
  /\ lost => SignAndLose
  /\ \/ Exists(disk.ring) /\ Begin([op |-> "sign", key |-> key, certs |-> certs, date |-> date], "sign", <<>>)
     \/ (~Exists(disk.ring)) /\ End("ERR_FILE_NOT_FOUND")
     \/ Exists(disk.ring) /\ Exists(disk.det) /\ End("ERR_FILE_EXISTS")
  /\ UNCHANGED <<disk, today, meant, over, lost>>

(* fopen with "wb" empties the file.                                       *)
Meaning ==
  CASE cmd.op = "init" -> [certa |-> cmd.certa, certs |-> <<>>]
    [] cmd.op = "add" -> [certa |-> cmd.certa, certs |-> Append(Less(meant.certs, cmd.c), cmd.c)]
    [] cmd.op = "del" -> [certa |-> cmd.certa, certs |-> Less(meant.certs, cmd.c)]
    [] OTHER -> meant
OpenFile ==
  /\ pc = "open"
  /\ \/ /\ disk' = [disk EXCEPT ![Target] = <<>>]
        /\ pc' = "write" /\ meant' = Meaning
        /\ over' = IF cmd.op = "sign" THEN disk.ring ELSE over
        /\ lost' = (lost /\ cmd.op # "init")
        /\ UNCHANGED <<cmd, mem>>
     \/ End("ERR_FILE_CREATE") /\ UNCHANGED <<disk, meant, over, lost>>
  /\ UNCHANGED today
(* What is on the disk when a write of the items broke off.                *)
Partial(items) ==
  {SubSeq(items, 1, k) : k \in 0 .. Len(items)}
  \cup {Append(SubSeq(items, 1, k), Torn) : k \in 0 .. Len(items) - 1}
(* fwrite may take all of the octets and fclose fail to write them out:    *)
(* its result is not looked at.                                            *)
Lose(p) == /\ lost' = (lost \/ p # mem)
           /\ lost' => (SignAndLose \/ ~Exists(disk.det))
cmdFileWrite ==
  /\ pc = "write"
  /\ \E p \in Partial(mem) :
       /\ disk' = [disk EXCEPT ![Target] = p]
       /\ \/ cmd.op = "sign" /\ End("ERR_OK") /\ UNCHANGED lost
          \/ cmd.op # "sign" /\ pc' = "sign" /\ mem' = <<>> /\ UNCHANGED cmd /\ Lose(p)
          \/ End("ERR_FILE_WRITE") /\ UNCHANGED lost
  /\ UNCHANGED <<today, meant, over>>
(* The ring is signed with the date of now and the holder's certificate.   *)
ChainOf == Items(IF cmd.op = "sign" THEN cmd.certs ELSE <<cmd.certa>>)
DateOf == IF cmd.op = "sign" THEN cmd.date ELSE today
Sign ==
  /\ pc = "sign"
  /\ \E c \in {cmdSigSign(ChainOf, DateOf, cmd.key, disk.ring)} :
       \/ /\ c = "ERR_OK"
          /\ mem' = <<SigItem(SigOf(ChainOf, DateOf, cmd.key, disk.ring))>>
          /\ pc' = IF cmd.op = "sign" THEN "open" ELSE "append"
          /\ UNCHANGED cmd
       \/ c # "ERR_OK" /\ End(c)
       \/ End("ERR_OUTOFMEMORY")
  /\ UNCHANGED <<disk, today, meant, over, lost>>
cmdFileAppend ==
  /\ pc = "append"
  /\ \/ \E p \in Partial(mem) :
          /\ disk' = [disk EXCEPT !.ring = @ \o p]
          /\ \/ End("ERR_OK") /\ Lose(p)
             \/ End("ERR_FILE_WRITE") /\ UNCHANGED lost
     \/ End("ERR_FILE_OPEN") /\ UNCHANGED <<disk, lost>>
  /\ UNCHANGED <<today, meant, over>>

(* The program is killed, perhaps in the middle of a write.                *)
Crash ==
  /\ pc \notin {"idle", "told"} /\ End("killed")
  /\ \E p \in Partial(mem) :
       disk' = CASE pc = "write" -> [disk EXCEPT ![Target] = p]
                 [] pc = "append" -> [disk EXCEPT !.ring = @ \o p]
                 [] OTHER -> disk
  /\ UNCHANGED <<today, meant, over, lost>>
Day == pc = "idle" /\ today < MaxDay /\ today' = today + 1
       /\ UNCHANGED <<disk, pc, cmd, mem, meant, over, lost>>

Step == Return \/ OpenFile \/ cmdFileWrite \/ Sign \/ cmdFileAppend
Next ==
  \/ \E h \in Holder : cvrCreate(h)
  \/ \E op \in {"add", "del"}, h \in Holder, c \in Addable : Change(op, h, c)
  \/ \E key \in {h.key : h \in Holder}, certs \in Chain, date \in {NoDate, today} : sigSign(key, certs, date)
  \/ Step \/ Crash \/ Day
Spec == Init /\ [][Next]_vars

-----------------------------------------------------------------------------
(* What may be left of a body when writes told to be good have lost part   *)
(* of it: some of what was meant, none of it twice, torn only at the end.  *)
Remains(body, certs) ==
  /\ \A i \in DOMAIN body :
       IF body[i].kind = "cert" THEN \E j \in DOMAIN certs : certs[j] = body[i].cert
       ELSE i = Len(body) /\ body[i] = Torn
  /\ \A i, j \in DOMAIN body : body[i] = body[j] => i = j
RingHolds ==
  \A a \in Names_ : Accepts(disk.ring, a) = "ERR_OK" =>
     /\ a = meant.certa
     /\ IF lost THEN Remains(Front_(disk.ring), meant.certs)
        ELSE Front_(disk.ring) = Items(meant.certs) /\ cmdCVCsCheck(Front_(disk.ring)) = "ERR_OK"
     /\ Cardinality({meant.certs[i] : i \in DOMAIN meant.certs}) = Len(meant.certs)
Done == Accepts(disk.ring, cmd.certa) = "ERR_OK" /\ Front_(disk.ring) = Items(meant.certs)
Told == pc = "told" /\ cmd.op \in RingOps
(* A ring that its holder's certificate accepts holds exactly the          *)
(* certificates that the commands were asked to put there since it was     *)
(* made, in that order, each of them readable and none twice, whatever     *)
(* writes were told to have failed, and wherever the program was killed    *)
(* between the rewriting and the signing that follows it (cvr.c); and a    *)
(* command that ends well has left such a ring.  If fclose has failed and  *)
(* was not heard (cmd_file.c:62, 78), less may be there and be signed, but *)
(* then too nothing that was taken out or never put there, for no other    *)
(* holder, and nothing twice.                                              *)
RingAsMeant == RingHolds /\ (Told /\ ~lost => Done)
(* cmd.h:213, 224: what returns ERR_OK has succeeded.  A command that ends *)
(* well has left the ring that it was asked for.                           *)
DoneWhenTold == Told => Done

(* What find, extr and print read is signed by the holder, though they     *)
(* verify nothing: no half-made ring has a signature at its end.  On such  *)
(* a ring each of them, and val, answers what was put there.  If an        *)
(* unheard fclose has lost part of the ring they find and give nothing     *)
(* that was not put there, and val, print and a search in vain say so      *)
(* together when its end is torn.                                          *)
ReadersAgree ==
  LET a == meant.certa
      n == Len(meant.certs)
      inring(c) == \E i \in DOMAIN meant.certs : meant.certs[i] = c
      torn == cvrPrint(disk.ring).code
  IN IF cmdSigRead(disk.ring).code # "ERR_OK" THEN \A c \in Names_ : cvrVal(disk.ring, c) # "ERR_OK"
     ELSE
     /\ cmdSigExtr(disk.ring, "cert", 0) = [code |-> "ERR_OK", items |-> <<CertItem(a)>>]
     /\ IF lost
        THEN /\ cvrVal(disk.ring, a) = torn
             /\ \A c \in Addable :
                  LET found == cvrFind(disk.ring, c)
                  IN IF found = "ERR_OK" THEN inring(c)
                     ELSE found = IF torn = "ERR_OK" THEN "ERR_NOT_FOUND" ELSE torn
             /\ \A i \in 0 .. n : LET x == cvrExtr(disk.ring, i)
                                IN x.code = "ERR_OK" => \E c \in Names_ : inring(c) /\ x.cert = CertItem(c)
        ELSE /\ cvrVal(disk.ring, a) = "ERR_OK"
             /\ \A c \in Addable : cvrFind(disk.ring, c) = IF inring(c) THEN "ERR_OK" ELSE "ERR_NOT_FOUND"
             /\ \A i \in 0 .. n - 1 : cvrExtr(disk.ring, i) = [code |-> "ERR_OK", cert |-> CertItem(meant.certs[i + 1])]
             /\ cvrExtr(disk.ring, n).code = "ERR_OUTOFRANGE"
             /\ cvrPrint(disk.ring) = [code |-> "ERR_OK", count |-> n]
             /\ n > 0 => cmdSigExtr(disk.ring, "body", 0).items = Items(meant.certs)
(* A separate signature stands for the ring as it was signed: it is        *)
(* accepted, on the signer's key or on a certificate of its chain, just as *)
(* long as the ring has that content and the signature is all there; and a *)
(* chain it comes with is a chain, its last certificate good on the date.  *)
SignatureOfThis ==
  LET r == cmdSigRead(disk.det)
      s == r.sig
      same == over = disk.ring /\ over # Absent
      cvc(i) == btokCVCUnwrap(Certs[s.certs[i].cert], None).cvc
  IN r.code = "ERR_OK" =>
     /\ \A h \in Holder :
          (cmdSigVerify(disk.ring, disk.det, FALSE, btokPubkeyCalc(h.key)) = "ERR_OK") <=> (same /\ s.sig.by = h.key)
     /\ \A a \in Names_ :
          (cmdSigVerify2(disk.ring, disk.det, FALSE, CertItem(a)) = "ERR_OK")
            <=> (same /\ \E i \in DOMAIN s.certs : s.certs[i] = CertItem(a))
     /\ \A i \in 2 .. Len(s.certs) : cvc(i).sig.by[2] = cvc(i - 1).pubkey[2]
     /\ (Len(s.certs) > 1 /\ s.date # NoDate) =>
          (cvc(Len(s.certs)).from <= s.date /\ s.date <= cvc(Len(s.certs)).until)
(* cmd.h:795: extracting "cert<n>" gives the n-th certificate, counted     *)
(* from zero, the signer's being the last: what is extracted is one of the *)
(* chain.                                                                  *)
ExtractsCertificate ==
  \A n \in 0 .. MaxRing :
    LET x == cmdSigExtr(disk.ring, "cert", n)
    IN x.code = "ERR_OK" => \E i \in DOMAIN Last_(disk.ring).sig.certs : x.items = <<Last_(disk.ring).sig.certs[i]>>
=============================================================================
