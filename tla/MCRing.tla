-------------------------------- MODULE MCRing --------------------------------
(***************************************************************************)
(* A root, a holder with a certificate for one day, a certificate that    *)
(* only says that the root issued it, and a file that is no certificate.   *)
(***************************************************************************)
EXTENDS CertRing

CaKey == <<64, "ca">>
AlKey == <<32, "al">>
Body(authority, holder, key, from, until) ==
  [Blank EXCEPT !.authority = authority, !.holder = holder, !.pubkey = btokPubkeyCalc(key),
                !.from = from, !.until = until]
MCCerts ==
  [c \in {"root", "al", "bo", "junk"} |->
     CASE c = "root" -> btokCVCWrap(Body("BYCA0000", "BYCA0000", CaKey, 1, 6), CaKey).cert
       [] c = "al" -> btokCVCWrap(Body("BYCA0000", "590082394654", AlKey, 1, 1), CaKey).cert
       [] c = "bo" -> btokCVCWrap(Body("BYCA0000", "BYCA1000", <<32, "bo">>, 1, 3), <<64, "bo">>).cert
       [] OTHER -> [btokCVCWrap(Body("BYCA0000", "BYCA1000", AlKey, 1, 3), CaKey).cert EXCEPT !.trail = TRUE]]
MCHolder == {[key |-> AlKey, certa |-> "al"], [key |-> AlKey, certa |-> "root"],
             [key |-> CaKey, certa |-> "root"]}
MCChain == {<<>>, <<"root", "al">>, <<"root", "bo">>}
=============================================================================
