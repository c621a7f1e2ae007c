------------------------------ MODULE ApduCodec -----------------------------
(***************************************************************************)
(* The codec of APDU commands and responses: src/src/core/apdu.c.          *)
(*                                                                         *)
(* An octet is a digit 0 .. Base - 1 (Base is 256 in the code), so that a  *)
(* length takes one or two octets here as it does there and the limits of  *)
(* the short form, of the extended form and of the whole code keep their   *)
(* places.  The header CLA INS P1 P2 is copied octet by octet and is left  *)
(* out: a code is what follows it.                                         *)
(***************************************************************************)
EXTENDS Naturals, Sequences

CONSTANT
  Base           \* how many values an octet has, two at least

Octets == 0 .. Base - 1

(* apdu_cmd_t: cdf with cdf_len, rdf_len.                                  *)
Cmd(cdf, rdf_len) == [cdf |-> cdf, rdf_len |-> rdf_len]

(* apduCmdIsValid().                                                       *)
CmdIsValid(cmd) == Len(cmd.cdf) < Base * Base /\ cmd.rdf_len <= Base * Base

Short(n, r) == n < Base /\ r <= Base

(* A length of one or two octets; the longest one wraps to zeros.          *)
One(k) == <<k % Base>>
Two(k) == <<(k \div Base) % Base, k % Base>>

(* Faulty variant: the form follows the length of the data alone.          *)
Lc_own(n, r) ==
  IF n = 0 THEN <<>> ELSE IF n < Base THEN One(n) ELSE <<0>> \o Two(n)

(* [cdf_len].                                                              *)
Lc(n, r) ==
  IF n = 0 THEN <<>> ELSE IF Short(n, r) THEN One(n) ELSE <<0>> \o Two(n)

(* rdf_len: short form, extended form after an Lc, extended form alone.    *)
Le(n, r) ==
  IF r = 0 THEN <<>>
  ELSE IF Short(n, r) THEN One(r)
  ELSE IF n > 0 THEN Two(r) ELSE <<0>> \o Two(r)

(* apduCmdEnc().                                                           *)
CmdEnc(cmd) ==
  LET n == Len(cmd.cdf)
      r == cmd.rdf_len
  IN Lc(n, r) \o cmd.cdf \o Le(n, r)

(* The values of lengths: zeros stand for the largest one.                 *)
Number(o) == IF Len(o) = 1 THEN o[1] ELSE o[1] * Base + o[2]
LeNumber(o) ==
  IF Number(o) # 0 THEN Number(o) ELSE IF Len(o) = 1 THEN Base ELSE Base * Base

NoCmd == [cdf |-> <<>>, rdf_len |-> Base * Base + 1]

(* How many octets the Lc of a code takes; 4 stands for a code too short   *)
(* for it.                                                                 *)
LcLen(code) ==
  IF \/ Len(code) <= 1
     \/ Len(code) = 3 /\ code[1] = 0 THEN 0
  ELSE IF code[1] # 0 THEN 1
  ELSE IF Len(code) < 3 THEN 4 ELSE 3

(* The octets o that are left decode to rdf_len, or to no command.         *)
DecLe(lc, n, o) ==
  LET bad == NoCmd.rdf_len
  IN CASE Len(o) = 0 -> 0
       [] Len(o) = 1 -> IF lc = 3 THEN bad ELSE LeNumber(o)
       [] Len(o) = 2 ->
            IF lc <= 1 \/ Short(n, LeNumber(o)) THEN bad ELSE LeNumber(o)
       [] Len(o) = 3 ->
            LET r == LeNumber(Tail(o))
            IN IF o[1] # 0 \/ lc # 0 \/ r <= Base THEN bad ELSE r
       [] OTHER -> bad

(* apduCmdDec(): the command, or NoCmd for SIZE_MAX.                       *)
CmdDec(code) ==
  LET lc == LcLen(code)
      n == CASE lc = 0 -> 0
             [] lc = 1 -> code[1]
             [] lc = 3 -> Number(SubSeq(code, 2, 3))
             [] OTHER -> Len(code)
      rest == SubSeq(code, lc + n + 1, Len(code))
  IN IF lc + n > Len(code) \/ DecLe(lc, n, rest) = NoCmd.rdf_len THEN NoCmd
     ELSE Cmd(SubSeq(code, lc + 1, lc + n), DecLe(lc, n, rest))

(* apduRespEnc() and apduRespDec(): the data and the two status octets.    *)
Resp(rdf, sw) == [rdf |-> rdf, sw |-> sw]
RespEnc(resp) == resp.rdf \o resp.sw

RespDec(code) ==
  Resp(SubSeq(code, 1, Len(code) - 2), SubSeq(code, Len(code) - 1, Len(code)))
=============================================================================
