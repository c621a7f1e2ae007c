------------------------------- MODULE BtokSM -------------------------------
(***************************************************************************)
(* Secure messaging of STB 34.101.79: src/src/crypto/btok/btok_sm.c.  A    *)
(* terminal protects commands, a card takes the protection off, answers,   *)
(* and the terminal takes the protection off the answer.  Both keep a      *)
(* counter; as btok.h asks, it is moved before every use.  The line may    *)
(* lose a message or deliver an answer late.                               *)
(*                                                                         *)
(* Data.  Lengths are those of the code, up to 65536.  The data of a       *)
(* command is its length and a number; encrypted under a counter and       *)
(* decrypted under another one they are garbage.  A MAC is what it covers. *)
(* Lc and Le are octets, as ApduCodec.tla codes them.                     *)
(***************************************************************************)
EXTENDS Naturals, Sequences, FiniteSets

CONSTANTS
  CdfLens,       \* lengths of the data of a command, up to 65535
  RdfLens,       \* lengths of the data of an answer, up to 65536
  CtrBase,       \* how many values a digit of the counter has, an even number
  CtrLen,        \* how many digits the counter has, 16 in the code
  MaxSends,      \* how many commands are tried
  MaxFaults      \* how many messages are lost or late

Codec == INSTANCE ApduCodec WITH Base <- 256

(* der.c: octets of a length, of a tag with a length, of the whole.        *)
DerLLen(n) == IF n < 128 THEN 1 ELSE IF n < 256 THEN 2 ELSE IF n < 65536 THEN 3 ELSE 4
DerTLLen(n) == 1 + DerLLen(n)
DerLen(n) == DerTLLen(n) + n

(* der(0x87, 0x02 Y), der(0x97, Le), der(0x8E, T).                         *)
DataLen(n) == IF n = 0 THEN 0 ELSE DerLen(n + 1)
LeLen(n, r) == IF r = 0 THEN 0 ELSE DerLen(Len(Codec!Le(n, r)))
MacLen == DerLen(8)
-----------------------------------------------------------------------------
(* Commands.                                                               *)

(* Encrypted data: its number, its length, the counter; garbage is data of *)
(* no number.                                                              *)
Y(id, n, c) == [id |-> id, n |-> n, ctr |-> c]
Garbage == 0
Opened(y, c) == IF y.n = 0 \/ y.ctr = c THEN y.id ELSE Garbage

(* The length of CDF*.                                                     *)
CdfStar(n, r) == DataLen(n) + LeLen(n, r) + MacLen

(* Faulty variant: the form of Le* is chosen by the length of CDF.         *)
LeStar_plain(n, r) ==
  IF r = 0 THEN 0 ELSE IF r <= 256 /\ n < 256 THEN 1 ELSE 2

(* How many zeros Le* is.                                                  *)
LeStar(n, r) ==
  IF r = 0 THEN 0 ELSE IF r <= 256 /\ CdfStar(n, r) < 256 THEN 1 ELSE 2

(* How many octets Lc* is.                                                 *)
LcStarLen(n, r) ==
  IF LeStar(n, r) = 2 \/ CdfStar(n, r) >= 256 THEN 3 ELSE 1

(* Lc*: the casts to octet keep the length modulo 2^16.                    *)
LcStar(n, r) ==
  LET l == CdfStar(n, r)
  IN IF LcStarLen(n, r) = 1 THEN <<l % 256>>
     ELSE <<0, (l \div 256) % 256, l % 256>>

(* What btokSMCmdWrap() tells the length of the code is, apdu being 0.     *)
CmdCount(n, r) == 4 + LcStarLen(n, r) + CdfStar(n, r) + LeStar(n, r)

(* The code btokSMCmdWrap() makes.                                         *)
CmdCode(id, n, r, c) ==
  [lc |-> LcStar(n, r), y |-> Y(id, n, c), le |-> Codec!Le(n, r),
   mac |-> <<Y(id, n, c), Codec!Le(n, r)>>,
   zeros |-> LeStar(n, r),
   count |-> 4 + Len(LcStar(n, r)) + DataLen(n)
             + (IF r = 0 THEN 0 ELSE DerTLLen(Len(Codec!Le(n, r)))
                                     + Len(Codec!Le(n, r)))
             + DerTLLen(8) + 8 + LeStar(n, r)]

(* The length of CDF* btokSMCmdUnwrap() reads.                             *)
ReadLen(c) == IF c.lc[1] # 0 THEN c.lc[1] ELSE 256 * c.lc[2] + c.lc[3]
ReadLenLen(c) == IF c.lc[1] # 0 THEN 1 ELSE 3

(* The value of Le in der(0x97, Le); 0: there is none; NoLe: a wrong one.  *)
NoLe == 65537
ReadLe(c) ==
  LET n == c.y.n
      two(o) == IF 256 * o[1] + o[2] = 0 THEN 65536 ELSE 256 * o[1] + o[2]
  IN CASE Len(c.le) = 0 -> 0
       [] Len(c.le) = 1 ->
            IF n >= 256 THEN NoLe ELSE IF c.le[1] = 0 THEN 256 ELSE c.le[1]
       [] Len(c.le) = 2 ->
            IF n = 0 \/ (n < 256 /\ two(c.le) <= 256) THEN NoLe ELSE two(c.le)
       [] OTHER ->
            IF c.le[1] # 0 \/ n # 0 \/ two(Tail(c.le)) <= 256 THEN NoLe
            ELSE two(Tail(c.le))

(* The format is right: the lengths add up and what follows CDF* is as     *)
(* long as Le in the form of both lengths.                                 *)
CmdFormat(c) ==
  LET len == ReadLen(c)
      fields == DataLen(c.y.n)
                + (IF c.le = <<>> THEN 0 ELSE DerLen(Len(c.le))) + MacLen
      r == ReadLe(c)
      zeros == IF r = 0 THEN 0 ELSE IF len < 256 /\ r <= 256 THEN 1 ELSE 2
  IN /\ c.count >= 15
     /\ 4 + ReadLenLen(c) + len <= c.count
     /\ 4 + ReadLenLen(c) + len + 2 >= c.count
     /\ r # NoLe
     /\ c.zeros = zeros
     /\ c.count = 4 + ReadLenLen(c) + len + zeros
     /\ len = fields

(* Answers.  What btokSMRespWrap() makes.                                  *)
RespCount(n) == DataLen(n) + MacLen + 2
RespCode(id, n, c) ==
  [y |-> Y(id, n, c), mac |-> <<Y(id, n, c)>>,
   count |-> (IF n = 0 THEN 0 ELSE DerTLLen(n + 1) + 1 + n)
             + DerTLLen(8) + 8 + 2]
RespFormat(c) == c.count >= 12 /\ DataLen(c.y.n) + MacLen + 2 = c.count
-----------------------------------------------------------------------------
(* The two parties.                                                        *)

VARIABLES
  lens,          \* the length of the data sent and of the data asked for
  ctr,           \* ctr[p]: btok_sm_st::ctr of the terminal and of the card
  at,            \* at[p]: "idle", "waiting" (terminal), "busy" (card)
  toCard,        \* codes of commands on their way
  toTerm,        \* codes of answers on their way
  asked,         \* the last command protected: its number and lengths
  answered,      \* the last answer protected
  opened,        \* was every code accepted what had been protected last?
  used,          \* the counters used for encryption, with what they encrypted
  ids,           \* numbers given to data so far
  sends,         \* commands tried
  faults,        \* messages lost or late
  slip           \* a command was lost, or the terminal gave up too early

smVars == <<lens, ctr, at, toCard, toTerm, asked, answered, opened, used, ids,
            sends, faults, slip>>

Parties == {"terminal", "card"}
Digits == 0 .. CtrLen - 1
Ctrs == [Digits -> 0 .. CtrBase - 1]
Zero == [i \in Digits |-> 0]
NoData == [id |-> 0, n |-> 0, r |-> 0]

(* Faulty variant: the carry is lost.                                      *)
CtrInc_nocarry(c) == [c EXCEPT ![0] = (c[0] + 1) % CtrBase]

(* btokSMCtrInc().                                                         *)
CtrInc(c) ==
  [i \in Digits |-> IF \A j \in 0 .. i - 1 : c[j] = CtrBase - 1
                    THEN (c[i] + 1) % CtrBase ELSE c[i]]

Init ==
  /\ lens \in [n : CdfLens, r : RdfLens]
  /\ ctr = [p \in Parties |-> Zero]
  /\ at = [p \in Parties |-> "idle"]
  /\ toCard = <<>> /\ toTerm = <<>>
  /\ asked = NoData /\ answered = NoData
  /\ opened = TRUE
  /\ used = {} /\ ids = 0
  /\ sends = 0 /\ faults = 0 /\ slip = FALSE

(* st->ctr[0] % 2: odd for commands, even for answers.                     *)
Parity(c, bit) == c[0] % 2 = bit

(* What a party encrypts under a counter.                                  *)
Encrypts(id, n, c) == IF n = 0 THEN {} ELSE {[ctr |-> c, id |-> id]}

(* btokSMCtrInc() and btokSMCmdWrap(): ERR_BAD_LOGIC leaves the terminal   *)
(* where it was, to try again.                                             *)
TerminalSends ==
  LET c == CtrInc(ctr["terminal"])
      n == lens.n
      r == lens.r
  IN /\ at["terminal"] = "idle" /\ sends < MaxSends
     /\ ctr' = [ctr EXCEPT !["terminal"] = c]
     /\ IF Parity(c, 1)
        THEN /\ ids' = ids + 1
             /\ toCard' = Append(toCard, CmdCode(ids + 1, n, r, c))
             /\ asked' = [id |-> ids + 1, n |-> n, r |-> r]
             /\ used' = used \cup Encrypts(ids + 1, n, c)
             /\ at' = [at EXCEPT !["terminal"] = "waiting"]
             /\ sends' = sends + 1
        ELSE UNCHANGED <<ids, toCard, asked, used, at, sends>>
     /\ UNCHANGED <<lens, toTerm, answered, opened, faults, slip>>

(* btokSMCtrInc() and btokSMCmdUnwrap(); the card waits for another        *)
(* command after an error.                                                 *)
CardReceives ==
  LET c == CtrInc(ctr["card"])
      m == Head(toCard)
      ok == CmdFormat(m) /\ Parity(c, 1) /\ m.mac = <<m.y, m.le>>
  IN /\ toCard # <<>> /\ at["card"] = "idle"
     /\ ctr' = [ctr EXCEPT !["card"] = c]
     /\ toCard' = Tail(toCard)
     /\ IF ok
        THEN /\ at' = [at EXCEPT !["card"] = "busy"]
             /\ opened' = (opened /\ asked = [id |-> Opened(m.y, c),
                                             n |-> m.y.n, r |-> ReadLe(m)])
        ELSE opened' = FALSE /\ UNCHANGED at
     /\ UNCHANGED <<lens, toTerm, asked, answered, used, ids, sends, faults,
                     slip>>

(* btokSMCtrInc() and btokSMRespWrap().                                    *)
CardSends ==
  LET c == CtrInc(ctr["card"])
      n == lens.r
  IN /\ at["card"] = "busy"
     /\ at' = [at EXCEPT !["card"] = "idle"]
     /\ ctr' = [ctr EXCEPT !["card"] = c]
     /\ IF Parity(c, 0)
        THEN /\ ids' = ids + 1
             /\ toTerm' = Append(toTerm, RespCode(ids + 1, n, c))
             /\ answered' = [id |-> ids + 1, n |-> n, r |-> 0]
             /\ used' = used \cup Encrypts(ids + 1, n, c)
        ELSE UNCHANGED <<ids, toTerm, answered, used>>
     /\ UNCHANGED <<lens, toCard, asked, opened, sends, faults, slip>>

(* btokSMCtrInc() and btokSMRespUnwrap().                                  *)
TerminalReceives ==
  LET c == CtrInc(ctr["terminal"])
      m == Head(toTerm)
      ok == RespFormat(m) /\ Parity(c, 0) /\ m.mac = <<m.y>>
  IN /\ toTerm # <<>> /\ at["terminal"] = "waiting"
     /\ ctr' = [ctr EXCEPT !["terminal"] = c]
     /\ toTerm' = Tail(toTerm)
     /\ at' = [at EXCEPT !["terminal"] = "idle"]
     /\ opened' = (opened /\ ok /\ answered = [id |-> Opened(m.y, c),
                                              n |-> m.y.n, r |-> 0])
     /\ UNCHANGED <<lens, toCard, asked, answered, used, ids, sends, faults,
                     slip>>

Quiet == toCard = <<>> /\ toTerm = <<>> /\ at["card"] = "idle"

(* The terminal gives up waiting: nothing will come, or too early.         *)
TimesOut ==
  /\ at["terminal"] = "waiting"
  /\ at' = [at EXCEPT !["terminal"] = "idle"]
  /\ \/ Quiet /\ UNCHANGED <<faults, slip>>
     \/ ~ Quiet /\ faults < MaxFaults /\ faults' = faults + 1 /\ slip' = TRUE
  /\ UNCHANGED <<lens, ctr, toCard, toTerm, asked, answered, opened, used,
                 ids, sends>>

(* The line loses a message.                                               *)
Loses ==
  /\ faults < MaxFaults /\ faults' = faults + 1
  /\ \/ toCard # <<>> /\ toCard' = Tail(toCard) /\ slip' = TRUE
        /\ UNCHANGED toTerm
     \/ toTerm # <<>> /\ toTerm' = Tail(toTerm)
        /\ UNCHANGED <<toCard, slip>>
  /\ UNCHANGED <<lens, ctr, at, asked, answered, opened, used, ids, sends>>

Next ==
  \/ TerminalSends \/ CardSends \/ CardReceives
  \/ TerminalReceives \/ TimesOut \/ Loses

Spec == Init /\ [][Next]_smVars
-----------------------------------------------------------------------------
(* Properties.                                                             *)

(* The keys of the two parties are the same: no counter encrypts twice,    *)
(* whichever party does it and whatever is lost or late.                   *)
CtrFresh == \A e, f \in used : e.ctr = f.ctr => e = f

(* As long as no command is lost and the terminal does not give up on an   *)
(* answer that still comes, whatever is accepted is what was protected,    *)
(* and whatever arrives is accepted; lost answers do no harm.              *)
AsSent == ~ slip => opened

(* Then the counters are in step between exchanges, or the terminal is     *)
(* behind by the answers it did not get.                                   *)
InStep ==
  ~ slip /\ Quiet /\ at["terminal"] = "idle" =>
    ctr["card"] \in {ctr["terminal"], CtrInc(ctr["terminal"])}

(* The length btokSMCmdWrap() tells for a null apdu is the length of what  *)
(* it writes, and it has room for the unprotected code written first; so   *)
(* it is for btokSMRespWrap().                                             *)
SizeTold ==
  /\ asked # NoData =>
       LET n == asked.n
           r == asked.r
           told == CmdCount(n, r)
       IN /\ CmdCode(asked.id, n, r, Zero).count = told
          /\ 4 + Len(Codec!Lc(n, r)) + n + Len(Codec!Le(n, r)) <= told
  /\ answered # NoData =>
       RespCode(answered.id, answered.n, Zero).count = RespCount(answered.n)
=============================================================================
