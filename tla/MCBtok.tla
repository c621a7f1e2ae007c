------------------------------- MODULE MCBtok -------------------------------
(***************************************************************************)
(* What a token does for its owner: the state of the PIN, one-time         *)
(* passwords, secure messaging with a terminal and the codes of its        *)
(* commands.  The parts do not touch each other; a behaviour shows one and *)
(* leaves the others at rest.                                              *)
(***************************************************************************)
EXTENDS Botp, SequencesExt, TLC

CONSTANTS
  MaxActs,                                                      \* BtokPwd
  CdfLens, RdfLens, CtrBase, CtrDigits, MaxSends, MaxFaults,    \* BtokSM
  MaxCode                                     \* the longest code explored

ASSUME SmAssumption ==
  /\ CtrBase \in Nat \ {0} /\ CtrBase % 2 = 0 /\ CtrDigits \in Nat \ {0}
  /\ MaxSends \in Nat /\ MaxFaults \in Nat

ASSUME CodeAssumption == MaxCode \in Nat

VARIABLES
  part,                                              \* the part shown
  pin, auth, misses, spent, acts, before, resumed, proved, dead,   \* BtokPwd
  lens, smCtr, at, toCard, toTerm, smAsked, answered, opened, used, ids,
  sends, faults, slip,                               \* BtokSM
  cmd, code,                                         \* a command and a code
  line                                               \* a description of a mode

Pwd == INSTANCE BtokPwd
SM == INSTANCE BtokSM WITH CtrLen <- CtrDigits, ctr <- smCtr, asked <- smAsked
Apdu == INSTANCE ApduCodec

Parts == {"pwd", "otp", "suite", "sm", "apdu"}
pwdVars == <<pin, auth, misses, spent, acts, before, resumed, proved, dead>>
smVars == <<lens, smCtr, at, toCard, toTerm, smAsked, answered, opened, used,
            ids, sends, faults, slip>>
apduVars == <<cmd, code>>
all == <<part, vars, pwdVars, smVars, apduVars, line>>
-----------------------------------------------------------------------------
(* CDF* passes 255 and a DER length 127, 255 within these.                 *)
MCCdfLens == {0, 1, 126, 127, 239, 240, 241, 242, 243, 244, 245, 246, 254, 255,
              256, 65280, 65515, 65516}
MCRdfLens == {0, 1, 255, 256, 257, 65535, 65536}

NoParts == [ctr_len |-> 0, q_max |-> 0, p_len |-> 0, s_len |-> 0, ts |-> 0]
Hotp == [NoParts EXCEPT !.ctr_len = 8]
Totp == [NoParts EXCEPT !.ts = 60]
Ocra(s) == LET r == OCRAStart(s)
           IN [k \in DOMAIN NoParts |-> r[k]]

OcraHead == <<"OCRA-1:HOTP-", "HBELT", "-", "8", ":">>
MCSuites == {
  Hotp, Totp,
  Ocra(OcraHead \o <<"C", "-", "Q", "N", "0", "8">>),
  Ocra(OcraHead \o <<"Q", "N", "0", "8", "-", "P", "HBELT", "-", "T", "1", "M">>),
  Ocra(OcraHead \o <<"C", "-", "Q", "N", "0", "8", "-", "P", "HBELT",
                     "-", "S", "0", "6", "4", "-", "T", "1", "M">>)}

(* Values on both sides of every limit.                                    *)
Fields ==
  [digit : {3, 4, 9}, ctr : BOOLEAN, type : {"A", "N", "H", "P"},
   max : {3, 4, 64, 65}, hash : {"none", "HBELT", "SHA1", "SHA512", "-"},
   sid : {1000, 0, 512, 513}, unit : {"none", "S", "M", "H", "-"}, step : {1, 48, 49, 59, 60}]

Full == [digit |-> 8, ctr |-> TRUE, type |-> "N", max |-> 48, hash |-> "SHA256",
         sid |-> 64, unit |-> "M", step |-> 11]

(* One word left out, replaced or put in.                                  *)
Strange == {"-", ":", "0", "1", "6", "C", "Q", "A", "P", "S", "T", "H", "SHA1", "OCRA-:HOTP-"}
Damaged ==
  LET s == Line(Full)
  IN {RemoveAt(s, k) : k \in 1 .. Len(s)}
       \cup {[s EXCEPT ![k] = w] : k \in 1 .. Len(s), w \in Strange}
       \cup {InsertAt(s, k, w) : k \in 1 .. Len(s) + 1, w \in Strange}

-----------------------------------------------------------------------------
(* A caller of apdu.c: it codes commands and decodes whatever it is given. *)
SeqsUpto(n) == UNION {[1 .. k -> Apdu!Octets] : k \in 0 .. n}
Cmds == {Apdu!Cmd(c, r) : c \in SeqsUpto(Base * Base - 1), r \in 0 .. Base * Base}

Encode == \E c \in Cmds : Apdu!CmdIsValid(c) /\ cmd' = c /\ code' = Apdu!CmdEnc(c)
Decode == cmd' = Apdu!CmdDec(code) /\ UNCHANGED code

MCInit ==
  /\ part \in Parts
  /\ Init /\ Pwd!Init /\ SM!Init
  /\ cmd = Apdu!NoCmd
  /\ part # "otp" => suite = Hotp /\ first = Empty.ctr
  /\ part # "sm" => lens = [n |-> 0, r |-> 0]
  /\ IF part = "suite" THEN line \in Fields \cup {Full} ELSE line = Full
  /\ IF part = "apdu" THEN code \in SeqsUpto(MaxCode) ELSE code = <<>>

MCNext ==
  \/ part = "pwd" /\ Pwd!Next /\ UNCHANGED <<part, vars, smVars, apduVars, line>>
  \/ part = "otp" /\ Next /\ UNCHANGED <<part, pwdVars, smVars, apduVars, line>>
  \/ part = "sm" /\ SM!Next /\ UNCHANGED <<part, vars, pwdVars, apduVars, line>>
  \/ part = "apdu" /\ Encode /\ UNCHANGED <<part, vars, pwdVars, smVars, line>>
  \/ part = "apdu" /\ Decode /\ UNCHANGED <<part, vars, pwdVars, smVars, line>>

MCSpec == MCInit /\ [][MCNext]_all
-----------------------------------------------------------------------------
(* The state of btok_pwd.c tells the tries that are left of PIN and PUK    *)
(* since the PIN was right, unlocked or, against btok.h, activated; in all *)
(* there are three and ten for each activation more.  Who is authenticated *)
(* has given that password in this session.                                *)
PinRight == Pwd!TypeOK /\ Pwd!Tries /\ Pwd!Authenticated

(* Tries of the PIN come back only in a session in which the PUK was       *)
(* right, if none were left, or the PIN itself.                            *)
OwnerUnlocks == Pwd!OwnerUnlocks

(* btok.h: after ten wrong PUKs on a locked PIN the PIN is locked forever. *)
LockedForever == Pwd!LockedForever

(* The server accepts the password that is due and its counter follows the *)
(* token, whatever is lost, late or repeated (botp.c).                     *)
OtpRight == TypeOK /\ CtrCounts /\ Accepted

(* No counter encrypts twice, whichever party does it (btok_sm.c).         *)
CtrFresh == SM!CtrFresh

(* What is accepted is what was protected, the counters are in step        *)
(* between exchanges, and the lengths told are the lengths written.        *)
AsSent == SM!AsSent /\ SM!InStep /\ SM!SizeTold

(* What apduCmdDec() accepts is a valid command, and what apduCmdEnc()     *)
(* makes of one is read back: in particular no octets of data are taken    *)
(* for a length, and no short form for an extended one.  The octets of a   *)
(* response are its data and its status, in this order.                    *)
RoundTrip ==
  /\ cmd # Apdu!NoCmd => Apdu!CmdIsValid(cmd) /\ Apdu!CmdDec(Apdu!CmdEnc(cmd)) = cmd
  /\ Len(code) >= 2 =>
       /\ Apdu!RespEnc(Apdu!RespDec(code)) = code
       /\ Apdu!RespDec(Apdu!RespEnc(Apdu!Resp(code, SubSeq(code, 1, 2)))).rdf = code

(* A code apduCmdDec() accepts is as long as the code of the command it    *)
(* stands for, or the two differ in the form of an Lc: the code is longer  *)
(* by an Lc of three octets where one or none would do.                    *)
Lengths ==
  Apdu!CmdDec(code) # Apdu!NoCmd =>
    LET enc == Apdu!CmdEnc(Apdu!CmdDec(code))
    IN Len(code) = Len(enc) \/ (Apdu!LcLen(code) = 3 /\ Len(code) = Len(enc) + 2)

(* A line is read to what it was written for; nothing else is accepted.    *)
SuiteRead ==
  part = "suite" => /\ ReadsBack(line)
                    /\ line = Full => \A s \in Damaged : RefusesOther(s)

(* Codes of commands and descriptions of modes are read to what they stand *)
(* for (apdu.c, botpOCRAStart()).                                          *)
CommandsRead == (part = "apdu" => RoundTrip /\ Lengths) /\ SuiteRead
=============================================================================
