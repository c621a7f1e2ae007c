-------------------------------- MODULE Botp --------------------------------
(***************************************************************************)
(* One-time passwords: src/src/crypto/botp.c.                              *)
(*                                                                         *)
(* A token makes passwords and a server verifies them, each in a state of  *)
(* its own (botp_hotp_st, botp_totp_st, botp_ocra_st).  What a password    *)
(* depends on is told by the suite: a counter (HOTP, OCRA), a mark of time *)
(* (TOTP, OCRA), a challenge, a static password and a session (OCRA).      *)
(* Passwords get lost, come late, twice or in another order, and what the  *)
(* server is given may not be a password at all.                           *)
(*                                                                         *)
(* A password is the tuple of what HMAC is computed of: HMAC and its       *)
(* truncation botpDT() are taken as injective.  An octet has Base values   *)
(* and a counter or a mark of time CtrLen octets, the first the highest.   *)
(***************************************************************************)
EXTENDS Naturals, Sequences, FiniteSets

CONSTANTS
  Base, CtrLen,
  Suites,          \* records with ctr_len, q_max, p_len, s_len, ts; 0: not used
  Statics,         \* static passwords a user may enter
  Sessions,        \* names of sessions
  TheStatic, TheSession,  \* those the server expects
  MaxMade,         \* bound: passwords made
  MaxTaken,        \* bound: passwords accepted
  MaxAsked,        \* bound: challenges
  MaxTime          \* bound: marks of time

ASSUME BotpAssumption ==
  /\ Base \in Nat \ {0, 1} /\ CtrLen \in Nat \ {0}
  /\ TheStatic \in Statics /\ TheSession \in Sessions
  /\ {MaxMade, MaxTaken, MaxTime} \subseteq Nat /\ MaxAsked \in Nat \ {0}

VARIABLES
  suite,           \* how both parties were started
  token, server,   \* their states
  asked,           \* the number of the last challenge of the server
  now,             \* the rounded time
  wire,            \* passwords made, with what they were made of
  taken,           \* passwords accepted, with what the server meant
  first, made      \* the counter both began with; passwords made

vars == <<suite, token, server, asked, now, wire, taken, first, made>>
-----------------------------------------------------------------------------
Octets == [1 .. CtrLen -> 0 .. Base - 1]

(* Faulty variant: the carry is lost.                                      *)
CtrNext_nocarry(c) == [c EXCEPT ![CtrLen] = (@ + 1) % Base]

(* botpCtrNext: one is added to the last octet and carried to the first.   *)
CtrNext(c) ==
  LET carry[i \in 1 .. CtrLen + 1] ==
        IF i = CtrLen + 1 THEN 1
        ELSE IF (c[i] + carry[i + 1]) % Base < carry[i + 1] THEN 1 ELSE 0
  IN [i \in 1 .. CtrLen |-> (c[i] + carry[i + 1]) % Base]

(* botpTimeToCtr: the octets of a mark of time, from the lowest one, are   *)
(* turned round.                                                           *)
TimeToCtr(t) ==
  LET rest[k \in 0 .. CtrLen] == IF k = 0 THEN t ELSE rest[k - 1] \div Base
  IN [i \in 1 .. CtrLen |-> rest[CtrLen - i] % Base]

(* What HMAC is computed of: the parts the suite asks for, in this order.  *)
Hmac(st, q, t) ==
  <<suite,
    IF suite.ctr_len # 0 THEN st.ctr ELSE <<>>,
    IF suite.q_max # 0 THEN q ELSE <<>>,
    IF suite.p_len # 0 THEN st.p ELSE <<>>,
    IF suite.s_len # 0 THEN st.s ELSE <<>>,
    IF suite.ts # 0 THEN TimeToCtr(t) ELSE <<>> >>

(* The state after a password was made of it.                              *)
Stepped(st) == IF suite.ctr_len # 0 THEN [st EXCEPT !.ctr = CtrNext(@)] ELSE st

(* botpOCRAStepS, botpHOTPStepS: what the suite does not use is not read.  *)
Loaded(st, c, p, s) ==
  [st EXCEPT !.ctr = IF suite.ctr_len # 0 THEN c ELSE @,
             !.p = IF suite.p_len # 0 THEN p ELSE @,
             !.s = IF suite.s_len # 0 THEN s ELSE @]

Empty == [ctr |-> [i \in 1 .. CtrLen |-> 0], ctr1 |-> [i \in 1 .. CtrLen |-> 0],
          p |-> TheStatic, s |-> TheSession]

Init ==
  /\ suite \in Suites
  /\ first \in Octets
  /\ token = Loaded(Empty, first, TheStatic, TheSession)
  /\ server = Loaded(Empty, first, TheStatic, TheSession)
  /\ asked = 1 /\ now = 0 /\ wire = {} /\ taken = <<>> /\ made = 0
-----------------------------------------------------------------------------
(* The user enters a static password in a session; the counter stays.      *)
TokenStepS(p, s) ==
  /\ token' = Loaded(token, token.ctr, p, s)
  /\ UNCHANGED <<suite, server, asked, now, wire, taken, first, made>>

(* The token makes a password for a challenge it has got, perhaps late.    *)
TokenStepR(q) ==
  /\ made < MaxMade
  /\ made' = made + 1
  /\ wire' = wire \cup
       {[otp |-> Hmac(token, q, now),
         of |-> [nth |-> made, q |-> q, p |-> token.p, s |-> token.s, t |-> now]]}
  /\ token' = Stepped(token)
  /\ UNCHANGED <<suite, server, asked, now, taken, first>>

(* The server compares what it is given with the password it makes itself, *)
(* and takes its counter back when they differ.                            *)
ServerStepV(otp, of) ==
  LET st == [server EXCEPT !.ctr1 = server.ctr]
  IN /\ Len(taken) < MaxTaken
     /\ IF otp = Hmac(st, asked, now)
        THEN /\ server' = Stepped(st)
             /\ taken' = Append(taken, [of |-> of, q |-> asked, t |-> now])
        ELSE /\ server' = [Stepped(st) EXCEPT !.ctr = st.ctr1]
             /\ UNCHANGED taken
     /\ UNCHANGED <<suite, token, asked, now, wire, first, made>>

(* A password that came over the wire, now or long ago.                    *)
ServerVerifies == \E m \in wire : ServerStepV(m.otp, m.of)

(* Anything else.                                                          *)
ServerRefuses == ServerStepV(<<>>, <<>>)

Ask ==
  /\ suite.q_max # 0 /\ asked < MaxAsked
  /\ asked' = asked + 1
  /\ UNCHANGED <<suite, token, server, now, wire, taken, first, made>>

Tick ==
  /\ suite.ts # 0 /\ now < MaxTime
  /\ now' = now + 1
  /\ UNCHANGED <<suite, token, server, asked, wire, taken, first, made>>

Next ==
  \/ \E p \in Statics, s \in Sessions : TokenStepS(p, s)
  \/ \E q \in 1 .. asked : TokenStepR(q)
  \/ ServerVerifies \/ ServerRefuses \/ Ask \/ Tick

Spec == Init /\ [][Next]_vars
-----------------------------------------------------------------------------
State == [ctr : Octets, ctr1 : Octets, p : Statics, s : Sessions]

TypeOK ==
  /\ suite \in Suites /\ token \in State /\ server \in State /\ first \in Octets
  /\ asked \in 1 .. MaxAsked /\ now \in 0 .. MaxTime /\ made \in 0 .. MaxMade
  /\ Len(taken) <= MaxTaken

(* Octets as a number: what an octet weighs, and the sum from the last.    *)
Weight[k \in 0 .. CtrLen] == IF k = 0 THEN 1 ELSE Base * Weight[k - 1]

Value(c) ==
  LET v[i \in 1 .. CtrLen + 1] ==
        IF i = CtrLen + 1 THEN 0 ELSE c[i] * Weight[CtrLen - i] + v[i + 1]
  IN v[1]

Ahead(n) == (Value(first) + n) % Weight[CtrLen]

(* The counters count: the token's the passwords made, the server's those  *)
(* accepted, through every carry and past the highest value, whatever was  *)
(* refused in between.                                                     *)
CtrCounts ==
  suite.ctr_len # 0 =>
    /\ Value(token.ctr) = Ahead(made)
    /\ Value(server.ctr) = Ahead(Len(taken))

(* A password is accepted for nothing but what it was made for: the        *)
(* challenge, the time, the static password and the session of the server  *)
(* wherever the suite has them.  With a counter it is accepted once, and   *)
(* in the order of making without a gap.                                   *)
Accepted ==
  \A i \in 1 .. Len(taken) :
    LET a == taken[i]
    IN /\ suite.ctr_len # 0 => a.of.nth = i - 1
       /\ suite.q_max # 0 => a.of.q = a.q
       /\ suite.ts # 0 => a.of.t = a.t
       /\ suite.p_len # 0 => a.of.p = TheStatic
       /\ suite.s_len # 0 => a.of.s = TheSession

-----------------------------------------------------------------------------
(***************************************************************************)
(* The description of an OCRA mode: botpOCRAStart() in                     *)
(* src/src/crypto/botp.c reads it from a line such as                      *)
(*   OCRA-1:HOTP-HBELT-8:C-QN08-PHBELT-S064-T1M                            *)
(* A line is a sequence of words here: the prefix, the names of hash       *)
(* functions, and single characters.  The code reads it from left to       *)
(* right; every reader below takes the place where it starts, and returns  *)
(* what it has read and the place after it, or Fail.                       *)
(***************************************************************************)
Glyphs == <<"0", "1", "2", "3", "4", "5", "6", "7", "8", "9">>
Digits == [c \in {Glyphs[k] : k \in 1 .. 10} |->
  CHOOSE d \in 0 .. 9 : Glyphs[d + 1] = c]

(* Octets of the hash value of a static password.                          *)
HashLen == [h \in {"HBELT", "SHA1", "SHA256", "SHA512"} |->
  CASE h \in {"HBELT", "SHA256"} -> 32 [] h = "SHA1" -> 20 [] h = "SHA512" -> 64]

(* Seconds of a unit and the greatest number of units in a step of time.   *)
Unit == [S |-> [secs |-> 1, max |-> 59],
         M |-> [secs |-> 60, max |-> 59],
         H |-> [secs |-> 3600, max |-> 48]]

Fail == [ok |-> FALSE, val |-> 0, at |-> 0]
Read(v, i) == [ok |-> TRUE, val |-> v, at |-> i]

(* The zero octet that ends a line.                                        *)
Word(s, i) == IF i <= Len(s) THEN s[i] ELSE "end"
Follows(s, i, w) == \A k \in DOMAIN w : Word(s, i + k - 1) = w[k]
IsDigit(s, i) == Word(s, i) \in DOMAIN Digits

(* n decimal digits.                                                       *)
Decimal(s, i, n) ==
  IF \A k \in i .. i + n - 1 : IsDigit(s, k)
  THEN LET v[k \in 0 .. n] ==
             IF k = 0 THEN 0 ELSE 10 * v[k - 1] + Digits[s[i + k - 1]]
       IN Read(v[n], i + n)
  ELSE Fail

(* The mandatory beginning and the length of a password, 4 to 9.           *)
ReadHead(s) ==
  IF /\ Follows(s, 1, <<"OCRA-1:HOTP-", "HBELT", "-">>)
     /\ IsDigit(s, 4) /\ Digits[s[4]] \in 4 .. 9
     /\ Word(s, 5) = ":"
  THEN Read(Digits[s[4]], 6)
  ELSE Fail

ReadCtr(s, i) ==
  IF Word(s, i) # "C" THEN Read(0, i)
  ELSE IF Word(s, i + 1) = "-" THEN Read(8, i + 2) ELSE Fail

(* The type of a challenge and the greatest length of a single one.        *)
ReadQ(s, i) ==
  LET n == Decimal(s, i + 2, 2)
  IN IF /\ Word(s, i) = "Q" /\ Word(s, i + 1) \in {"A", "N", "H"}
        /\ n.ok /\ n.val \in 4 .. 64
     THEN Read(<<s[i + 1], n.val>>, n.at)
     ELSE Fail

ReadP(s, i) ==
  IF ~Follows(s, i, <<"-", "P">>) THEN Read(0, i)
  ELSE IF Word(s, i + 2) \in DOMAIN HashLen
       THEN Read(HashLen[s[i + 2]], i + 3) ELSE Fail

ReadS(s, i) ==
  LET n == Decimal(s, i + 2, 3)
  IN IF ~Follows(s, i, <<"-", "S">>) THEN Read(0, i)
     ELSE IF n.ok /\ n.val <= 512 THEN n ELSE Fail

(* One or two digits, the first not zero, and a unit.                      *)
ReadT(s, i) ==
  LET n == IF IsDigit(s, i + 3) THEN Decimal(s, i + 2, 2) ELSE Decimal(s, i + 2, 1)
      u == Word(s, n.at)
  IN IF ~Follows(s, i, <<"-", "T">>) THEN Read(0, i)
     ELSE IF /\ Word(s, i + 2) # "0" /\ n.ok
             /\ u \in DOMAIN Unit /\ n.val <= Unit[u].max
          THEN Read(n.val * Unit[u].secs, n.at + 1)
          ELSE Fail

NoSuite == [ok |-> FALSE]

OCRAStart(s) ==
  LET d == ReadHead(s)
      c == ReadCtr(s, d.at)
      q == ReadQ(s, c.at)
      p == ReadP(s, q.at)
      l == ReadS(s, p.at)
      t == ReadT(s, l.at)
  IN IF d.ok /\ c.ok /\ q.ok /\ p.ok /\ l.ok /\ t.ok /\ t.at = Len(s) + 1
     THEN [ok |-> TRUE, digit |-> d.val, ctr_len |-> c.val, q_type |-> q.val[1],
           q_max |-> q.val[2], p_len |-> p.val, s_len |-> l.val, ts |-> t.val]
     ELSE NoSuite
-----------------------------------------------------------------------------
(* The reference: how a line is written, from what it should mean.         *)
Name(n) == Glyphs[(n % 10) + 1]

Plain(n) == IF n < 10 THEN <<Name(n)>> ELSE <<Name(n \div 10), Name(n)>>

Line(f) ==
  <<"OCRA-1:HOTP-", "HBELT", "-", Name(f.digit), ":">>
    \o (IF f.ctr THEN <<"C", "-">> ELSE <<>>)
    \o <<"Q", f.type, Name(f.max \div 10), Name(f.max)>>
    \o (IF f.hash = "none" THEN <<>> ELSE <<"-", "P", f.hash>>)
    \o (IF f.sid = 1000 THEN <<>>
        ELSE <<"-", "S", Name(f.sid \div 100), Name(f.sid \div 10), Name(f.sid)>>)
    \o (IF f.unit = "none" THEN <<>> ELSE <<"-", "T">> \o Plain(f.step) \o <<f.unit>>)

(* What botp.h and RFC 6287, to which it refers, allow.                    *)
Legal(f) ==
  /\ f.digit \in 4 .. 9 /\ f.type \in {"A", "N", "H"} /\ f.max \in 4 .. 64
  /\ f.hash \in DOMAIN HashLen \cup {"none"}
  /\ f.sid \in (0 .. 512) \cup {1000}
  /\ f.unit \in DOMAIN Unit \cup {"none"}
  /\ f.unit # "none" => f.step \in 1 .. (IF f.unit = "H" THEN 48 ELSE 59)

Meaning(f) ==
  [ok |-> TRUE, digit |-> f.digit, ctr_len |-> IF f.ctr THEN 8 ELSE 0,
   q_type |-> f.type, q_max |-> f.max,
   p_len |-> IF f.hash = "none" THEN 0 ELSE HashLen[f.hash],
   s_len |-> IF f.sid = 1000 THEN 0 ELSE f.sid,
   ts |-> CASE f.unit = "none" -> 0 [] f.unit = "S" -> f.step
            [] f.unit = "M" -> 60 * f.step [] f.unit = "H" -> 3600 * f.step]

(* Every meaning a line with this result can have been written for.        *)
Written(r) ==
  {f \in [digit : {r.digit}, ctr : {r.ctr_len # 0}, type : {r.q_type},
          max : {r.q_max}, hash : DOMAIN HashLen \cup {"none"},
          sid : {r.s_len, 1000},
          unit : {"none", "S", "M", "H"},
          step : {r.ts, r.ts \div 60, r.ts \div 3600}] : Legal(f) /\ Meaning(f) = r}

(* A line is read to what it was written for, and refused if that is not   *)
(* allowed.                                                                *)
ReadsBack(f) == OCRAStart(Line(f)) = IF Legal(f) THEN Meaning(f) ELSE NoSuite

(* A line that is not written as it should be is refused.                  *)
RefusesOther(s) ==
  OCRAStart(s).ok => \E f \in Written(OCRAStart(s)) : Line(f) = s
=============================================================================
