------------------------------ MODULE MCStreams ------------------------------
(***************************************************************************)
(* The functions of belt, bash and brng that take data in pieces.  A job   *)
(* fixes the function, its key, its data and what it has to give; a        *)
(* behaviour feeds the data in pieces of any length (also empty) and asks  *)
(* for tags at any moment.  The expected results are the definitions of    *)
(* the modes over the whole data.                                          *)
(***************************************************************************)
EXTENDS BeltAuth, BeltWide, Bash

VARIABLES
  job,           \* what is computed
  pos,           \* octets fed into each channel of the job
  state,         \* the state of the functions
  given          \* what they have given out

vars == <<job, pos, state, given>>

-----------------------------------------------------------------------------
(* Definitions of the modes.                                               *)
BlocksIn(d, size) == (Len(d) + size - 1) \div size
Nth(d, size, i) == SubSeq(d, size * (i - 1) + 1, MinOf(size * i, Len(d)))
ZeroPad(d, size) == d \o Zeros((size - (Len(d) % size)) % size)
Concat(n, F(_)) == Iter(LAMBDA s, i : s \o F(i + 1), <<>>, n)
CutTo(d, n) == Fit(d, n)

DefECB(d, k) ==
  LET n == Len(d) \div N16   r == Len(d) % N16
      y == beltBlockEncr(Nth(d, N16, n), k)
  IN IF r = 0 THEN Concat(n, LAMBDA i : beltBlockEncr(Nth(d, N16, i), k))
     ELSE Concat(n - 1, LAMBDA i : beltBlockEncr(Nth(d, N16, i), k))
          \o beltBlockEncr(Nth(d, N16, n + 1) \o Piece(y, r, N16 - r), k) \o Fit(y, r)
DefCBC(d, k, iv) ==
  LET n == Len(d) \div N16   r == Len(d) % N16
      y(m) == Iter(LAMBDA q, i : LET c == beltBlockEncr(MemXor(Nth(d, N16, i + 1), q.last), k)
                                 IN [out |-> q.out \o c, last |-> c],
                   [out |-> <<>>, last |-> iv], m)
      last == y(n).last
  IN IF r = 0 THEN y(n).out
     ELSE y(n - 1).out
          \o beltBlockEncr(MemXor(Nth(d, N16, n + 1), Fit(last, r)) \o Piece(last, r, N16 - r), k)
          \o Fit(last, r)
DefCFB(d, k, iv) ==
  Iter(LAMBDA q, i : LET x == Nth(d, N16, i + 1)
                         y == MemXor(x, Fit(beltBlockEncr(q.last, k), Len(x)))
                     IN [out |-> q.out \o y, last |-> y],
       [out |-> <<>>, last |-> iv], BlocksIn(d, N16)).out
(* The i-th block of gamma by the number of the counter.                   *)
DefCTR(d, k, iv) ==
  LET c == NumOf(beltBlockEncr(iv, k))
  IN MemXor(d, Fit(Concat(BlocksIn(d, N16), LAMBDA i :
                     beltBlockEncr(OctetsOf((c + i) % W ^ N16, N16), k)), Len(d)))
MulC(s, n) == Iter(LAMBDA q, i : beltBlockMulC(q), s, n)
DefBDE(d, k, iv) ==
  LET s(i) == MulC(beltBlockEncr(iv, k), i)
  IN Concat(Len(d) \div N16, LAMBDA i :
       MemXor(beltBlockEncr(MemXor(Nth(d, N16, i), s(i)), k), s(i)))
DefCHE(d, k, iv) ==
  LET s(n) == Iter(LAMBDA q, i : [MulC(q, 1) EXCEPT ![1] = Xor(@, 1)], beltBlockEncr(iv, k), n)
  IN MemXor(d, Fit(Concat(BlocksIn(d, N16), LAMBDA i : beltBlockEncr(s(i), k)), Len(d)))

DefMAC(d, k) ==
  LET n == MaxOf(1, BlocksIn(d, N16))
      x == Nth(d, N16, n)
      s == Iter(LAMBDA q, i : beltBlockEncr(MemXor(q, Nth(d, N16, i + 1)), k), Zeros(N16), n - 1)
      whole(r) == <<r[2], r[3], r[4], Xor(r[1], r[2])>>
      short(r) == <<Xor(r[1], r[4]), r[1], r[2], r[3]>>
  IN With(beltBlockEncr(Zeros(N16), k), LAMBDA r :
       Fit(beltBlockEncr(IF Len(x) = N16 THEN MemXor(MemXor(s, x), whole(r))
                         ELSE MemXor(MemXor(s, ZeroPad(x \o <<2>>, N16)), short(r)), k), 2))
DefHash(d) ==
  With(Iter(LAMBDA c, i : beltCompr2(c.s, c.h, ZeroPad(Nth(d, N32, i + 1), N32)),
            [s |-> Zeros(N16), h |-> beltH(0, N32)], BlocksIn(d, N32)), LAMBDA q :
    beltCompr(q.h, OctetsOf((Len(d) * B) % W ^ N16, N16) \o q.s))
DefHMAC(d, key) ==
  With(IF Len(key) <= N32 THEN key \o Zeros(N32 - Len(key)) ELSE DefHash(key), LAMBDA k :
    DefHash(XorAll(k, 2) \o DefHash(XorAll(k, 1) \o d)))
DefTag(i, a, k, r) ==
  LET x == ZeroPad(i, N16) \o ZeroPad(a, N16)
      t == Iter(LAMBDA q, j : beltPolyMul(MemXor(q, Nth(x, N16, j + 1)), r), beltH(0, N16),
                Len(x) \div N16)
      lens == OctetsOf((Len(i) * B) % W ^ 2, 2) \o OctetsOf((Len(a) * B) % W ^ 2, 2)
  IN Fit(beltBlockEncr(beltPolyMul(MemXor(t, lens), r), k), 2)
DefBrngCTR(d, key, iv) ==
  Iter(LAMBDA q, i :
         With(DefHash(key \o q.s \o ZeroPad(Nth(d, N32, i + 1), N32) \o q.r), LAMBDA y :
           [out |-> q.out \o y, r |-> MemXor(q.r, y),
            s |-> OctetsOf((NumOf(q.s) + 1) % W ^ N32, N32)]),
       [out |-> <<>>, s |-> iv, r |-> brngBlockNeg(iv)], BlocksIn(d, N32)).out
DefBrngHMAC(d, key, iv) ==
  Iter(LAMBDA q, i : [out |-> q.out \o DefHMAC(q.r \o iv, key), r |-> DefHMAC(q.r, key)],
       [out |-> <<>>, r |-> DefHMAC(iv, key)], BlocksIn(d, N32)).out
DefBashHash(l, d) ==
  LET size == Size - (l \div 16)
      x == d \o <<4>> \o Eager([i \in 1 .. (size - ((Len(d) + 1) % size)) % size |-> 0])
  IN Read(Iter(LAMBDA s, i : bashF(Written(s, 0, Nth(x, size, i + 1))),
               [Blank EXCEPT ![Size - 1] = (l \div 64) % 2 ^ LaneBits], Len(x) \div size),
          0, l \div 32)

-----------------------------------------------------------------------------
(* Jobs.  The channels of a job are the kinds of its data in the order     *)
(* they have to be fed.                                                    *)
Msg(n) == Eager([i \in 1 .. n |-> (3 * i * i + i \div 2) % W])
Keys == {<<1, 2, 3, 0>>, <<3, 0, 2, 2, 1, 3>>, <<0, 1, 2, 3, 3, 1, 1, 2>>}
K(key) == beltKeyExpand2(key)
(* From the second one the counter of CTR runs over its end.               *)
IVs(key) == {<<1, 0, 2, 3>>, beltBlockDecr(<<2, 3, 3, 3>>, K(key))}

Job(mode, key, iv, data, want) ==
  [mode |-> mode, key |-> key, iv |-> iv, data |-> data, want |-> want]
Both(enc, dec, key, iv, d, c) ==
  {Job(enc, key, iv, <<d>>, c), Job(dec, key, iv, <<c>>, d)}
BlockJobs ==
  UNION {UNION {
    UNION {Both("ECBE", "ECBD", key, iv, Msg(n), DefECB(Msg(n), K(key))) : n \in {4, 12, 13, 15}}
    \cup UNION {Both("CBCE", "CBCD", key, iv, Msg(n), DefCBC(Msg(n), K(key), iv)) :
                n \in {4, 12, 13, 15}}
    \cup Both("BDEE", "BDED", key, iv, Msg(16), DefBDE(Msg(16), K(key), iv))
    : iv \in IVs(key)} : key \in Keys}
GammaJobs ==
  UNION {UNION {
    Both("CFBE", "CFBD", key, iv, Msg(14), DefCFB(Msg(14), K(key), iv))
    \cup Both("CTR", "CTR", key, iv, Msg(14), DefCTR(Msg(14), K(key), iv))
    : iv \in IVs(key)} : key \in Keys}
TagJobs ==
  {Job("MAC", key, <<>>, <<Msg(13)>>, <<>>) : key \in Keys}
  \cup {Job("HMAC", key, <<>>, <<Msg(18)>>, <<>>) : key \in {<<>>, Msg(5), Msg(8), Msg(16), Msg(19)}}
  \cup {Job("Hash", <<>>, <<>>, <<Msg(n)>>, <<>>) : n \in {19, 24}}
  \cup {Job("bashHash", <<l>>, <<>>, <<[i \in 1 .. 40 - (l \div 8) |-> (5 * i) % 16]>>, <<>>) :
        l \in {128, 256}}
WrapJobs ==
  UNION {UNION {LET e == DefCTR(Msg(7), K(key), iv)
                    c == DefCHE(Msg(7), K(key), iv)
                IN {Job("DWPE", key, iv, <<Msg(6), Msg(7), e>>, e),
                    Job("DWPD", key, iv, <<Msg(6), e, e>>, Msg(7)),
                    Job("CHEE", key, iv, <<Msg(6), Msg(7), c>>, c),
                    Job("CHED", key, iv, <<Msg(6), c, c>>, Msg(7))}
    : iv \in IVs(key)} : key \in Keys}
(* Where the counter of the generator starts, and the octets the caller    *)
(* leaves in the buffer: others than zeros are given in whole blocks.      *)
Counters == {<<0, 0, 0, 0, 0, 0, 0, 0>>, <<3, 3, 3, 3, 1, 2, 0, 1>>, <<2, 3, 3, 3, 3, 3, 3, 2>>}
BrngJobs ==
  UNION {{Job("brngCTR", Msg(8), iv, <<Zeros(21)>>, DefBrngCTR(Zeros(21), Msg(8), iv)),
          Job("brngCTRX", Msg(8), iv, <<Msg(21)>>, DefBrngCTR(Msg(21), Msg(8), iv)),
          Job("brngHMAC", Msg(11), iv, <<Zeros(21)>>, DefBrngHMAC(Zeros(21), Msg(11), iv))}
         : iv \in Counters}

Start(j) ==
  CASE j.mode \in {"ECBE", "ECBD"} -> beltECBStart(j.key)
    [] j.mode \in {"CBCE", "CBCD"} -> beltCBCStart(j.key, j.iv)
    [] j.mode \in {"BDEE", "BDED"} -> beltBDEStart(j.key, j.iv)
    [] j.mode \in {"CFBE", "CFBD"} -> beltCFBStart(j.key, j.iv)
    [] j.mode = "CTR" -> beltCTRStart(j.key, j.iv)
    [] j.mode = "MAC" -> beltMACStart(j.key)
    [] j.mode = "Hash" -> beltHashStart
    [] j.mode = "HMAC" -> beltHMACStart(j.key)
    [] j.mode = "bashHash" -> bashHashStart(j.key[1])
    [] j.mode \in {"DWPE", "DWPD"} -> beltDWPStart(j.key, j.iv)
    [] j.mode \in {"CHEE", "CHED"} -> beltCHEStart(j.key, j.iv)
    [] j.mode \in {"brngCTR", "brngCTRX"} -> brngCTRStart(j.key, j.iv)
    [] j.mode = "brngHMAC" -> brngHMACStart(j.key, j.iv)

Silent(s) == [buf |-> <<>>, st |-> s]
(* Piece p of channel c.                                                   *)
StepOf(j, c, p, s) ==
  CASE j.mode = "ECBE" -> beltECBStepE(p, s)
    [] j.mode = "ECBD" -> beltECBStepD(p, s)
    [] j.mode = "CBCE" -> beltCBCStepE(p, s)
    [] j.mode = "CBCD" -> beltCBCStepD(p, s)
    [] j.mode = "BDEE" -> beltBDEStepE(p, s)
    [] j.mode = "BDED" -> beltBDEStepD(p, s)
    [] j.mode = "CFBE" -> beltCFBStepE(p, s)
    [] j.mode = "CFBD" -> beltCFBStepD(p, s)
    [] j.mode = "CTR" -> beltCTRStepE(p, s)
    [] j.mode = "MAC" -> Silent(beltMACStepA(p, s))
    [] j.mode = "Hash" -> Silent(beltHashStepH(p, s))
    [] j.mode = "HMAC" -> Silent(beltHMACStepA(p, s))
    [] j.mode = "bashHash" -> Silent(bashHashStepH(p, s))
    [] j.mode \in {"DWPE", "DWPD"} /\ c = 1 -> Silent(beltDWPStepI(p, s))
    [] <<j.mode, c>> \in {<<"DWPE", 3>>, <<"DWPD", 2>>} -> Silent(beltDWPStepA(p, s))
    [] <<j.mode, c>> = <<"DWPE", 2>> -> beltDWPStepE(p, s)
    [] <<j.mode, c>> = <<"DWPD", 3>> -> beltDWPStepD(p, s)
    [] j.mode \in {"CHEE", "CHED"} /\ c = 1 -> Silent(beltCHEStepI(p, s))
    [] <<j.mode, c>> \in {<<"CHEE", 3>>, <<"CHED", 2>>} -> Silent(beltCHEStepA(p, s))
    [] <<j.mode, c>> = <<"CHEE", 2>> -> beltCHEStepE(p, s)
    [] <<j.mode, c>> = <<"CHED", 3>> -> beltCHEStepD(p, s)
    [] j.mode \in {"brngCTR", "brngCTRX"} -> brngCTRStepR(p, s)
    [] j.mode = "brngHMAC" -> brngHMACStepR(p, s)

Tagged == {"MAC", "Hash", "HMAC", "bashHash", "DWPE", "DWPD", "CHEE", "CHED"}
TagOf(j, s) ==
  CASE j.mode = "MAC" -> beltMACStepG(s)
    [] j.mode = "Hash" -> beltHashStepG(s)
    [] j.mode = "HMAC" -> beltHMACStepG(s)
    [] j.mode = "bashHash" -> [tag |-> bashHashStepG(j.key[1] \div 32, s), st |-> s]
    [] j.mode \in {"DWPE", "DWPD"} -> beltDWPStepG(s)
    [] j.mode \in {"CHEE", "CHED"} -> beltCHEStepG(s)
Confirms(j, tag, s) ==
  CASE j.mode = "MAC" -> beltMACStepV(tag, s).ok
    [] j.mode = "Hash" -> beltHashStepV(tag, s).ok
    [] j.mode = "HMAC" -> beltHMACStepV(tag, s).ok
    [] j.mode = "bashHash" -> bashHashStepV(tag, s)
    [] j.mode \in {"DWPE", "DWPD"} -> beltDWPStepV(tag, s).ok
    [] j.mode \in {"CHEE", "CHED"} -> beltCHEStepV(tag, s).ok

(* What has been fed into a channel, and the tag of it.                    *)
Fed(c) == CutTo(job.data[c], pos[c])
Critical == IF job.mode \in {"DWPE", "CHEE"} THEN 3 ELSE 2
DefTagOf ==
  CASE job.mode = "MAC" -> DefMAC(Fed(1), K(job.key))
    [] job.mode = "Hash" -> DefHash(Fed(1))
    [] job.mode = "HMAC" -> DefHMAC(Fed(1), job.key)
    [] job.mode = "bashHash" -> DefBashHash(job.key[1], Fed(1))
    [] OTHER -> LET e == beltBlockEncr(job.iv, K(job.key))
                IN DefTag(Fed(1), Fed(Critical), K(job.key),
                          IF job.mode \in {"DWPE", "DWPD"} THEN beltBlockEncr(e, K(job.key)) ELSE e)

-----------------------------------------------------------------------------
InitJobs ==
  /\ job \in BlockJobs \cup GammaJobs \cup TagJobs \cup WrapJobs \cup BrngJobs
  /\ pos = [c \in DOMAIN job.data |-> 0]
  /\ state = Start(job)
  /\ given = <<>>

(* The lengths a piece may have when left octets are left.                 *)
Lengths(mode, left) ==
  CASE mode \in {"ECBE", "ECBD", "CBCE", "CBCD", "BDEE", "BDED"} ->
         {n \in 1 .. left : n = left \/ (n % N16 = 0 /\ left - n >= N16)}
    [] mode = "brngCTRX" -> {n \in 0 .. left : n = left \/ n % N32 = 0}
    [] OTHER -> 0 .. left
(* Critical data are authenticated when they have been encrypted, and      *)
(* decrypted when they have been authenticated; no open data after them.   *)
Complete(c) == pos[c] = Len(job.data[c])
May(c) == /\ c = 3 => Complete(1) /\ Complete(2)
          /\ c = 1 /\ Len(job.data) = 3 => pos[Critical] = 0
          /\ c = 2 /\ Critical = 2 /\ Len(job.data) = 3 => Complete(1)

Feed(c, n) ==
  /\ May(c)
  /\ pos' = [pos EXCEPT ![c] = @ + n]
  /\ \E q \in {StepOf(job, c, Piece(job.data[c], pos[c], n), state)} :
       state' = q.st /\ given' = given \o q.buf
  /\ UNCHANGED job
Ask == /\ job.mode \in Tagged
       /\ state' = TagOf(job, state).st
       /\ UNCHANGED <<job, pos, given>>

NextJobs ==
  \/ \E c \in DOMAIN job.data :
       \E n \in Lengths(job.mode, Len(job.data[c]) - pos[c]) : Feed(c, n)
  \/ Ask

-----------------------------------------------------------------------------
(* The automaton: a job is a sequence of commands ops with their data, pos *)
(* counts the octets fed into the commands that have begun.                *)
Commands ==
  {<<"absorb", <<>>>>, <<"absorb", <<7>>>>, <<"absorb", Msg(21)>>, <<"absorb", Msg(23)>>,
   <<"encr", <<5, 6>>>>, <<"encr", Msg(22)>>, <<"squeeze", Zeros(2)>>, <<"squeeze", Zeros(21)>>,
   <<"ratchet", <<>>>>, <<"key", <<1, 2>>>>, <<"ann", <<1, 2>>>>}
Beginnings == {<<"open", <<1, 2>>>>, <<"keyed", <<1, 2>>>>}
Programs == {<<b, c, d, <<"squeeze", Zeros(8)>>>> : b \in Beginnings, c \in Commands, d \in Commands}
Created(b) == IF b[1] = "open" THEN bashPrgStart(128, 2, b[2], <<>>)
              ELSE bashPrgStart(128, 2, <<>>, b[2])
BeginOf(op, d, s) ==
  CASE op = "absorb" -> bashPrgAbsorbStart(s)
    [] op = "encr" -> bashPrgEncrStart(s)
    [] op = "decr" -> bashPrgDecrStart(s)
    [] op = "squeeze" -> bashPrgSqueezeStart(s)
    [] op = "ratchet" -> bashPrgRatchet(s)
    [] op = "key" -> bashPrgRestart(<<>>, d, s)
    [] op = "ann" -> bashPrgRestart(d, <<>>, s)
MoreOf(op, d, s) ==
  CASE op = "absorb" -> Silent(bashPrgAbsorbStep(d, s))
    [] op = "encr" -> bashPrgEncrStep(d, s)
    [] op = "decr" -> bashPrgDecrStep(d, s)
    [] op = "squeeze" -> bashPrgSqueezeStep(d, s)
    [] OTHER -> Silent(s)
InOneCall(op, d, s) ==
  CASE op = "absorb" -> Silent(bashPrgAbsorb(d, s))
    [] op = "encr" -> bashPrgEncr(d, s)
    [] op = "decr" -> bashPrgDecr(d, s)
    [] op = "squeeze" -> bashPrgSqueeze(d, s)
    [] OTHER -> Silent(BeginOf(op, d, s))
Program(prog) ==
  Iter(LAMBDA q, i : After(q, InOneCall(prog[i + 2][1], prog[i + 2][2], q.st)),
       Silent(Created(prog[1])), Len(prog) - 1)
(* The other side decrypts what this one has encrypted.                    *)
OutBy(prog, i) == IF prog[i + 1][1] \in {"encr", "squeeze"} THEN Len(prog[i + 1][2]) ELSE 0
OutAt(prog, i) == Iter(LAMBDA n, j : n + OutBy(prog, j + 1), 0, i - 1)
Twin(prog, o) ==
  <<prog[1]>> \o Eager([i \in 1 .. 3 |->
     IF prog[i + 1][1] = "encr" THEN <<"decr", Piece(o, OutAt(prog, i), OutBy(prog, i))>>
     ELSE prog[i + 1]])

InitPrg ==
  /\ \E prog \in Programs :
       job = [mode |-> "prg", ops |-> prog, data |-> <<>>, want |-> Program(prog).buf]
  /\ pos = <<>>
  /\ state = Created(job.ops[1])
  /\ given = <<>>
Begun == Len(pos)
Command(i) == job.ops[i + 1]
BeginCommand ==
  /\ job.mode = "prg" /\ Begun < 3
  /\ \A i \in 1 .. Begun : pos[i] = Len(Command(i)[2])
  /\ LET c == Command(Begun + 1)
         whole == c[1] \in {"ratchet", "key", "ann"}
     IN /\ state' = BeginOf(c[1], c[2], state)
        /\ pos' = Append(pos, IF whole THEN Len(c[2]) ELSE 0)
  /\ UNCHANGED <<job, given>>
FeedCommand ==
  /\ job.mode = "prg" /\ Begun > 0
  /\ \E n \in {1, 3, 19, Len(Command(Begun)[2]) - pos[Begun]} :
       /\ n \in 1 .. Len(Command(Begun)[2]) - pos[Begun]
       /\ \E q \in {MoreOf(Command(Begun)[1], Piece(Command(Begun)[2], pos[Begun], n), state)} :
            state' = q.st /\ given' = given \o q.buf
       /\ pos' = [pos EXCEPT ![Begun] = @ + n]
  /\ UNCHANGED job

-----------------------------------------------------------------------------
(* Calls on the whole data.                                                *)
Ok(r) == r.code = "ERR_OK"
Back(enc, dec, d) == Ok(enc) /\ Ok(dec) /\ dec.dest = d
BlockRight(key, b) ==
  LET k == K(key)   v == NumOf(b)
  IN /\ beltBlockDecr(beltBlockEncr(b, k), k) = b
     /\ beltBlockEncr2(beltBlockDecr2(b, k), k) = b
     /\ beltBlockDecr3(b[1], b[2], b[3], b[4], k) = beltBlockDecr(b, k)
     /\ NumOf(beltBlockIncU32(b)) = (v + 1) % W ^ N16
     /\ \A c \in 0 .. 15 :
          /\ NumOf(beltBlockAddBitSizeU32(b, c)) = (v + B * c) % W ^ N16
          /\ NumOf(beltHalfBlockAddBitSizeW_short(<<b[1], b[2]>>, c))
               = beltHalfBlockAddBitSizeW(NumOf(<<b[1], b[2]>>), c)
     /\ beltPolyMul(b, <<2, 0, 0, 0>>) = beltBlockMulC(b)
     /\ beltPolyMul(b, Fit(key, N16)) = beltPolyMul(Fit(key, N16), b)
WideRight(key, d) ==
  LET s == beltWBLStart(key)
      e == beltWBLStepEBase(d, s)
      n == Len(d)
      f == beltWBLStepD2(Piece(e.buf, 0, n - N16), Piece(e.buf, n - N16, N16), s)
  IN /\ beltWBLStepE(d, s).buf = e.buf
     /\ beltWBLStepD(e.buf, e.st).buf = d /\ beltWBLStepDBase(e.buf, s).buf = d
     /\ f.buf1 \o f.buf2 = d
     /\ n % N16 = 0 => /\ beltWBLStepEOpt(d, s) = e
                       /\ n > 2 * N16 => beltWBLStepDOpt(e.buf, s).buf = d
                       /\ beltWBLStepR(e.buf, e.st) = beltWBLStepEBase(e.buf, e.st)
     /\ \A h \in {NoHeader, <<1, 2, 0, 3>>} :
          LET w == beltKWPWrap(d, h, key, TRUE)
          IN /\ Back(w, beltKWPUnwrap(w.dest, h, key, TRUE), d)
             /\ beltKWPUnwrap(w.dest, <<3, 3, 3, 3>>, key, TRUE)
                  = [code |-> "ERR_BAD_KEYTOKEN", dest |-> Zeros(n)]
     /\ n % N16 = 0 =>
          Back(beltSDEEncr(d, key, <<1, 2, 3, 1>>, TRUE),
               beltSDEDecr(beltSDEEncr(d, key, <<1, 2, 3, 1>>, TRUE).dest, key, <<1, 2, 3, 1>>, TRUE),
               d)
(* A half of count symbols has to find room in its half blocks and in no   *)
(* fewer of them.  belt_fmt.c:51 names one pair whose fraction is too      *)
(* large, and the code gives way for another one, which is never asked.    *)
RoomRight(mod, count, u, h) ==
  LET words == BigProduct([i \in 1 .. count |-> mod])
      room(b) == BigProduct([i \in 1 .. b * (h \div u) |-> 2 ^ u])
      b == HalfBlocks(mod, count, u, h)
  IN IF mod = 49667 /\ count = 160 THEN b = 40 /\ BigLeq(words, room(39))
     ELSE BigLeq(words, room(b)) /\ (b > 1 => ~BigLeq(words, room(b - 1)))
StringRight(key, mod, str) ==
  \A iv \in {NoHeader, <<1, 2, 3, 1>>} :
    LET e == beltFMTEncr(mod, str, key, iv, TRUE)
    IN IF Len(str) > MaxString THEN e.code = "ERR_NOT_IMPLEMENTED"
       ELSE /\ Back(e, beltFMTDecr(mod, e.dest, key, iv, TRUE), str)
            /\ \A i \in 1 .. Len(str) : e.dest[i] < mod
(* What is unwrapped is what would have been wrapped, and nothing else is  *)
(* taken.                                                                  *)
UnwrapRight(key, d, mac) ==
  \A iv \in IVs(key) :
    /\ LET u == beltDWPUnwrap(d, <<1, 3>>, mac, key, iv, TRUE)
           w == beltDWPWrap(u.dest, <<1, 3>>, key, iv, TRUE)
           p == beltDWPWrap(d, <<1, 3>>, key, iv, TRUE).dest
       IN /\ IF Ok(u) THEN w.dest = [data |-> d, mac |-> mac] ELSE u.dest = <<>>
          /\ beltDWPUnwrap(p.data, <<1, 3>>, p.mac, key, iv, TRUE).dest = d
    /\ LET u == beltCHEUnwrap(d, <<1, 3>>, mac, key, iv, TRUE)
           w == beltCHEWrap(u.dest, <<1, 3>>, key, iv, TRUE)
           p == beltCHEWrap(d, <<1, 3>>, key, iv, TRUE).dest
       IN /\ IF Ok(u) THEN w.dest = [data |-> d, mac |-> mac] ELSE u.dest = <<>>
          /\ beltCHEUnwrap(p.data, <<1, 3>>, p.mac, key, iv, TRUE).dest = d
(* High-level functions and the steps they are made of; the generator that *)
(* goes on from the synchro value it has returned repeats nothing.         *)
CallsRight(key, d) ==
  /\ \A iv \in IVs(key) :
       /\ Len(d) >= N16 =>
            /\ Back(beltECBEncr(d, key, TRUE), beltECBDecr(beltECBEncr(d, key, TRUE).dest, key, TRUE), d)
            /\ Back(beltCBCEncr(d, key, iv, TRUE),
                    beltCBCDecr(beltCBCEncr(d, key, iv, TRUE).dest, key, iv, TRUE), d)
       /\ Back(beltCFBEncr(d, key, iv, TRUE),
               beltCFBDecr(beltCFBEncr(d, key, iv, TRUE).dest, key, iv, TRUE), d)
       /\ Back(beltCTR(d, key, iv, TRUE), beltCTR(beltCTR(d, key, iv, TRUE).dest, key, iv, TRUE), d)
       /\ Whole(d) => Back(beltBDEEncr(d, key, iv, TRUE),
                           beltBDEDecr(beltBDEEncr(d, key, iv, TRUE).dest, key, iv, TRUE), d)
  /\ Len(d) < N16 => beltECBEncr(d, key, TRUE).code = "ERR_BAD_INPUT"
  /\ beltMAC(d, key, TRUE).dest = DefMAC(d, K(key))
  /\ beltHash(d, TRUE).dest = DefHash(d) /\ beltHMAC(d, key, TRUE).dest = DefHMAC(d, key)
  /\ beltPBKDF2(key, 2, d, TRUE).dest
       = LET u == DefHMAC(d \o <<1>>, key) IN MemXor(u, DefHMAC(u, key))
  /\ \A m \in KeyLens :
       (m <= Len(key)) = Ok(beltKRP(m, key, <<1, 2, 0>>, <<1, 2, 3, 1>>, TRUE))
  /\ \A iv \in Counters :
       LET g == brngCTRRand(Zeros(Len(d)), Msg(8), iv, TRUE).dest
       IN NumOf(g.iv) = NumOf(iv) + BlocksIn(d, N32)
  /\ brngHMACRand(d, key, Msg(5), TRUE).dest = Fit(DefBrngHMAC(d, key, Msg(5)), Len(d))
  /\ \A l \in {128, 256} :
       bashHash(l, d, TRUE).hash = DefBashHash(l, d)
  /\ LET s == Eager([i \in 0 .. Size - 1 |-> (i * Len(d) + key[(i % 4) + 1] * 5) % 16])
     IN bashF_32(s) = bashF(s)

Areas == {"block", "wide", "string", "room", "unwrap", "call"}
BlockOf(v) == OctetsOf(v, N16)
Formats == {<<2, 64>>, <<2, 65>>, <<3, 40>>, <<3, 41>>, <<10, 19>>, <<10, 20>>, <<256, 8>>,
            <<257, 8>>, <<49667, 40>>, <<49667, 160>>, <<49667, 161>>, <<65535, 4>>,
            <<65535, 5>>, <<65536, 4>>, <<65536, 5>>}
Arguments(area) ==
  CASE area = "block" -> {<<k, BlockOf(v)>> : k \in Keys, v \in 0 .. 255}
    [] area = "wide" -> {<<k, Msg(n)>> : k \in Keys, n \in 8 .. 25}
    [] area = "string" -> UNION {{<<k, <<m>>, [i \in 1 .. n |-> (i * i + n) % m]>> :
                                  k \in Keys, m \in {2, 3, 10, 15, 16}} : n \in {2, 3, 4, 5, 6, 13}}
    [] area = "room" -> {<<2 * B, B * HalfLen>>} \X {<<m, n>> : m \in 2 .. U16, n \in 1 .. 7}
                        \cup {<<16, 64>>} \X Formats
    [] area = "unwrap" -> {<<k, Msg(n), <<a, b>>>> : k \in Keys, n \in 0 .. 6, a \in Octet, b \in Octet}
    [] area = "call" -> {<<k, Msg(n)>> : k \in Keys, n \in 0 .. 17}
InitWhole ==
  /\ \E area \in Areas : job = [mode |-> area, data |-> <<>>, args |-> <<>>]
  /\ pos = <<>> /\ state = <<>> /\ given = <<>>
Call ==
  /\ job.mode \in Areas /\ job.args = <<>>
  /\ \E x \in Arguments(job.mode) : job' = [job EXCEPT !.args = x]
  /\ UNCHANGED <<pos, state, given>>

-----------------------------------------------------------------------------
Init == InitJobs \/ InitPrg \/ InitWhole
Next == NextJobs \/ BeginCommand \/ FeedCommand \/ Call
Spec == Init /\ [][Next]_vars

GivenOut == IF job.data = <<>> THEN Len(given)
            ELSE IF job.mode \in {"MAC", "Hash", "HMAC", "bashHash"} THEN 0
            ELSE IF Len(job.data) = 1 THEN pos[1] ELSE pos[5 - Critical]
OneStream == job.mode \notin Areas => given = CutTo(job.want, GivenOut)
TagOfAllFed ==
  job.mode \in Tagged => With(TagOf(job, state).tag, LAMBDA t : t = DefTagOf /\ Confirms(job, t, state))
(* What has been given out is the beginning of what the mode gives out on  *)
(* the whole data, in whatever pieces they came and whatever tags were     *)
(* asked for (reserved octets of gamma, blocks that wait for more data).   *)
(* A tag asked for at any moment is the tag of the data fed so far, and is *)
(* accepted: asking pads the block in place and must not disturb the rest. *)
PiecesMakeOneStream == OneStream /\ TagOfAllFed

(* Two automata with the same key that run the same commands stay in step: *)
(* the one that decrypts gets the data and the same state, whatever the    *)
(* pieces were; and programs that differ in a command, in its data or in   *)
(* where data were divided between commands end in different outputs.      *)
LastOutput(prog) == With(Program(prog).buf, LAMBDA b : Piece(b, Len(b) - 8, 8))
Distinct == Cardinality({LastOutput(p) : p \in Programs}) = Cardinality(Programs)
SameEnd(twin, plain) ==
  /\ state = plain.st /\ twin.st = plain.st
  /\ twin.buf = Concat(3, LAMBDA i :
       CASE Command(i)[1] = "encr" -> Command(i)[2]
         [] Command(i)[1] = "squeeze" -> Piece(given, OutAt(job.ops, i), OutBy(job.ops, i))
         [] OTHER -> <<>>)
AutomatonInStep ==
  job.mode = "prg" /\ Begun = 3 /\ pos[3] = 8 =>
    SameEnd(Program(Twin(job.ops, given)), Program(job.ops)) /\ Distinct

CallRight(area, x) ==
  CASE area = "block" -> BlockRight(x[1], x[2])
    [] area = "wide" -> WideRight(x[1], x[2])
    [] area = "string" -> StringRight(x[1], x[2][1], x[3])
    [] area = "room" -> RoomRight(x[2][1], x[2][2], x[1][1], x[1][2])
    [] area = "unwrap" -> UnwrapRight(x[1], x[2], x[3])
    [] area = "call" -> CallsRight(x[1], x[2])

(* The functions that take all the data at once: decryption undoes         *)
(* encryption on every key, length and counter at its end, the optimised   *)
(* wide block is the plain one, only what was wrapped is unwrapped, and    *)
(* strings of a format find room in as many half blocks as they need.      *)
WholeDataRight == [][job.mode \in Areas => \A x \in {job'.args} : CallRight(job.mode, x)]_vars
=============================================================================
