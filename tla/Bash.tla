-------------------------------- MODULE Bash --------------------------------
(***************************************************************************)
(* The sponge of bash: the permutation bashF in its 64-bit and its 32-bit  *)
(* forms, the hash and the programmable automaton.  A lane u64 has four    *)
(* bits, a half of it u32 two; eight octets of the state are one lane, so  *)
(* the state of 192 octets is 24 lanes and lengths are counted in lanes.   *)
(***************************************************************************)
EXTENDS Words, Sequences

LaneBits == 4
Lane == 0 .. 2 ^ LaneBits - 1
LaneSet(x) == {i \in 0 .. LaneBits - 1 : Bit(x, i) = 1}
LaneOf(T) == CHOOSE v \in Lane : LaneSet(v) = T
LaneAndTable ==
  Eager([x \in Lane |-> Eager([y \in Lane |-> LaneOf(LaneSet(x) \cap LaneSet(y))])])
LAnd(x, y) == LaneAndTable[x][y]
LOr(x, y) == x + y - LAnd(x, y)
LXor(x, y) == x + y - 2 * LAnd(x, y)
LNot(x) == 2 ^ LaneBits - 1 - x
Turn(x, m, bits) == LET k == m % bits IN ((x * 2 ^ k) % 2 ^ bits) + (x \div 2 ^ (bits - k))
u64RotHi(x, m) == Turn(x, m, LaneBits)
u32RotHi(x, m) == Turn(x, m, LaneBits \div 2)

-----------------------------------------------------------------------------
(* The permutation.  Places of the words move instead of the words: p(x)   *)
(* is the place in a round, of period six; six of the 24 rounds are kept.  *)
BashRounds == 6
C(i) == (7 * i + 3) % 2 ^ LaneBits
P1(x) == IF x < 8 THEN 8 + ((x + 2 * (x % 2) + 7) % 8)
         ELSE IF x < 16 THEN 8 + (IF x % 2 = 0 THEN x + 1 ELSE x - 1) ELSE (5 * x + 6) % 8
P3(x) == 8 * (x \div 8) + (((x % 8) + 4) % 8)
P(k, x) == CASE k = 0 -> x
             [] k = 1 -> P1(x)
             [] k = 2 -> P1(P1(x))
             [] k = 3 -> P3(x)
             [] k = 4 -> P1(P3(x))
             [] k = 5 -> P1(P1(P3(x)))
Turns == << <<8, 53, 14, 1>>, <<56, 51, 34, 7>>, <<8, 37, 46, 49>>, <<56, 3, 2, 23>>,
            <<8, 21, 14, 33>>, <<56, 19, 34, 39>>, <<8, 5, 46, 17>>, <<56, 35, 2, 55>> >>

(* m1, n1, m2, n2 are the turns of the column.                             *)
Nonlinear(v0, v1, v2) ==
  <<LXor(v0, LOr(LNot(v2), v1)), LXor(v1, LOr(v0, v2)), LXor(v2, LAnd(v0, v1))>>
bashS(w0, w1, w2, m) ==
  With(LXor(w0, LXor(w1, w2)), LAMBDA v0 :
    With(LXor(w1, u64RotHi(v0, m[2])), LAMBDA t1 :
      Nonlinear(v0, LXor(t1, u64RotHi(w0, m[1])),
                LXor(w2, LXor(u64RotHi(w2, m[3]), u64RotHi(t1, m[4]))))))
(* The words at places a, b and c of the state are replaced by those of w. *)
Column(t, a, b, c, w) == [t EXCEPT ![a] = w[1], ![b] = w[2], ![c] = w[3]]
SColumn(t, a, b, c, m) == Column(t, a, b, c, Eager(bashS(t[a], t[b], t[c], m)))
bashR(s, p, pNext, i) ==
  [Iter(LAMBDA t, j : SColumn(t, P(p, j), P(p, j + 8), P(p, j + 16), Turns[j + 1]), s, 8)
   EXCEPT ![P(pNext, 23)] = LXor(@, C(i))]
bashF0(s) == Iter(LAMBDA t, r : bashR(t, r % 6, (r + 1) % 6, r + 1), s, BashRounds)

(* The 32-bit form: even and odd bits of a lane apart, the state by rows.  *)
EvenOdd(x) == <<Bit(x, 0) + 2 * Bit(x, 2), Bit(x, 1) + 2 * Bit(x, 3)>>
Interleaved(w) == Bit(w[1], 0) + 2 * Bit(w[2], 0) + 4 * Bit(w[1], 1) + 8 * Bit(w[2], 1)
u32x2RotHi(w, m) ==
  CASE m % 2 = 0 -> <<u32RotHi(w[1], m \div 2), u32RotHi(w[2], m \div 2)>>
    [] m % 2 = 1 /\ m > 1 -> <<u32RotHi(w[2], 1 + (m \div 2)), u32RotHi(w[1], m \div 2)>>
    [] OTHER -> <<u32RotHi(w[2], 1), w[1]>>
XorPair(a, b) == <<LXor(a[1], b[1]), LXor(a[2], b[2])>>
OrPair(a, b) == <<LOr(a[1], b[1]), LOr(a[2], b[2])>>
AndPair(a, b) == <<LAnd(a[1], b[1]), LAnd(a[2], b[2])>>
NotPair(a) == <<3 - a[1], 3 - a[2]>>
NonlinearPair(v0, v1, v2) ==
  <<XorPair(v0, OrPair(NotPair(v2), v1)), XorPair(v1, OrPair(v0, v2)), XorPair(v2, AndPair(v0, v1))>>
bashS_32(w0, w1, w2, m) ==
  With(XorPair(w0, XorPair(w1, w2)), LAMBDA v0 :
    With(XorPair(u32x2RotHi(v0, m[2]), w1), LAMBDA t1 :
      NonlinearPair(v0, XorPair(t1, u32x2RotHi(w0, m[1])),
                    XorPair(w2, XorPair(u32x2RotHi(w2, m[3]), u32x2RotHi(t1, m[4]))))))
Up(i) == (i + 1) % 3
p1(i, j) == CASE i = 0 -> (j + 2 * (j % 2) + 7) % 8
              [] i = 1 -> (IF j % 2 = 0 THEN j + 1 ELSE j - 1)
              [] OTHER -> (5 * j + 6) % 8
p3(j) == ((j % 8) + 4) % 8
Cell(k, i, j) ==
  CASE k = 0 -> <<i, j>>
    [] k = 1 -> <<Up(i), p1(i, j)>>
    [] k = 2 -> <<Up(Up(i)), p1(Up(i), p1(i, j))>>
    [] k = 3 -> <<i, p3(j)>>
    [] k = 4 -> <<Up(i), p3(p1(i, j))>>
    [] k = 5 -> <<Up(Up(i)), p3(p1(Up(i), p1(i, j)))>>
SColumn_32(t, a, b, c, m) == Column(t, a, b, c, Eager(bashS_32(t[a], t[b], t[c], m)))
bashR_32(s, k, i) ==
  [Iter(LAMBDA t, j : SColumn_32(t, Cell(k, 0, j), Cell(k, 1, j), Cell(k, 2, j), Turns[j + 1]), s, 8)
   EXCEPT ![Cell((k + 1) % 6, 2, 7)] = XorPair(@, EvenOdd(C(i)))]
bashF_32(s) ==
  LET r == Iter(LAMBDA t, k : bashR_32(t, k % 6, k + 1),
                Eager([c \in (0 .. 2) \X (0 .. 7) |-> EvenOdd(s[8 * c[1] + c[2]])]), BashRounds)
  IN Eager([x \in 0 .. 23 |-> Interleaved(r[<<x \div 8, x % 8>>])])
bashF(s) == bashF0(s)

-----------------------------------------------------------------------------
(* Lanes of a state: written and mixed in at place at, read.               *)
Size == 24
Written(s, at, d) ==
  Eager([i \in 0 .. Size - 1 |-> IF at <= i /\ i < at + Len(d) THEN d[i - at + 1] ELSE s[i]])
Mixed(s, at, d) ==
  Eager([i \in 0 .. Size - 1 |-> IF at <= i /\ i < at + Len(d) THEN LXor(s[i], d[i - at + 1])
                                 ELSE s[i]])
Read(s, at, n) == Eager([i \in 1 .. n |-> s[at + i - 1]])
Take(d, n) == IF n = 0 THEN <<>> ELSE SubSeq(d, 1, n)
Blank == Eager([i \in 0 .. Size - 1 |-> 0])

(* The frame of every step on data in pieces: Use(at, p, st) processes     *)
(* piece p at place at, the permutation follows a full buffer.             *)
Full(h) == [h EXCEPT !.st.s = bashF(@)]
After(h, u) == [buf |-> h.buf \o u.buf, st |-> u.st]
Rest(buf, h, size, Use(_, _, _)) ==
  With(Iter(LAMBDA q, j : After(q, Full(Use(0, SubSeq(buf, size * j + 1, size * (j + 1)), q.st))),
            h, Len(buf) \div size), LAMBDA r :
    [After(r, Use(0, SubSeq(buf, Len(buf) - (Len(buf) % size) + 1, Len(buf)), r.st))
     EXCEPT !.st.pos = Len(buf) % size])
Sponge(buf, st, Use(_, _, _)) ==
  With(Use(st.pos, Take(buf, MinOf(st.buf_len - st.pos, Len(buf))), st), LAMBDA head :
    IF Len(buf) < st.buf_len - st.pos THEN [head EXCEPT !.st.pos = @ + Len(buf)]
    ELSE Rest(SubSeq(buf, st.buf_len - st.pos + 1, Len(buf)), Full(head), st.buf_len, Use))

(* Hash.  The octet 0x40 after the data is here 4.                         *)
bashHashStart(l) == [s |-> [Blank EXCEPT ![Size - 1] = (l \div 64) % 2 ^ LaneBits],
                     buf_len |-> Size - (l \div 16), pos |-> 0]
bashHashStepH(buf, st) ==
  Sponge(buf, st, LAMBDA at, p, q : [buf |-> <<>>, st |-> [q EXCEPT !.s = Written(@, at, p)]]).st
bashHashStepG_internal(st) ==
  bashF(Written(st.s, st.pos,
                Eager([i \in 1 .. st.buf_len - st.pos |-> IF i = 1 THEN 4 ELSE 0])))
bashHashStepG(n, st) == Read(bashHashStepG_internal(st), 0, n)
bashHashStepV(hash, st) == bashHashStepG(Len(hash), st) = hash
bashHash(l, src, mem) ==
  CASE l = 0 \/ l % 16 # 0 \/ l > 256 -> [code |-> "ERR_BAD_PARAMS"]
    [] ~mem -> [code |-> "ERR_OUTOFMEMORY"]
    [] OTHER -> [code |-> "ERR_OK",
                 hash |-> bashHashStepG(l \div 32, bashHashStepH(src, bashHashStart(l)))]

-----------------------------------------------------------------------------
(* Automaton.  The codes of commands are 1, 5, 9, 13 and 17, here 1 to 5;  *)
(* 0x80 is 8.  A key shortens the buffer.                                  *)
BASH_PRG_NULL == 1
BASH_PRG_KEY == 2
BASH_PRG_DATA == 3
BASH_PRG_TEXT == 4
BASH_PRG_OUT == 5
KeyBuf(l, d) == Size - ((l * (2 + d)) \div 128)
OpenBuf(l, d) == Size - ((l * d) \div 32)
bashPrgIsKeymode(st) == 128 * (Size - st.buf_len) = st.l * (2 + st.d)
(* Faulty variant: the code of the command is not mixed in.                *)
bashPrgCommit_variant(code, st) ==
  [st EXCEPT !.s = bashF(Mixed(@, st.buf_len, <<8>>)), !.pos = 0]
bashPrgCommit(code, st) ==
  [st EXCEPT !.s = bashF(Mixed(Mixed(@, st.pos, <<code>>), st.buf_len, <<8>>)), !.pos = 0]
Header(ann, key) == (Len(ann) * 4 + Len(key)) % 2 ^ LaneBits
bashPrgStart(l, d, ann, key) ==
  LET data == <<Header(ann, key)>> \o ann \o key
  IN [l |-> l, d |-> d, pos |-> Len(data),
      s |-> [Written(Blank, 0, data) EXCEPT ![Size - 1] = ((l \div 64) + d) % 2 ^ LaneBits],
      buf_len |-> IF key # <<>> THEN KeyBuf(l, d) ELSE OpenBuf(l, d)]
bashPrgRestart(ann, key, st) ==
  With(<<Header(ann, key)>> \o ann \o key, LAMBDA data :
    [(IF key # <<>> THEN [bashPrgCommit(BASH_PRG_KEY, st) EXCEPT !.buf_len = KeyBuf(st.l, st.d)]
      ELSE bashPrgCommit(BASH_PRG_NULL, st))
     EXCEPT !.s = Mixed(@, 0, data), !.pos = Len(data)])
bashPrgAbsorbStart(st) == bashPrgCommit(BASH_PRG_DATA, st)
bashPrgAbsorbStep(buf, st) ==
  Sponge(buf, st, LAMBDA at, p, q : [buf |-> <<>>, st |-> [q EXCEPT !.s = Mixed(@, at, p)]]).st
bashPrgSqueezeStart(st) == bashPrgCommit(BASH_PRG_OUT, st)
bashPrgSqueezeStep(buf, st) ==
  Sponge(buf, st, LAMBDA at, p, q : [buf |-> Read(q.s, at, Len(p)), st |-> q])
bashPrgEncrStart(st) == bashPrgCommit(BASH_PRG_TEXT, st)
bashPrgEncrStep(buf, st) ==
  Sponge(buf, st, LAMBDA at, p, q :
    LET s == Mixed(q.s, at, p) IN [buf |-> Read(s, at, Len(p)), st |-> [q EXCEPT !.s = s]])
bashPrgDecrStart(st) == bashPrgCommit(BASH_PRG_TEXT, st)
bashPrgDecrStep(buf, st) ==
  Sponge(buf, st, LAMBDA at, p, q :
    LET d == Eager([i \in 1 .. Len(p) |-> LXor(p[i], q.s[at + i - 1])])
    IN [buf |-> d, st |-> [q EXCEPT !.s = Mixed(@, at, d)]])
bashPrgRatchet(st) ==
  [bashPrgCommit(BASH_PRG_NULL, st)
   EXCEPT !.s = Eager([i \in 0 .. Size - 1 |-> LXor(@[i], st.s[i])])]
bashPrgAbsorb(buf, st) == bashPrgAbsorbStep(buf, bashPrgAbsorbStart(st))
bashPrgSqueeze(buf, st) == bashPrgSqueezeStep(buf, bashPrgSqueezeStart(st))
bashPrgEncr(buf, st) == bashPrgEncrStep(buf, bashPrgEncrStart(st))
bashPrgDecr(buf, st) == bashPrgDecrStep(buf, bashPrgDecrStart(st))
=============================================================================
