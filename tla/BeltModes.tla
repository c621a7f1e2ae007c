------------------------------ MODULE BeltModes -----------------------------
(***************************************************************************)
(* The block cipher belt and the arithmetic of its blocks (belt_block.c,   *)
(* belt_lcl.c, belt_compr.c, belt_krp.c) on small registers: a register    *)
(* u32 is one octet of B bits, a block is 4 of them, a key 8, and a word   *)
(* of the processor is half of a block.  The permutation H and the tables  *)
(* made of it are data: G5, G13 and G21 are here three other functions.    *)
(***************************************************************************)
EXTENDS Words, SequencesExt

N16 == 4               \* octets of a block
N32 == 8               \* octets of two blocks
Octet == Word
Block == [1 .. N16 -> Octet]

(* Octets in memory: count octets at offset lo, and b with piece p written *)
(* at offset lo.                                                           *)
Piece(b, lo, count) == SubSeq(b, lo + 1, lo + count)
Put(b, lo, p) ==
  Eager([i \in 1 .. Len(b) |-> IF lo < i /\ i <= lo + Len(p) THEN p[i - lo] ELSE b[i]])
Zeros(n) == Eager([i \in 1 .. n |-> 0])
Fit(b, n) == IF n = 0 THEN <<>> ELSE SubSeq(b, 1, n)
MemXor(a, b) == Eager([i \in 1 .. Len(b) |-> Xor(a[i], b[i])])
XorAt(b, lo, p) == Put(b, lo, MemXor(Piece(b, lo, Len(p)), p))
NumOf(b) == FoldLeft(LAMBDA v, o : v * W + o, 0, Reverse(b))
OctetsOf(v, n) == Eager([i \in 1 .. n |-> (v \div W ^ (i - 1)) % W])

(* The string H of the standard as beltH() gives it out, from offset lo.   *)
H(i) == (i * i + (i \div 3) + 1) % W
beltH(lo, count) == Eager([i \in 1 .. count |-> H(lo + i - 1)])

-----------------------------------------------------------------------------
(* Cipher.                                                                 *)
G5(x) == (3 * x + 1) % W
G13(x) == (x * x + x + 2) % W
G21(x) == Xor(x, (x \div 2) + 2)

beltKeyExpand2(key) ==
  CASE Len(key) = 4 -> key \o key
    [] Len(key) = 6 -> key \o <<Xor(Xor(key[1], key[2]), key[3]),
                                Xor(Xor(key[4], key[5]), key[6])>>
    [] OTHER -> key
(* beltKeyExpand() does the same in place, on octets.                      *)
beltKeyExpand(key) == beltKeyExpand2(key)

subkey_e(K, i, j) == K[((7 * i - 7 + j) % 8) + 1]
subkey_d(K, i, j) == K[((7 * i - 1 - j) % 8) + 1]

(* One round on the registers t named by the order p = <<a, b, c, d>>.     *)
RoundEnd(t, p, a, b, c, d, k(_)) ==
  Eager([t EXCEPT ![p[1]] = a, ![p[2]] = Xor(b, G21((a + k(5)) % W)),
                  ![p[3]] = Xor(c, G5((d + k(6)) % W)), ![p[4]] = d])
RoundMiddle(t, p, i, a, b, c, d, k(_)) ==
  With((b + Xor(G21((c + k(3)) % W), i % W)) % W, LAMBDA b2 :
    With((c - b2) % W, LAMBDA c3 :
      RoundEnd(t, p, a, b2, c3, (d + G13((c3 + k(4)) % W)) % W, k)))
R(t, p, i, k(_)) ==
  With(Xor(t[p[2]], G5((t[p[1]] + k(0)) % W)), LAMBDA b1 :
    RoundMiddle(t, p, i, (t[p[1]] - G13((b1 + k(2)) % W)) % W, b1,
                (Xor(t[p[3]], G21((t[p[4]] + k(1)) % W)) + b1) % W, t[p[4]], k))

Swap(t, i, j) == Eager([t EXCEPT ![i] = t[j], ![j] = t[i]])
OrdersE == <<<<1, 2, 3, 4>>, <<2, 4, 1, 3>>, <<4, 3, 2, 1>>, <<3, 1, 4, 2>>>>
OrdersD == <<<<1, 2, 3, 4>>, <<3, 1, 4, 2>>, <<4, 3, 2, 1>>, <<2, 4, 1, 3>>>>

RoundsE(t, K) ==
  Iter(LAMBDA s, i : R(s, OrdersE[(i % 4) + 1], i + 1, LAMBDA j : subkey_e(K, i + 1, j)), t, 8)
E(t, K) == Swap(Swap(Swap(RoundsE(t, K), 1, 2), 3, 4), 2, 3)
RoundsD(t, K) ==
  Iter(LAMBDA s, i : R(s, OrdersD[(i % 4) + 1], 8 - i, LAMBDA j : subkey_d(K, 8 - i, j)), t, 8)
D(t, K) == Swap(Swap(Swap(RoundsD(t, K), 1, 2), 3, 4), 1, 4)

(* Three functions of each name: on octets, on registers, on four places.  *)
beltBlockEncr(block, key) == E(block, key)
beltBlockEncr2(block, key) == E(block, key)
beltBlockEncr3(a, b, c, d, key) == E(<<a, b, c, d>>, key)
beltBlockDecr(block, key) == D(block, key)
beltBlockDecr2(block, key) == D(block, key)
beltBlockDecr3(a, b, c, d, key) == D(<<a, b, c, d>>, key)

-----------------------------------------------------------------------------
(* Counters: the sum and the carry of a register.  A count of octets takes *)
(* two registers, its length in bits is the count shifted by one place.    *)
Sum(x, y) == <<(x + y) % W, IF x + y >= W THEN 1 ELSE 0>>

beltBlockIncU32(b) ==
  LET s1 == Sum(b[1], 1)
      s2 == IF s1[2] = 1 THEN Sum(b[2], 1) ELSE <<b[2], 0>>
      s3 == IF s2[2] = 1 THEN Sum(b[3], 1) ELSE <<b[3], 0>>
      s4 == IF s3[2] = 1 THEN Sum(b[4], 1) ELSE <<b[4], 0>>
  IN <<s1[1], s2[1], s3[1], s4[1]>>

(* When a register overflows by its carry it is 0 and takes t as it is.    *)
CarryInto(x, carry, t) ==
  LET s == Sum(x, carry) IN IF s[2] = 1 THEN <<t % W, 1>> ELSE Sum(s[1], t % W)
beltBlockAddBitSizeU32(b, count) ==
  LET t == count \div 2 ^ (B - 1)
      s1 == Sum(b[1], Shl(count, 1))
      s2 == CarryInto(b[2], s1[2], t)
      s3 == CarryInto(b[3], s2[2], t \div W)
  IN <<s1[1], s2[1], s3[1], (b[4] + s3[2] + (t \div W ^ 2)) % W>>

(* A half block as one word, and as two when a word is as short as u32.    *)
HalfBlock == 0 .. W ^ 2 - 1
beltHalfBlockAddBitSizeW(half, count) == (half + ((count * 2) % W ^ 2)) % W ^ 2
beltHalfBlockAddBitSizeW_short(h, count) ==
  LET s1 == Sum(h[1], Shl(count, 1))
  IN <<s1[1], (h[2] + s1[2] + (count \div 2 ^ (B - 1))) % W>>

(* Multiplication by x modulo x^8 + x + 1, and of two polynomials: Horner's *)
(* rule over the bits of a.                                                *)
beltBlockMulC(b) ==
  LET t == IF b[4] >= W \div 2 THEN 3 ELSE 0
      up(i) == Xor(Shl(b[i], 1), b[i - 1] \div 2 ^ (B - 1))
  IN <<Xor(Shl(b[1], 1), t), up(2), up(3), up(4)>>
BitAt(a, i) == Bit(a[(i \div B) + 1], i % B)
beltPolyMul(a, b) ==
  Iter(LAMBDA c, k : With(beltBlockMulC(c), LAMBDA d :
                       IF BitAt(a, N16 * B - 1 - k) = 1 THEN MemXor(d, b) ELSE d),
       Zeros(N16), N16 * B)

-----------------------------------------------------------------------------
(* Compression of X of two blocks into h of two blocks, without and with   *)
(* the sum s, and keys made of a key.                                      *)
beltBlockNeg(b) == Eager([i \in 1 .. N16 |-> Not(b[i])])
EncrXor(x, key) == MemXor(beltBlockEncr2(x, key), x)
SumOf(h, X) == EncrXor(MemXor(Piece(h, 0, N16), Piece(h, N16, N16)), X)
beltCompr(h, X) ==
  With(SumOf(h, X), LAMBDA u :
    EncrXor(Piece(X, 0, N16), u \o Piece(h, N16, N16))
    \o EncrXor(Piece(X, N16, N16), beltBlockNeg(u) \o Piece(h, 0, N16)))
beltCompr2(s, h, X) == [s |-> MemXor(s, SumOf(h, X)), h |-> beltCompr(h, X)]

KeyLens == {4, 6, 8}
beltKRPStart(key, level) == [key |-> beltKeyExpand2(key), len |-> Len(key), level |-> level]
beltKRPStepG(m, header, st) ==
  Fit(beltCompr(st.key, beltH(4 * (st.len - 4) + 2 * (m - 4), 1) \o st.level \o header), m)
beltKRP(m, src, level, header, mem) ==
  CASE m > Len(src) \/ m \notin KeyLens \/ Len(src) \notin KeyLens -> [code |-> "ERR_BAD_INPUT"]
    [] ~mem -> [code |-> "ERR_OUTOFMEMORY"]
    [] OTHER -> [code |-> "ERR_OK", dest |-> beltKRPStepG(m, header, beltKRPStart(src, level))]

-----------------------------------------------------------------------------
(***************************************************************************)
(* The encryption modes of belt with a running state: ECB, CBC, CFB, CTR   *)
(* and BDE.  A step takes the buffer and the state and returns both:       *)
(* [buf, st].  High-level functions take the whole data; mem tells whether *)
(* blobCreate() finds memory for the state.                                *)
(***************************************************************************)
(* The steps over the full blocks of a buffer: Step takes a block and the  *)
(* state.                                                                  *)
Blocks(buf, n, st, Step(_, _)) ==
  Iter(LAMBDA r, j : LET q == Step(Piece(r.buf, N16 * j, N16), r.st)
                     IN [buf |-> Put(r.buf, N16 * j, q.buf), st |-> q.st],
       [buf |-> buf, st |-> st], n)

(* The frame of a high-level function: checks, memory, work.               *)
HighLevel(ok, mem, dest) ==
  CASE ~ok -> [code |-> "ERR_BAD_INPUT", dest |-> <<>>]
    [] ok /\ ~mem -> [code |-> "ERR_OUTOFMEMORY", dest |-> <<>>]
    [] OTHER -> [code |-> "ERR_OK", dest |-> dest]
KeyOk(key) == Len(key) \in KeyLens

-----------------------------------------------------------------------------
(* ECB.  An incomplete last block steals octets of the one before it: the  *)
(* octets change places and that block is processed again.                 *)
beltECBStart(key) == [key |-> beltKeyExpand2(key)]
ECBStep(buf, st, F(_, _)) ==
  LET n == Len(buf) \div N16
      rest == Len(buf) % N16
      last == N16 * (n - 1)
      all == Blocks(buf, n, st, LAMBDA b, s : [buf |-> F(b, s.key), st |-> s]).buf
      swapped == Put(Put(all, last, Piece(all, N16 * n, rest)), N16 * n, Piece(all, last, rest))
  IN [st |-> st,
      buf |-> IF rest = 0 THEN all
              ELSE Put(swapped, last, F(Piece(swapped, last, N16), st.key))]
beltECBStepE(buf, st) == ECBStep(buf, st, beltBlockEncr)
beltECBStepD(buf, st) == ECBStep(buf, st, beltBlockDecr)
beltECBEncr(src, key, mem) ==
  HighLevel(Len(src) >= N16 /\ KeyOk(key), mem, beltECBStepE(src, beltECBStart(key)).buf)
beltECBDecr(src, key, mem) ==
  HighLevel(Len(src) >= N16 /\ KeyOk(key), mem, beltECBStepD(src, beltECBStart(key)).buf)

(* CBC.  Decryption stops before the last two blocks when the last one is  *)
(* incomplete.                                                             *)
beltCBCStart(key, iv) == [key |-> beltKeyExpand2(key), block |-> iv]
beltCBCStepE(buf, st) ==
  LET n == Len(buf) \div N16
      rest == Len(buf) % N16
      last == N16 * (n - 1)
      swapped(all) == Put(Put(all, last, Piece(all, N16 * n, rest)), N16 * n, Piece(all, last, rest))
      mixed(r) == XorAt(swapped(r.buf), last, Piece(r.st.block, 0, rest))
      Chained(b, s) == With(beltBlockEncr(MemXor(s.block, b), s.key), LAMBDA c :
                             [buf |-> c, st |-> [s EXCEPT !.block = c]])
  IN With(Blocks(buf, n, st, Chained), LAMBDA r :
       IF rest = 0 THEN r
       ELSE [r EXCEPT !.buf = Put(mixed(r), last, beltBlockEncr(Piece(mixed(r), last, N16), st.key))])
beltCBCStepD(buf, st) ==
  LET rest == Len(buf) % N16
      n == (Len(buf) \div N16) - (IF rest = 0 THEN 0 ELSE 1)
      at == N16 * n
      r == Blocks(buf, n, st, LAMBDA b, s :
             [buf |-> MemXor(beltBlockDecr(b, s.key), s.block), st |-> [s EXCEPT !.block = b]])
      head == beltBlockDecr(Piece(r.buf, at, N16), st.key)
      tail == Piece(r.buf, at + N16, rest)
      joined == tail \o Piece(head, rest, N16 - rest)
      short == MemXor(Piece(head, 0, rest), tail)
  IN IF rest = 0 THEN r
     ELSE [r EXCEPT !.buf = Put(Put(@, at, MemXor(beltBlockDecr(joined, st.key), r.st.block)),
                                at + N16, short)]
beltCBCEncr(src, key, iv, mem) ==
  HighLevel(Len(src) >= N16 /\ KeyOk(key), mem, beltCBCStepE(src, beltCBCStart(key, iv)).buf)
beltCBCDecr(src, key, iv, mem) ==
  HighLevel(Len(src) >= N16 /\ KeyOk(key), mem, beltCBCStepD(src, beltCBCStart(key, iv)).buf)

-----------------------------------------------------------------------------
(* Faulty variant: an exhausted block is kept as a full one.               *)
Reserved_variant(size, count) == size - (count % size)
(* What is left of the last block of gamma after count octets.             *)
Reserved(size, count) == (size - (count % size)) % size
(* Stream modes keep the unused octets of the last block of gamma: the     *)
(* last st.reserved octets of a block of size octets.  Use(lo, p, s) works *)
(* on piece p with the octets at offset lo, Fresh(s, p) makes the next     *)
(* block for piece p.                                                      *)
Gamma(buf, st, size, Use(_, _, _), Fresh(_, _)) ==
  LET count == Len(buf)
      head == MinOf(st.reserved, count)
      h == Use(size - st.reserved, Fit(buf, head), st)
      rest == Piece(buf, head, count - head)
      n == (Len(rest) + size - 1) \div size
      r == Iter(LAMBDA q, j :
                  With(Piece(rest, size * j, MinOf(size, Len(rest) - size * j)), LAMBDA p :
                    With(Use(0, p, Fresh(q.st, p)), LAMBDA u : [buf |-> q.buf \o u.buf, st |-> u.st])),
                [buf |-> <<>>, st |-> h.st], n)
  IN IF st.reserved >= count /\ st.reserved > 0
       THEN [buf |-> h.buf, st |-> [h.st EXCEPT !.reserved = @ - count]]
       ELSE [buf |-> h.buf \o r.buf,
             st |-> [r.st EXCEPT !.reserved = Reserved(size, Len(rest))]]

(* CFB: the block of gamma takes in the ciphertext.                        *)
beltCFBStart(key, iv) == [key |-> beltKeyExpand2(key), block |-> iv, reserved |-> 0]
CFBFresh(st, p) == [st EXCEPT !.block = beltBlockEncr(@, st.key)]
beltCFBStepE(buf, st) ==
  Gamma(buf, st, N16, LAMBDA lo, p, s :
          LET c == XorAt(s.block, lo, p)
          IN [buf |-> Piece(c, lo, Len(p)), st |-> [s EXCEPT !.block = c]], CFBFresh)
beltCFBStepD(buf, st) ==
  Gamma(buf, st, N16, LAMBDA lo, p, s :
          LET d == MemXor(p, Piece(s.block, lo, Len(p)))
          IN [buf |-> d, st |-> [s EXCEPT !.block = XorAt(@, lo, d)]], CFBFresh)
beltCFBEncr(src, key, iv, mem) ==
  HighLevel(KeyOk(key), mem, beltCFBStepE(src, beltCFBStart(key, iv)).buf)
beltCFBDecr(src, key, iv, mem) ==
  HighLevel(KeyOk(key), mem, beltCFBStepD(src, beltCFBStart(key, iv)).buf)

(* CTR: the block of gamma is made of a counter.                           *)
XorGamma(lo, p, s) == [buf |-> MemXor(p, Piece(s.block, lo, Len(p))), st |-> s]
beltCTRStart(key, iv) ==
  LET k == beltKeyExpand2(key)
  IN [key |-> k, ctr |-> beltBlockEncr2(iv, k), block |-> Zeros(N16), reserved |-> 0]
CTRFresh(st, p) ==
  LET c == beltBlockIncU32(st.ctr)
  IN [st EXCEPT !.ctr = c, !.block = beltBlockEncr2(c, st.key)]
beltCTRStepE(buf, st) == Gamma(buf, st, N16, XorGamma, CTRFresh)
beltCTRStepD(buf, st) == beltCTRStepE(buf, st)
beltCTR(src, key, iv, mem) ==
  HighLevel(KeyOk(key), mem, beltCTRStepE(src, beltCTRStart(key, iv)).buf)

-----------------------------------------------------------------------------
(* BDE: whole blocks, each with its own multiple of s; SDE is in BeltWide. *)
beltBDEStart(key, iv) ==
  LET k == beltKeyExpand2(key) IN [key |-> k, s |-> beltBlockEncr2(iv, k), block |-> Zeros(N16)]
BDEStep(buf, st, F(_, _)) ==
  Blocks(buf, Len(buf) \div N16, st, LAMBDA b, q :
    LET s == beltBlockMulC(q.s)
    IN [buf |-> MemXor(F(MemXor(b, s), q.key), s), st |-> [q EXCEPT !.s = s, !.block = s]])
beltBDEStepE(buf, st) == BDEStep(buf, st, beltBlockEncr)
beltBDEStepD(buf, st) == BDEStep(buf, st, beltBlockDecr)
Whole(src) == Len(src) % N16 = 0 /\ Len(src) >= N16
beltBDEEncr(src, key, iv, mem) ==
  HighLevel(Whole(src) /\ KeyOk(key), mem, beltBDEStepE(src, beltBDEStart(key, iv)).buf)
beltBDEDecr(src, key, iv, mem) ==
  HighLevel(Whole(src) /\ KeyOk(key), mem, beltBDEStepD(src, beltBDEStart(key, iv)).buf)
=============================================================================
