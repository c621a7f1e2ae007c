------------------------------ MODULE BeltWide ------------------------------
(***************************************************************************)
(* The wide block of belt (belt_wbl.c) and what is built of it: key wrap,  *)
(* disk sectors, strings over an alphabet.  The wide block has two         *)
(* encryptions and three decryptions, chosen by its length.                *)
(***************************************************************************)
EXTENDS BeltModes

beltWBLStart(key) == [key |-> beltKeyExpand2(key), round |-> 0]

Rounds(count) == 2 * ((count + N16 - 1) \div N16)
(* The sum of the blocks of buf from offset 0 while a block at offset i    *)
(* satisfies i + margin < count, and the gamma of a round: round takes a   *)
(* word, half of a block.                                                  *)
SumBlocks(buf, margin) ==
  LET k == MaxOf(0, (Len(buf) - margin - 1) \div N16)
  IN Iter(LAMBDA s, j : MemXor(s, Piece(buf, N16 * (j + 1), N16)), Piece(buf, 0, N16), k)
Numbered(block, round, key) ==
  XorAt(beltBlockEncr(block, key), 0, OctetsOf(round % (W ^ 2), 2))

(* do ... while (round % 2n): at least one round.                          *)
RunRounds(buf, st, Step(_)) ==
  LET m == Rounds(Len(buf))
      r == Iter(LAMBDA q, j : Step(q), [buf |-> buf, sum |-> SumBlocks(buf, N16), i |-> 0,
                                         round |-> st.round],
                m - (st.round % m))
  IN [buf |-> r.buf, st |-> [st EXCEPT !.round = r.round]]

beltWBLStepEBase(buf, st) ==
  RunRounds(buf, st, LAMBDA q :
    LET count == Len(q.buf)
        s == SumBlocks(q.buf, N16)
        shifted == Piece(q.buf, N16, count - N16) \o Piece(q.buf, count - N16, N16)
    IN [q EXCEPT !.round = @ + 1,
                 !.buf = XorAt(Put(shifted, count - N16, s), count - 2 * N16,
                               Numbered(s, q.round + 1, st.key))])
beltWBLStepEOpt(buf, st) ==
  RunRounds(buf, st, LAMBDA q :
    LET count == Len(q.buf)
        last == (q.i + count - N16) % count
        b == XorAt(q.buf, last, Numbered(q.sum, q.round + 1, st.key))
    IN [buf |-> Put(b, q.i, q.sum), round |-> q.round + 1, i |-> (q.i + N16) % count,
        sum |-> MemXor(MemXor(q.sum, Piece(b, last, N16)), Piece(b, q.i, N16))])

(* for (round = 2n; round; --round).                                       *)
UndoRounds(s0, m, Step(_, _)) == Iter(LAMBDA q, j : Step(q, m - j), s0, m)
beltWBLStepDBase(buf, st) ==
  LET r == UndoRounds(buf, Rounds(Len(buf)), LAMBDA b, round :
             LET count == Len(b)
                 last == Piece(b, count - N16, N16)
                 moved == XorAt(last \o Piece(b, 0, count - N16), count - N16,
                                Numbered(last, round, st.key))
             IN Put(moved, 0, SumBlocks(moved, N16)))
  IN [buf |-> r, st |-> [st EXCEPT !.round = 0]]
(* Faulty variant: the sum takes in one block too many.                    *)
beltWBLStepDOpt_variant(buf, st) ==
  LET count == Len(buf)
      r == UndoRounds([buf |-> buf, sum |-> SumBlocks(buf, N16), i |-> count - N16],
                      Rounds(count), LAMBDA q, round :
             LET before == (q.i + count - N16) % count
                 b == XorAt(q.buf, before, Numbered(Piece(q.buf, q.i, N16), round, st.key))
                 c == XorAt(b, q.i, q.sum)
             IN [buf |-> c, i |-> before,
                 sum |-> MemXor(MemXor(q.sum, Piece(c, (q.i + count - 2 * N16) % count, N16)),
                                Piece(c, q.i, N16))])
  IN [buf |-> r.buf, st |-> [st EXCEPT !.round = 0]]
beltWBLStepDOpt(buf, st) ==
  LET count == Len(buf)
      r == UndoRounds([buf |-> buf, sum |-> SumBlocks(buf, 2 * N16), i |-> count - N16],
                      Rounds(count), LAMBDA q, round :
             LET before == (q.i + count - N16) % count
                 b == XorAt(q.buf, before, Numbered(Piece(q.buf, q.i, N16), round, st.key))
                 c == XorAt(b, q.i, q.sum)
             IN [buf |-> c, i |-> before,
                 sum |-> MemXor(MemXor(q.sum, Piece(c, (q.i + count - 2 * N16) % count, N16)),
                                Piece(c, q.i, N16))])
  IN [buf |-> r.buf, st |-> [st EXCEPT !.round = 0]]

Odd(count, least) == count % N16 # 0 \/ count < least
beltWBLStepR(buf, st) ==
  IF Odd(Len(buf), 4 * N16) THEN beltWBLStepEBase(buf, st) ELSE beltWBLStepEOpt(buf, st)
beltWBLStepE(buf, st) == beltWBLStepR(buf, [st EXCEPT !.round = 0])
beltWBLStepD(buf, st) ==
  IF Odd(Len(buf), 5 * N16) THEN beltWBLStepDBase(buf, st) ELSE beltWBLStepDOpt(buf, st)

(* The last block lies apart, in buf2.                                     *)
beltWBLStepD2(buf1, buf2, st) ==
  LET count == Len(buf1) + N16
      r == UndoRounds([b1 |-> buf1, b2 |-> buf2], Rounds(count), LAMBDA q, round :
             LET b2 == MemXor(Piece(q.b1, count - 2 * N16, N16), Numbered(q.b2, round, st.key))
                 moved == q.b2 \o Piece(q.b1, 0, count - 2 * N16)
                 k == MaxOf(0, (count - 2 * N16 - 1) \div N16)
                 i == N16 * (k + 1)
                 s == Iter(LAMBDA x, j : MemXor(x, Piece(moved, N16 * (j + 1), N16)),
                           Piece(moved, 0, N16), k)
                 some == count - N16 - i
                 t == XorAt(s, 0, Piece(moved, i, some))
             IN [b2 |-> b2,
                 b1 |-> Put(moved, 0, IF i + N16 < count
                                      THEN XorAt(t, some, Piece(b2, 0, N16 - some)) ELSE s)])
  IN [buf1 |-> r.b1, buf2 |-> r.b2, st |-> [st EXCEPT !.round = 0]]

-----------------------------------------------------------------------------
(* Key wrap.  No header stands for a header of zeros; a header that does   *)
(* not come back clears the destination.                                   *)
NoHeader == <<>>
HeaderOf(header) == IF header = NoHeader THEN Zeros(N16) ELSE header
beltKWPWrap(src, header, key, mem) ==
  HighLevel(Len(src) >= N16 /\ KeyOk(key), mem,
            beltWBLStepE(src \o HeaderOf(header), beltWBLStart(key)).buf)
beltKWPUnwrap(src, header, key, mem) ==
  LET count == Len(src)
      d == beltWBLStepD2(Piece(src, 0, count - N16), Piece(src, count - N16, N16),
                         beltWBLStart(key))
      ok == count >= 2 * N16 /\ KeyOk(key)
  IN IF ok /\ mem /\ d.buf2 # HeaderOf(header)
       THEN [code |-> "ERR_BAD_KEYTOKEN", dest |-> Zeros(count - N16)]
       ELSE HighLevel(ok, mem, d.buf1)

(* Sectors.                                                                *)
beltSDEStart(key) == [wbl |-> beltWBLStart(key), s |-> Zeros(N16)]
SDEStep(buf, iv, st, F(_, _)) ==
  LET s == beltBlockEncr(iv, st.wbl.key)
      w == F(XorAt(buf, 0, s), st.wbl)
  IN [buf |-> XorAt(w.buf, 0, s), st |-> [wbl |-> w.st, s |-> s]]
beltSDEStepE(buf, iv, st) == SDEStep(buf, iv, st, beltWBLStepE)
beltSDEStepD(buf, iv, st) == SDEStep(buf, iv, st, beltWBLStepD)
Sector(src) == Len(src) % N16 = 0 /\ Len(src) >= 2 * N16
beltSDEEncr(src, key, iv, mem) ==
  HighLevel(Sector(src) /\ KeyOk(key), mem, beltSDEStepE(src, iv, beltSDEStart(key)).buf)
beltSDEDecr(src, key, iv, mem) ==
  HighLevel(Sector(src) /\ KeyOk(key), mem, beltSDEStepD(src, iv, beltSDEStart(key)).buf)

-----------------------------------------------------------------------------
(* Strings of count symbols below mod.  Their halves are numbers of b half *)
(* blocks; the largest alphabet has symbols of two octets.                 *)
HalfLen == N16 \div 2
U16 == W ^ 2
MaxString == 12            \* 600 in the code
(* Numbers of many words, here as digits of ten bits, the lowest first.    *)
Big(n) == <<n % 1024, n \div 1024>>
Carried(value(_), n) ==
  LET q == Iter(LAMBDA a, i : With(value(i + 1) + a.carry, LAMBDA v :
                                [c |-> Append(a.c, v % 1024), carry |-> v \div 1024]),
                [c |-> <<>>, carry |-> 0], n)
  IN q.c \o (IF q.carry = 0 THEN <<>> ELSE Big(q.carry))
BigMul(d, w) == Carried(LAMBDA i : d[i] * w, Len(d))
BigProduct(ws) == Iter(LAMBDA d, i : BigMul(d, ws[i + 1]), Big(1), Len(ws))
DigitAt(d, i) == IF i <= Len(d) THEN d[i] ELSE 0
BigSum(d, e) == Carried(LAMBDA i : DigitAt(d, i) + DigitAt(e, i), MaxOf(Len(d), Len(e)))
BigLeq(d, e) ==
  LET apart == {i \in 1 .. MaxOf(Len(d), Len(e)) : DigitAt(d, i) # DigitAt(e, i)}
  IN apart = {} \/ \E i \in apart : (\A j \in apart : j <= i) /\ DigitAt(d, i) < DigitAt(e, i)

(* beltFMTCalcB() for symbols of u bits at most and half blocks of h bits, *)
(* 16 and 64 in the code: log2(mod) * count / h is taken as a fraction and *)
(* rounded up, with 2^k the power of 2 that is next to mod.                *)
HalfBlocks(mod, count, u, h) ==
  LET up == CHOOSE k \in 1 .. u : 2 ^ (k - 1) <= mod /\ mod < 2 ^ k
      k == IF 2 ^ up - mod > mod - 2 ^ (up - 1) THEN up - 1 ELSE up
      t0 == BigProduct(<<2 ^ k, 2 ^ k, 2 ^ k>>)
      t1 == BigProduct(<<2 ^ k, 2 ^ k, mod>>)
      t2 == BigProduct(<<2 ^ k, mod, mod>>)
      t3 == BigProduct(<<mod, mod, mod>>)
      den == BigSum(BigSum(t0, BigMul(t1, 9)), BigSum(BigMul(t2, 9), t3))
      plus == BigSum(BigMul(BigMul(den, 4764), k), BigSum(BigMul(t3, 25201), BigMul(t2, 61857)))
      minus == BigSum(BigMul(t1, 61857), BigMul(t0, 25201))
      blocks(b) == BigSum(BigMul(BigMul(BigMul(den, 4764), h), b), BigMul(minus, count))
  IN CASE mod = 49667 /\ count = 320 -> 39
       [] mod = 2 ^ u -> (u * count + h - 1) \div h
       [] OTHER -> CHOOSE b \in 1 .. (count * u) \div h + 2 :
            BigLeq(BigMul(plus, count), blocks(b)) /\ ~BigLeq(BigMul(plus, count), blocks(b - 1))
HalfBlocksOf == Eager([mod \in 2 .. U16 |-> Eager([count \in 1 .. MaxString |->
                          HalfBlocks(mod, count, 2 * B, B * HalfLen)])])
beltFMTCalcB(mod, count) == HalfBlocksOf[mod][count]

belt32BlockEncr(t, key) ==
  LET s1 == SubSeq(t, 1, 2) \o beltBlockEncr3(t[3], t[4], t[5], t[6], key)
      s2 == [s1 EXCEPT ![3] = Xor(@, 1), ![1] = Xor(@, Xor(s1[3], 1)), ![2] = Xor(@, s1[4])]
      e2 == beltBlockEncr3(s2[5], s2[6], s2[1], s2[2], key)
      s3 == <<e2[3], e2[4], s2[3], s2[4], e2[1], e2[2]>>
      s4 == [s3 EXCEPT ![5] = Xor(@, 2), ![3] = Xor(@, Xor(s3[5], 2)), ![4] = Xor(@, s3[6])]
      s5 == beltBlockEncr3(s4[1], s4[2], s4[3], s4[4], key) \o SubSeq(s4, 5, 6)
  IN [s5 EXCEPT ![1] = Xor(@, 3), ![5] = Xor(@, Xor(s5[1], 3)), ![6] = Xor(@, s5[2])]

beltStr2Bin(b, mod, str) ==
  IF mod = U16 THEN LET bin == FoldLeft(LAMBDA o, c : o \o OctetsOf(c, 2), <<>>, str)
                    IN bin \o Zeros(HalfLen * b - Len(bin))
  ELSE OctetsOf(FoldRight(LAMBDA c, a : a * mod + c, str, 0), HalfLen * b)
(* The digits of bin are added to the symbols of str or taken from them.   *)
DigitsOf(mod, bin, count) ==
  LET a == NumOf(bin) IN Eager([j \in 1 .. count |-> (a \div mod ^ (j - 1)) % mod])
beltBin2StrAdd(mod, str, bin) ==
  LET d == DigitsOf(mod, bin, Len(str)) IN Eager([j \in 1 .. Len(str) |-> (str[j] + d[j]) % mod])
beltBin2StrSub(mod, str, bin) ==
  LET d == DigitsOf(mod, bin, Len(str))
  IN Eager([j \in 1 .. Len(str) |-> (str[j] + mod - d[j]) % mod])

(* The octets that mod and count take are one here, at both ends of iv.    *)
beltFMTStart(mod, count, key) ==
  LET n1 == (count + 1) \div 2
      n2 == count \div 2
  IN [wbl |-> beltWBLStart(key), mod |-> mod, n1 |-> n1, n2 |-> n2,
      b1 |-> beltFMTCalcB(mod, n1), b2 |-> beltFMTCalcB(mod, n2), tag |-> (mod + count) % W]
FMTSynchro(st, iv) == <<st.tag>> \o HeaderOf(iv) \o <<st.tag>>
(* The gamma of one half in step i of 0 .. 5.                              *)
FMTGamma(st, half, b, i, iv) ==
  LET buf == beltStr2Bin(b, st.mod, half) \o beltH(i, 1) \o <<FMTSynchro(st, iv)[i + 1]>>
  IN CASE b = 1 -> beltBlockEncr(buf, st.wbl.key)
       [] b = 2 -> belt32BlockEncr(buf, st.wbl.key)
       [] OTHER -> beltWBLStepE(buf, st.wbl).buf
Halves(buf, st) == [lo |-> SubSeq(buf, 1, st.n1), hi |-> SubSeq(buf, st.n1 + 1, st.n1 + st.n2)]
FMTRounds(buf, st, Step(_, _)) ==
  LET r == Iter(LAMBDA h, i : Step(h, i), Halves(buf, st), 3) IN r.lo \o r.hi
beltFMTStepE(buf, iv, st) ==
  FMTRounds(buf, st, LAMBDA h, i :
    LET lo == beltBin2StrAdd(st.mod, h.lo, FMTGamma(st, h.hi, st.b2, 2 * i, iv))
    IN [lo |-> lo, hi |-> beltBin2StrAdd(st.mod, h.hi, FMTGamma(st, lo, st.b1, 2 * i + 1, iv))])
beltFMTStepD(buf, iv, st) ==
  FMTRounds(buf, st, LAMBDA h, j :
    LET i == 2 - j
        hi == beltBin2StrSub(st.mod, h.hi, FMTGamma(st, h.lo, st.b1, 2 * i + 1, iv))
    IN [hi |-> hi, lo |-> beltBin2StrSub(st.mod, h.lo, FMTGamma(st, hi, st.b2, 2 * i, iv))])

FMTHigh(mod, src, key, mem, dest) ==
  LET ok == Len(src) >= 2 /\ KeyOk(key)
  IN IF ok /\ Len(src) > MaxString THEN [code |-> "ERR_NOT_IMPLEMENTED", dest |-> <<>>]
     ELSE HighLevel(ok, mem, dest)
beltFMTEncr(mod, src, key, iv, mem) ==
  FMTHigh(mod, src, key, mem, beltFMTStepE(src, iv, beltFMTStart(mod, Len(src), key)))
beltFMTDecr(mod, src, key, iv, mem) ==
  FMTHigh(mod, src, key, mem, beltFMTStepD(src, iv, beltFMTStart(mod, Len(src), key)))
=============================================================================
