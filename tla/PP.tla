--------------------------------- MODULE PP ---------------------------------
(***************************************************************************)
(* Polynomials over the field of two elements, src/src/math/pp.  The       *)
(* coefficients are the bits of a number: adding is wwXor.  A word is      *)
(* multiplied and divided digit by digit, by tables of the multiples of    *)
(* one factor; long numbers by the schemes of Karatsuba.                   *)
(***************************************************************************)
EXTENDS ZZMod

CONSTANT
  S              \* bits of a digit of the tables: four in the code (S4)

Digit(x, k) == Shr(x, S * k) % 2 ^ S
NDigits == B \div S
BitSum(x, y) == Xor(x, y)

(* _MUL_PRE_S4: t[d] is the multiple d of a, cut to a word.                *)
MulTable(a) ==
  LET t[d \in 0 .. 2 ^ S - 1] ==
        IF d = 0 THEN 0 ELSE Xor(Shl(t[d \div 2], 1), IF d % 2 = 1 THEN a ELSE 0)
  IN Eager(t)

(* _MUL_MUL_S4: two digits of b at a time, from the top.                   *)
TableMul(t, b) ==
  LET Pair(s, k) ==
        LET i == NDigits - 2 * (k + 1)
            hi == IF k = 0 THEN 0 ELSE Xor(Shl(s.hi, 2 * S), Shr(s.lo, B - 2 * S))
        IN [hi |-> hi,
            lo |-> Xor(IF k = 0 THEN 0 ELSE Shl(s.lo, 2 * S),
                       Xor(Shl(t[Digit(b, i + 1)], S), t[Digit(b, i)]))]
  IN Iter(Pair, [lo |-> 0, hi |-> 0], NDigits \div 2)

(* _MUL_REPAIR_S4: the bits of a that a shift by k inside two digits lost. *)
Upper == [k \in 1 .. 2 * S - 1 |-> WordOf({i \in 0 .. B - 1 : i % (2 * S) >= k})]
(* Faulty variant: the bits lost by the longest shift are not restored. *)
MulRepair_variant(hi, a, b) ==
  Iter(LAMBDA h, j : IF Bit(a, B - 1 - j) = 1
                     THEN Xor(h, Shr(And(b, Upper[j + 1]), j + 1)) ELSE h,
       hi, 2 * S - 2)

MulRepair(hi, a, b) ==
  Iter(LAMBDA h, j : IF Bit(a, B - 1 - j) = 1
                     THEN Xor(h, Shr(And(b, Upper[j + 1]), j + 1)) ELSE h,
       hi, 2 * S - 1)

MulWord(t, a, b) ==
  LET p == TableMul(t, b) IN [p EXCEPT !.hi = MulRepair(@, a, b)]

ppMul1(a, b) ==
  LET p == MulWord(MulTable(a[0]), a[0], b[0])
  IN [i \in 0 .. 1 |-> IF i = 0 THEN p.lo ELSE p.hi]

(* Two halves of m and n - m words: the lower products, the upper ones and *)
(* the product of the sums.  c is written over in place, t keeps the words *)
(* where the products of the halves meet.                                  *)
Karatsuba(a, b, MulLo(_, _), MulHi(_, _)) ==
  LET n == N(a)
      m == (n + 1) \div 2
      k == n - m
      Fold(x) == Eager([i \in 0 .. m - 1 |-> IF i < k THEN Xor(x[i], x[m + i]) ELSE x[i]])
      c == Join(MulLo(Part(a, 0, m), Part(b, 0, m)), MulHi(Part(a, m, k), Part(b, m, k)))
      t == wwXor(Part(c, m, m), Part(c, 2 * m, m))
      d == Put(c, m, MulLo(Fold(a), Fold(b)))
  IN Eager([j \in DOMAIN d |->
        CASE j \in m .. 2 * m - 1 -> Xor(d[j], Xor(d[j - m], t[j - m]))
          [] j \in 2 * m .. 3 * m - 1 ->
               Xor(d[j], Xor(IF j + m < 2 * n THEN d[j + m] ELSE 0, t[j - 2 * m]))
          [] OTHER -> d[j]])

(* Three parts of m words, six products.                                   *)
ThreeWay(a, b, Mul(_, _)) ==
  LET m == N(a) \div 3
      A(i) == Part(a, i * m, m)
      Bp(i) == Part(b, i * m, m)
      Cross(i, j) == Mul(wwXor(A(i), A(j)), wwXor(Bp(i), Bp(j)))
      c == Join(Mul(A(0), Bp(0)), Join(Mul(A(1), Bp(1)), Mul(A(2), Bp(2))))
      C(i) == Part(c, i * m, m)
      c1 == wwXor(C(1), wwXor(C(0), C(2)))
      c2 == wwXor(c1, wwXor(C(3), C(4)))
      c3 == wwXor(c2, wwXor(C(0), C(5)))
      c4 == wwXor(c3, wwXor(C(0), c1))
      Lo(t) == Part(t, 0, m)
      Hi(t) == Part(t, m, m)
      t01 == Cross(0, 1)
      t02 == Cross(0, 2)
      t12 == Cross(1, 2)
  IN Join(C(0),
     Join(wwXor(c1, Lo(t01)),
     Join(wwXor(c2, wwXor(Hi(t01), Lo(t02))),
     Join(wwXor(c3, wwXor(Hi(t02), Lo(t12))),
     Join(wwXor(c4, Hi(t12)), C(5))))))

ppMul2(a, b) == Karatsuba(a, b, ppMul1, ppMul1)
ppMul3(a, b) == ThreeWay(a, b, ppMul1)
ppMul4(a, b) == Karatsuba(a, b, ppMul2, ppMul2)
ppMul5(a, b) == Karatsuba(a, b, ppMul3, ppMul2)
ppMul6(a, b) == Karatsuba(a, b, ppMul3, ppMul3)
ppMul7(a, b) == Karatsuba(a, b, ppMul4, ppMul3)
ppMul8(a, b) == Karatsuba(a, b, ppMul4, ppMul4)
ppMul9(a, b) == ThreeWay(a, b, ppMul3)

RECURSIVE ppMulEq(_, _)
ppMulEq(a, b) ==
  LET n == N(a) IN
    CASE n = 1 -> ppMul1(a, b) [] n = 2 -> ppMul2(a, b) [] n = 3 -> ppMul3(a, b)
      [] n = 4 -> ppMul4(a, b) [] n = 5 -> ppMul5(a, b) [] n = 6 -> ppMul6(a, b)
      [] n = 7 -> ppMul7(a, b) [] n = 8 -> ppMul8(a, b) [] n = 9 -> ppMul9(a, b)
      [] OTHER -> Karatsuba(a, b, ppMulEq, ppMulEq)

ppMulW(a, w) ==
  LET t == MulTable(w)
  IN Ripple(LAMBDA i, k : LET p == MulWord(t, w, a[i]) IN <<Xor(k, p.lo), p.hi>>, N(a), 0)
ppAddMulW(b, a, w) ==
  LET t == MulTable(w)
  IN Ripple(LAMBDA i, k : LET p == MulWord(t, w, a[i])
                          IN <<Xor(b[i], Xor(k, p.lo)), p.hi>>, N(a), 0)

(* A longer factor: the words above the m-th are added one by one.         *)
ppMul(a, b) ==
  LET long == IF N(a) >= N(b) THEN a ELSE b
      short == IF N(a) >= N(b) THEN b ELSE a
      m == N(short)
      Row(c, i) == LET r == ppAddMulW(Part(c, m + i, m), short, long[m + i])
                   IN [Put(c, m + i, r.c) EXCEPT ![2 * m + i] = Xor(@, r.carry)]
  IN IF m = 0 THEN wwSetZero(N(long))
     ELSE Iter(Row, Join(ppMulEq(Part(long, 0, m), short), wwSetZero(N(long) - m)),
               N(long) - m)

(* The bits are spread out: half a word makes a word (_squares).           *)
ppSqr(a) ==
  LET Half(x) == WordOf({2 * i : i \in {j \in 0 .. (B \div 2) - 1 : Bit(x, j) = 1}})
  IN [i \in 0 .. 2 * N(a) - 1 |->
        Half(IF i % 2 = 0 THEN a[i \div 2] ELSE Shr(a[i \div 2], B \div 2))]

(* _DIV_PRE_S4: the quotient digit of each top digit, by the bits of the   *)
(* divisor under its leading one.                                          *)
DivTable(a) ==
  Iter(LAMBDA w, j :
         [x \in 0 .. 2 ^ (j + 1) - 1 |->
            IF x < 2 ^ j THEN w[x]
            ELSE Xor(2 ^ j, w[Xor(x - 2 ^ j, IF j = 0 THEN 0 ELSE Shr(a, B - j))])],
       [x \in {0} |-> 0], S)

(* _DIV_DIV_S4: the quotient word of the word hi, digit by digit.          *)
DivWord(hi, w1, w2) ==
  LET Step(s, k) ==
        LET x == IF k = 0 THEN s.hi ELSE Xor(s.hi, Shr(w2[s.q % 2 ^ S], S * k))
        IN [hi |-> x, q |-> Xor(Shl(s.q, S), w1[Digit(x, NDigits - 1 - k)])]
  IN Iter(Step, [hi |-> hi, q |-> 0], NDigits).q

(* The divisor is moved up until its leading one is just above its top     *)
(* word; when it already is the lone bit of that word, the word is left    *)
(* out.  The quotient then has a word more than the caller's.              *)
ppDivide(a, b) ==
  LET n == N(a)
      m0 == N(b)
      bits == (wwBitSize(Part(b, m0 - 1, 1)) - 1) % B
      m == IF bits = 0 THEN m0 - 1 ELSE m0
      shift == IF bits = 0 THEN 0 ELSE B - bits
      divisor == wwShHi(Part(b, 0, m), shift)
      top == IF m = 0 THEN 0 ELSE divisor[m - 1]
      w1 == DivTable(top)
      w2 == MulTable(top)
      Step(s, k) ==
        LET i == n - k
            q == DivWord(s.d[i], w1, w2)
            r == ppAddMulW(Part(s.d, i - m, m), divisor, q)
        IN [d |-> [Put(s.d, i - m, r.c) EXCEPT ![i] = Xor(@, Xor(r.carry, q))],
            q |-> [s.q EXCEPT ![i - m] = q]]
      s == Iter(Step, [d |-> wwShHi(Join(a, wwSetZero(1)), shift),
                       q |-> wwSetZero(n - m + 1)], n - m + 1)
  IN [q |-> s.q, r |-> Join(Part(wwShLo(s.d, shift), 0, m), wwSetZero(m0 - m))]

ppDiv(a, b) ==
  IF wwBitSize(a) < wwBitSize(b)
  THEN [q |-> wwSetZero(N(a) - N(b) + 1), r |-> Part(a, 0, N(b))]
  ELSE ppDivide(a, b)

ppMod(a, b) ==
  IF wwBitSize(a) < wwBitSize(b)
  THEN IF N(a) < N(b) THEN Join(a, wwSetZero(N(b) - N(a))) ELSE Part(a, 0, N(b))
  ELSE ppDivide(a, b).r

ppMulMod(a, b, mod) == ppMod(ppMul(a, b), mod)
ppSqrMod(a, mod) == ppMod(ppSqr(a), mod)

(* Greatest common divisors by halving, pp_gcd.c and ppDivMod.             *)
XorLow(u, v, m) == Eager([i \in DOMAIN u |-> IF i < m THEN Xor(u[i], v[i]) ELSE u[i]])
IsOdd(u) == wwTestBit(u, 0)
ShiftOut(u) == wwShLo(u, wwLoZeroBits(u))
GcdBound(a, b) == 2 * B * (N(a) + N(b)) + 2

ppGCD(a, b) ==
  LET s == MinOf(wwLoZeroBits(a), wwLoZeroBits(b))
      Step(t) ==
        LET u == ShiftOut(t.u)  v == ShiftOut(t.v)
        IN IF wwCmp2_safe(u, v) >= 0
           THEN [u |-> XorLow(u, v, wwWordSize(v)), v |-> v]
           ELSE [u |-> u, v |-> XorLow(v, u, wwWordSize(u))]
      First == Step([u |-> wwShLo(a, s), v |-> wwShLo(b, s)])
      end == While(LAMBDA t : ~wwIsZero_fast(t.u), Step, First, GcdBound(a, b))
      k == MinOf(N(a), N(b))
  IN wwShHi(Part(end.v, 0, k), s)

(* Halve the field u and its coefficients, those of an odd pair with the   *)
(* period added.                                                           *)
HalveXor(t, u, da, db, aa, bb) ==
  While(LAMBDA s : ~IsOdd(s[u]),
        LAMBDA s : LET even == ~IsOdd(s[da])
                       Half(x, p) == wwShLo(IF even THEN x ELSE wwXor(x, p), 1)
                   IN [s EXCEPT ![u] = wwShLo(@, 1), ![da] = Half(@, bb), ![db] = Half(@, aa)],
        t, B * N(t[u]))

ppExGCD(a, b) ==
  LET s == MinOf(wwLoZeroBits(a), wwLoZeroBits(b))
      aa == wwShLo(a, s)
      bb == wwShLo(b, s)
      Step(t0) ==
        LET t == HalveXor(HalveXor(t0, "u", "da0", "db0", aa, bb), "v", "da", "db", aa, bb)
        IN IF wwCmp2_safe(t.u, t.v) >= 0
           THEN [t EXCEPT !.u = XorLow(@, t.v, wwWordSize(t.v)),
                          !.da0 = wwXor(@, t.da), !.db0 = wwXor(@, t.db)]
           ELSE [t EXCEPT !.v = XorLow(@, t.u, wwWordSize(t.u)),
                          !.da = wwXor(@, t.da0), !.db = wwXor(@, t.db0)]
      First == Step([u |-> aa, v |-> bb, da0 |-> wwSetW(N(b), 1), db0 |-> wwSetZero(N(a)),
                     da |-> wwSetZero(N(b)), db |-> wwSetW(N(a), 1)])
      end == While(LAMBDA t : ~wwIsZero_fast(t.u), Step, First, GcdBound(a, b))
      k == MinOf(N(a), N(b))
  IN [d |-> wwShHi(Part(end.v, 0, k), s), da |-> end.da, db |-> end.db]

ppDivMod(divident, a, mod) ==
  LET Even(t, u, da) ==
        While(LAMBDA s : ~IsOdd(s[u]),
              LAMBDA s : [s EXCEPT ![u] = wwShLo(@, 1),
                                   ![da] = wwShLo(IF IsOdd(@) THEN wwXor(@, mod) ELSE @, 1)],
              t, B * N(mod))
      Step(t0) ==
        LET t == Even(Even(t0, "u", "da0"), "v", "da")
        IN IF wwCmp2_safe(t.u, t.v) >= 0
           THEN [t EXCEPT !.u = wwXor(@, t.v), !.da0 = wwXor(@, t.da)]
           ELSE [t EXCEPT !.v = wwXor(@, t.u), !.da = wwXor(@, t.da0)]
      end == While(LAMBDA t : ~wwIsZero_fast(t.u), Step,
                   [u |-> a, v |-> mod, da0 |-> divident, da |-> wwSetZero(N(mod))],
                   GcdBound(a, mod))
  IN IF wwIsW_fast(end.v, 1) THEN end.da ELSE wwSetZero(N(mod))

ppInvMod(a, mod) == ppDivMod(wwSetW(N(mod), 1), a, mod)

(* pp_etc.c.  The degree of zero is that of SIZE_MAX, a minus one.         *)
ppDeg(a) == wwBitSize(a) - 1

(* h = x^(2^i) for i = 1, 2, ...: a is irreducible when h + x has no       *)
(* common divisor with it, for i up to half of its degree.                 *)
ppIsIrred(a0) ==
  LET a == Part(a0, 0, wwWordSize(a0))
      rounds == ppDeg(a) \div 2
      Step(s, k) ==
        LET h == wwFlipBit(s.h, 1)
        IN IF ~s.ok THEN s
           ELSE [ok |-> ~wwIsZero_fast(h) /\ wwCmpW_fast(ppGCD(h, a), 1) = 0,
                 h |-> IF k < rounds - 1 THEN ppSqrMod(wwFlipBit(h, 1), a) ELSE h]
  IN /\ wwCmpW_fast(a, 1) > 0
     /\ Iter(Step, [ok |-> TRUE, h |-> wwSetW(N(a), 4 % W)], rounds).ok

(* The shortest recurrence of 2 l bits: division of x^(2 l) by their       *)
(* polynomial, stopped at the degree l.                                    *)
WordsOf(bits) == (bits + B - 1) \div B
ppMinPoly(a, l) ==
  LET m == WordsOf(l + 1)
      Step(s) ==
        LET aa == Part(s.aa, 0, wwWordSize(s.aa))
            d == ppDiv(s.bb, aa)
            nda == wwWordSize(s.da)
            da == Part(s.da, 0, nda)
            nq == wwWordSize(d.q)
            Row(x, k) == LET i == nq - 1 - k
                             r == ppAddMulW(Part(x, i, nda), da, d.q[i])
                         IN [Put(x, i, r.c) EXCEPT ![i + nda] = Xor(@, r.carry)]
            db == Iter(Row, s.db, nq)
        IN [bb |-> aa, aa |-> d.r, da |-> db, db |-> s.da]
      pad == WordsOf(l) + 2
  IN Part(While(LAMBDA s : ppDeg(s.aa) + 1 > l, Step,
                [aa |-> wwTrimHi(a, 2 * l),
                 bb |-> wwSetBit(wwSetZero(WordsOf(2 * l + 1)), 2 * l, TRUE),
                 da |-> wwSetW(m + pad, 1), db |-> wwSetZero(m + pad)], 2 * l + 1).da, 0, m)

ppMinPolyMod(a, mod) ==
  LET l == ppDeg(mod)
      Step(s, k) == LET t == ppMulMod(s.t, a, mod)
                    IN [t |-> t, s |-> wwSetBit(s.s, 2 * l - 2 - k, wwTestBit(t, 0))]
      s == Iter(Step, [t |-> a, s |-> wwSetBit(wwSetZero(2 * N(mod)), 2 * l - 1,
                                               wwTestBit(a, 0))], 2 * l - 1)
  IN ppMinPoly(wwTrimHi(s.s, 2 * l), l)

(* pp_red.c.  Every word above the degree is folded down, then the bits of *)
(* the word of the degree.  ks are the degrees of the middle terms.        *)
RedByTerms(a, m, ks) ==
  LET mb == m % B
      mw == m \div B
      XorAt(x, i, w) == Eager([x EXCEPT ![i] = Xor(@, w)])
      Down(x, n, hi, k) ==                    \* hi x^(n B) over x^(m - k)
        LET kb == (m - k) % B
            kw == (m - k) \div B
        IN XorAt(IF kb # 0 THEN XorAt(x, n - kw - 1, Shl(hi, B - kb)) ELSE x,
                 n - kw, Shr(hi, kb))
      Fold(x, j) ==
        LET n == 2 * WordsOf(m) - 1 - j
            lead == XorAt(IF mb # 0 THEN XorAt(x, n - mw - 1, Shl(x[n], B - mb)) ELSE x,
                          n - mw, Shr(x[n], mb))
        IN Iter(LAMBDA y, t : Down(y, n, x[n], ks[t + 1]), lead, Cardinality(DOMAIN ks))
      x1 == Iter(Fold, a, 2 * WordsOf(m) - 1 - mw)
      top == Shr(x1[mw], mb)
      Last(x, k) ==
        LET kb == (m - k) % B
            kw == (m - k) \div B
            hi == Shl(top, mb)
        IN XorAt(IF kw < mw /\ kb # 0 THEN XorAt(x, mw - kw - 1, Shl(hi, B - kb)) ELSE x,
                 mw - kw, Shr(hi, kb))
      x2 == Iter(LAMBDA y, t : Last(y, ks[t + 1]), XorAt(x1, 0, top), Cardinality(DOMAIN ks))
  IN XorAt(x2, mw, Shl(top, mb))

ppRed(a, mod) == ppMod(a, mod)
ppRedTrinomial(a, p) == RedByTerms(a, p.m, <<p.k>>)
ppRedPentanomial(a, p) == RedByTerms(a, p.m, <<p.l1, p.l, p.k>>)

-----------------------------------------------------------------------------
(***************************************************************************)
(* Fields of 2^m elements, src/src/math/gf2.c: polynomials modulo a        *)
(* trinomial or a pentanomial.  A field whose m is a whole number of words *)
(* keeps its modulus in a word more than an element.                       *)
(***************************************************************************)
NoField == [m |-> 0]
Modulus(p) ==
  LET terms == {p[i] : i \in 1 .. 4} \cup {0}
  IN Iter(LAMBDA x, i : IF i \in terms THEN wwSetBit(x, i, TRUE) ELSE x,
          wwSetZero(WordsOf(p[1] + 1)), p[1] + 1)

Field(p) ==
  [m |-> p[1], k |-> p[2], l |-> p[3], l1 |-> p[4], n |-> WordsOf(p[1]),
   no |-> (p[1] + OB - 1) \div OB, mod |-> Modulus(p),
   unity |-> wwSetW(WordsOf(p[1]), 1)]

(* p = <<m, k, l, l1>>; a trinomial has l = l1 = 0.                        *)
gf2Create(p) ==
  LET trinomial == p[3] = 0 /\ p[4] = 0 /\ p[1] % OB # 0 /\ p[2] < p[1] /\ p[1] - p[2] >= B
      pentanomial == /\ p[3] # 0 /\ p[4] # 0
                     /\ p[2] < p[1] /\ p[3] < p[2] /\ p[4] < p[3]
                     /\ p[1] - p[2] >= B /\ p[2] < B
  IN IF p[2] # 0 /\ (trinomial \/ pentanomial) THEN Field(p) ELSE NoField

gf2IsOperable(f) ==
  /\ f.k < f.m /\ f.l <= f.k /\ f.l1 <= f.l
  /\ f.l > 0 => (f.k # f.l /\ f.l # f.l1 /\ f.l1 # 0)
  /\ f.n = WordsOf(f.m) /\ f.no = (f.m + OB - 1) \div OB
  /\ f.mod[N(f.mod) - 1] # 0
gf2IsValid(f) ==
  /\ gf2IsOperable(f)
  /\ f.k > 0 => wwEq_safe(f.mod, Modulus(<<f.m, f.k, f.l, f.l1>>)) /\ ppIsIrred(f.mod)

gf2Deg(f) == f.m
gf2IsIn(a, f) == f.m % B = 0 \/ wwCmp_safe(a, Part(f.mod, 0, f.n)) < 0
gf2From(a, f) == [ok |-> gf2IsIn(a, f), b |-> a]
gf2Add3(a, b, f) == wwXor(a, b)
gf2Neg2(a, f) == a

gf2RedTrinomial0(a, f) == RedByTerms(a, f.m, <<f.k>>)
gf2RedTrinomial1(a, f) == RedByTerms(a, f.m, <<f.k>>)
gf2RedPentanomial(a, f) == RedByTerms(a, f.m, <<f.l1, f.l, f.k>>)
Element(c, f) == Part(c, 0, f.n)
gf2MulTrinomial0(a, b, f) == Element(gf2RedTrinomial0(ppMul(a, b), f), f)
gf2MulTrinomial1(a, b, f) == Element(gf2RedTrinomial1(ppMul(a, b), f), f)
gf2MulPentanomial(a, b, f) == Element(gf2RedPentanomial(ppMul(a, b), f), f)
gf2SqrTrinomial0(a, f) == Element(gf2RedTrinomial0(ppSqr(a), f), f)
gf2SqrTrinomial1(a, f) == Element(gf2RedTrinomial1(ppSqr(a), f), f)
gf2SqrPentanomial(a, f) == Element(gf2RedPentanomial(ppSqr(a), f), f)

(* The calls through the field.                                            *)
ByPentanomial(f) == f.l # 0
ByWholeWords(f) == f.l = 0 /\ (f.m - f.k) % B = 0
gf2Mul(a, b, f) ==
  CASE ByPentanomial(f) -> gf2MulPentanomial(a, b, f)
    [] ByWholeWords(f) -> gf2MulTrinomial0(a, b, f)
    [] OTHER -> gf2MulTrinomial1(a, b, f)
gf2Sqr(a, f) ==
  CASE ByPentanomial(f) -> gf2SqrPentanomial(a, f)
    [] ByWholeWords(f) -> gf2SqrTrinomial0(a, f)
    [] OTHER -> gf2SqrTrinomial1(a, f)

(* The modulus may have a word more than an element.  The division then    *)
(* takes a word more of its operands as well: the word after each of them. *)
Longer(a, next, f) == Join(a, [j \in 0 .. N(f.mod) - f.n - 1 |-> next])
gf2Inv(a, f, next) == Part(ppInvMod(Longer(a, next, f), f.mod), 0, f.n)
gf2Div(divident, a, f, next) ==
  Part(ppDivMod(Longer(divident, next, f), Longer(a, next, f), f.mod), 0, f.n)

gf2Tr(a, f) ==
  ~wwIsZero_safe(Iter(LAMBDA t, i : gf2Add3(gf2Sqr(t, f), a, f), a, f.m - 1))

(* x^2 + a x + b = 0, m odd: by the half-trace of b / a^2.                 *)
gf2QSolve(a, b, f) ==
  LET t == gf2Div(b, gf2Sqr(a, f), f, 0)
      half == Iter(LAMBDA x, i : gf2Add3(gf2Sqr(gf2Sqr(x, f), f), t, f), t, (f.m - 1) \div 2)
  IN CASE wwIsZero_safe(a) -> [ok |-> TRUE, x |-> Iter(LAMBDA x, i : gf2Sqr(x, f), b, f.m - 1)]
       [] ~wwIsZero_safe(a) /\ wwIsZero_safe(b) -> [ok |-> TRUE, x |-> b]
       [] OTHER -> IF gf2Tr(t, f) THEN [ok |-> FALSE, x |-> t]
                   ELSE [ok |-> TRUE, x |-> gf2Mul(half, a, f)]
=============================================================================
