-------------------------------- MODULE ZZMod -------------------------------
(***************************************************************************)
(* Residues, src/src/math/zz/zz_mod.c, and the reductions of zz_red.c.  A  *)
(* regular edition compares the result with the modulus while it is made   *)
(* and subtracts the modulus under a mask.                                 *)
(***************************************************************************)
EXTENDS ZZ

CONSTANT
  Impossible     \* the draws after which a generator counts as broken

(* Is the carried number at least the modulus: the comparison that runs    *)
(* from the low word up, from the value w0 of the register.                *)
GeqMod(c, mod, w0) ==
  Iter(LAMBDA w, i : Or(And(w, B01(mod[i] = c[i])), B01(mod[i] < c[i])), w0, N(c))
MaskSub(c, mod, w) == zzSubAndW(c, mod, (W - w) % W)

zzAddMod_fast(a, b, mod) ==
  LET s == zzAdd(a, b)
  IN IF s.carry # 0 \/ wwCmp_fast(s.c, mod) >= 0 THEN zzSub2(s.c, mod).c ELSE s.c
zzAddMod_safe(a, b, mod) ==
  LET s == zzAdd(a, b)
  IN MaskSub(s.c, mod, Or(GeqMod(s.c, mod, 1), s.carry)).c

zzAddWMod_fast(a, w, mod) ==
  LET s == zzAddW(a, w)
  IN IF s.carry # 0 \/ wwCmp_fast(s.c, mod) > 0 THEN zzSub2(s.c, mod).c ELSE s.c
zzAddWMod_safe(a, w, mod) ==
  LET s == zzAddW(a, w)
  IN MaskSub(s.c, mod, Or(GeqMod(s.c, mod, 1), s.carry)).c

zzSubMod_fast(a, b, mod) ==
  LET s == zzSub(a, b) IN IF s.carry # 0 THEN zzAdd2(s.c, mod).c ELSE s.c
zzSubMod_safe(a, b, mod) ==
  LET s == zzSub(a, b) IN zzAddAndW(s.c, mod, (W - s.carry) % W)

zzSubWMod_fast(a, w, mod) ==
  LET s == zzSubW(a, w) IN IF s.carry # 0 THEN zzAdd2(s.c, mod).c ELSE s.c
zzSubWMod_safe(a, w, mod) ==
  LET s == zzSubW(a, w) IN zzAddAndW(s.c, mod, (W - s.carry) % W)

zzNegMod_fast(a, mod) ==
  IF wwIsZero_fast(a) THEN wwSetZero(N(a)) ELSE zzSub(mod, a).c
zzNegMod_safe(a, mod) ==
  LET b == zzSub(mod, a).c IN MaskSub(b, mod, B01(wwEq_safe(b, mod))).c

zzMulMod(a, b, mod) == zzMod(zzMul(a, b), mod)
zzMulWMod(a, w, mod) ==
  LET p == zzMulW(a, w) IN zzMod(Join(p.c, [j \in {0} |-> p.carry]), mod)
zzSqrMod(a, mod) == zzMod(zzSqr(a), mod)

Double(a) ==
  Ripple(LAMBDA i, k : <<Or(Shl(a[i], 1), k), Shr(a[i], B - 1)>>, N(a), 0)
zzDoubleMod_fast(a, mod) ==
  LET d == Double(a)
  IN IF d.carry # 0 \/ wwCmp_fast(d.c, mod) >= 0 THEN zzSub2(d.c, mod).c ELSE d.c
zzDoubleMod_safe(a, mod) ==
  LET d == Double(a) IN MaskSub(d.c, mod, Or(GeqMod(d.c, mod, 1), d.carry)).c

Halve(a, carry) == wwShLoCarry(a, 1, carry).a
zzHalfMod_fast(a, mod) ==
  IF zzIsOdd(a) THEN LET s == zzAdd(a, mod) IN Halve(s.c, s.carry) ELSE Halve(a, 0)

(* One pass: the sum with the masked modulus is shifted a word behind.     *)
zzHalfMod_safe(a, mod) ==
  LET n == N(a)
      mask == (W - And(a[0], 1)) % W
      Step(s, i) ==
        LET x == Plus(a[i], s.carry)
            y == Plus(x, And(mask, mod[i]))
        IN [b |-> [j \in 0 .. i |->
                     CASE j = i -> Shr(y, 1)
                       [] j = i - 1 -> Or(s.b[j], Shl(And(y, 1), B - 1))
                       [] OTHER -> s.b[j]],
            carry |-> Or(B01(x < s.carry), B01(y < And(mask, mod[i])))]
      s == Iter(Step, [b |-> [j \in {} |-> 0], carry |-> 0], n)
  IN [s.b EXCEPT ![n - 1] = Or(@, Shl(s.carry, B - 1))]

(* The generator gives the numbers of draws; each is cut to the length of  *)
(* the modulus.  One more is drawn after a bad one at most tries times.    *)
RandMod(draws, mod, tries, Bad(_)) ==
  LET l == wwBitSize(mod)
      s == While(LAMBDA t : t.k = 0 \/ (Bad(t.a) /\ t.i > 0),
                 LAMBDA t : [a |-> wwTrimHi(draws[t.k + 1], l), k |-> t.k + 1,
                             i |-> IF t.k = 0 THEN t.i ELSE t.i - 1],
                 [a |-> mod, k |-> 0, i |-> tries], tries + 1)
  IN [a |-> s.a, ok |-> ~Bad(s.a), k |-> s.k]

zzRandMod(draws, mod) == RandMod(draws, mod, Impossible, LAMBDA a : wwCmp_safe(a, mod) >= 0)
zzRandNZMod(draws, mod) ==
  RandMod(draws, mod, IF wwBitSize(mod) <= 16 THEN 2 * Impossible ELSE Impossible,
          LAMBDA a : wwIsZero_safe(a) \/ wwCmp_safe(a, mod) >= 0)

(* zz_red.c.  The number a has 2 n words.                                  *)
zzRed(a, mod) == zzMod(a, mod)

(* The modulus is W^n - c with a word c: the upper half is folded twice.   *)
Folded(a, mod) ==
  LET n == N(mod)
      c == (W - mod[0]) % W
      s == zzAddMulW(Part(a, 0, n), Part(a, n, n), c)
      p == s.carry * c + s.c[0]
      t == zzAddW2(Part(s.c, 1, n - 1), p \div W)
  IN [a |-> Join([j \in {0} |-> p % W], t.c), carry |-> t.carry]

zzRedCrand_fast(a, mod) ==
  LET f == Folded(a, mod)
  IN IF f.carry # 0 \/ wwCmp_fast(f.a, mod) >= 0
     THEN zzAddW2(f.a, (W - mod[0]) % W).c ELSE f.a
zzRedCrand_safe(a, mod) ==
  LET f == Folded(a, mod)
      lo == B01(mod[0] <= f.a[0])
      hi == GeqMod(Part(f.a, 1, N(mod) - 1), Part(mod, 1, N(mod) - 1), lo)
      mask == (W - Or(hi, f.carry)) % W
  IN zzAddW2(f.a, And(mask, (W - mod[0]) % W)).c

zzRedBarrStart(mod) ==
  zzDiv([i \in 0 .. 2 * N(mod) |-> B01(i = 2 * N(mod))], mod).q

BarrRest(a, mod, param) ==
  LET n == N(mod)
      q == zzMul(Part(a, n - 1, n + 1), param)
      qm == zzMul(Part(q, n + 1, n + 2), mod)
  IN zzSub2(Part(a, 0, n + 1), Part(qm, 0, n + 1)).c
SubTop(a, r) == Join(r.c, [j \in {0} |-> Minus(a[N(r.c)], r.carry)])

zzRedBarr_fast(a, mod, param) ==
  LET n == N(mod)
      Cut(x) == SubTop(x, zzSub2(Part(x, 0, n), mod))
  IN Part(While(LAMBDA x : wwCmp2_fast(x, mod) >= 0, Cut, BarrRest(a, mod, param), W),
          0, n)
zzRedBarr_safe(a, mod, param) ==
  LET n == N(mod)
      Cut(x) == LET lo == Part(x, 0, n)
                IN SubTop(x, MaskSub(lo, mod, Or(GeqMod(lo, mod, 1), x[n])))
  IN Part(Cut(Cut(BarrRest(a, mod, param))), 0, n)

(* Montgomery: multiples of the modulus make the low words zero.  last is  *)
(* the word the last multiple was made with.                               *)
MontRest(a, mod, param) ==
  LET n == N(mod)
      Step(s, i) ==
        LET w == (s.a[i] * param) % W
            t == zzAddMulW(Part(s.a, i, n), mod, w)
            u == zzAddW2(Part(s.a, i + n, n - i), t.carry)
        IN [a |-> Put(Put(s.a, i, t.c), i + n, u.c),
            carry |-> Or(s.carry, u.carry), last |-> w]
      s == Iter(Step, [a |-> a, carry |-> 0, last |-> 0], n)
  IN [s EXCEPT !.a = Part(s.a, n, n)]

(* Faulty variant: the carry of the sum is left out of the comparison. *)
LastSub_fast_variant(s, mod) ==
  IF wwCmp2_fast(s.a, mod) >= 0 THEN zzSub2(s.a, mod).c ELSE s.a

LastSub_fast(s, mod) ==
  IF wwCmp2_fast(Join(s.a, [j \in {0} |-> s.carry]), mod) >= 0
  THEN zzSub2(s.a, mod).c ELSE s.a

(* The regular edition goes on with the word w of the loop before it: the  *)
(* comparison starts from what is left there.                              *)
LastSub_safe(s, mod) ==
  MaskSub(s.a, mod, Or(GeqMod(s.a, mod, s.last), s.carry)).c

zzRedMont_fast(a, mod, param) == LastSub_fast(MontRest(a, mod, param), mod)
zzRedMont_safe(a, mod, param) == LastSub_safe(MontRest(a, mod, param), mod)

(* The same with a modulus W^n - c: w * mod is w * W^n - w * c.            *)
CrandMontRest(a, mod, param) ==
  LET n == N(mod)
      c == (W - mod[0]) % W
      Step(s, i) ==
        LET w == (s.a[i] * param) % W
            up == Plus(w, s.carry)
            hi == Plus(s.a[i + n], up)
            dn == Plus((w * c) \div W, s.borrow)
            a1 == [s.a EXCEPT ![i + n] = hi]
        IN [a |-> [a1 EXCEPT ![i + 1] = Minus(@, dn)],
            carry |-> Or(B01(up < s.carry), B01(hi < up)),
            borrow |-> Or(B01(dn < s.borrow), B01(a1[i + 1] < dn)),
            last |-> dn]
      s == Iter(Step, [a |-> a, carry |-> 0, borrow |-> 0, last |-> 0], n)
      u == zzSubW2(Part(s.a, n + 1, n - 1), s.borrow)
  IN [a |-> Join([j \in {0} |-> s.a[n]], u.c), carry |-> Minus(s.carry, u.carry),
      last |-> s.last]

zzRedCrandMont_safe(a, mod, param) == LastSub_safe(CrandMontRest(a, mod, param), mod)
zzRedCrandMont_fast(a, mod, param) == LastSub_fast(CrandMontRest(a, mod, param), mod)

-----------------------------------------------------------------------------
(***************************************************************************)
(* Divisors, symbols, roots and powers of integers: zz_gcd.c, zz_etc.c and *)
(* zz_pow.c of src/src/math/zz, qr.c.  A number is its value here; n words *)
(* it is kept in matter where a carry can leave them.                      *)
(***************************************************************************)
LoZeros(v) == CHOOSE k \in 0 .. 2 * B * W : v % 2 ^ k = 0 /\ (v \div 2 ^ k) % 2 = 1
OddPart(v) == v \div 2 ^ LoZeros(v)
BitLen(v) == CHOOSE k \in 0 .. 2 * B * W : v < 2 ^ k /\ (k = 0 \/ v >= 2 ^ (k - 1))
WordLen(v) == CHOOSE k \in 0 .. 2 * W : v < W ^ k /\ (k = 0 \/ v >= W ^ (k - 1))

(* Steps any of the loops below can take for numbers of this size.         *)
Bound(a, b) == 2 * (BitLen(a) + BitLen(b)) + 2

zzGCD(a, b) ==
  LET s == MinOf(LoZeros(a), LoZeros(b))
      Step(t) == LET u == OddPart(t.u)  v == OddPart(t.v)
                 IN IF u > v THEN [u |-> u - v, v |-> v] ELSE [u |-> u, v |-> v - u]
      end == While(LAMBDA t : t.v # 0, Step,
                   [u |-> a \div 2 ^ s, v |-> b \div 2 ^ s], Bound(a, b))
  IN end.u * 2 ^ s

zzIsCoprime(a, b) ==
  CASE a = 0 -> b = 1
    [] a # 0 /\ b = 0 -> a = 1
    [] OTHER -> zzGCD(a, b) = 1

zzLCM(a, b) == (a * b) \div zzGCD(a, b)

(* Halve u with its coefficients; those of an odd pair take a period more. *)
HalveCo(t, u, da, db, aa, bb) ==
  While(LAMBDA s : s[u] % 2 = 0,
        LAMBDA s : IF s[da] % 2 = 0 /\ s[db] % 2 = 0
                   THEN [s EXCEPT ![u] = @ \div 2, ![da] = @ \div 2, ![db] = @ \div 2]
                   ELSE [s EXCEPT ![u] = @ \div 2, ![da] = (@ + bb) \div 2,
                                  ![db] = (@ + aa) \div 2],
        t, BitLen(t[u]) + 1)

AddMod(x, y, mod) == IF x + y >= mod THEN x + y - mod ELSE x + y

zzExGCD(a, b) ==
  LET s == MinOf(LoZeros(a), LoZeros(b))
      aa == a \div 2 ^ s
      bb == b \div 2 ^ s
      Step(t0) ==
        LET t == HalveCo(HalveCo(t0, "u", "da", "db", aa, bb), "v", "da1", "db1", aa, bb)
        IN IF t.u > t.v
           THEN [t EXCEPT !.u = @ - t.v, !.da = AddMod(@, t.da1, bb),
                          !.db = AddMod(@, t.db1, aa)]
           ELSE [t EXCEPT !.v = @ - t.u, !.da1 = AddMod(@, t.da, bb),
                          !.db1 = AddMod(@, t.db, aa)]
      end == While(LAMBDA t : t.v # 0, Step,
                   [u |-> aa, v |-> bb, da |-> 1, db |-> 0, da1 |-> 0, db1 |-> 1],
                   Bound(a, b))
  IN [d |-> end.u * 2 ^ s, da |-> end.da, db |-> end.db]

(* divident / a modulo mod.  What the loop leaves is the result, whether a *)
(* has an inverse or not: the zero set before is written over.             *)
zzDivMod(divident, a, mod) ==
  LET Even(t, u, da) ==
        While(LAMBDA s : s[u] % 2 = 0,
              LAMBDA s : [s EXCEPT ![u] = @ \div 2,
                                   ![da] = IF @ % 2 = 0 THEN @ \div 2 ELSE (@ + mod) \div 2],
              t, BitLen(t[u]) + 1)
      Step(t0) ==
        LET t == Even(Even(t0, "u", "da"), "v", "da1")
        IN IF t.u > t.v THEN [t EXCEPT !.u = @ - t.v, !.da = AddMod(@, t.da1, mod)]
                        ELSE [t EXCEPT !.v = @ - t.u, !.da1 = AddMod(@, t.da, mod)]
  IN While(LAMBDA t : t.v # 0, Step,
           [u |-> a, v |-> mod, da |-> divident, da1 |-> 0], Bound(a, mod)).da

zzInvMod(a, mod) == zzDivMod(1, a, mod)

zzAlmostInvMod(a, mod) ==
  LET lim == W ^ (WordLen(mod) + 1)
      Step(t) ==
        LET s == CASE t.v % 2 = 0 -> [t EXCEPT !.v = @ \div 2, !.da0 = (@ * 2) % lim]
                   [] t.v % 2 = 1 /\ t.u % 2 = 0 ->
                        [t EXCEPT !.u = @ \div 2, !.da = (@ * 2) % lim]
                   [] t.v % 2 = 1 /\ t.u % 2 = 1 /\ t.v > t.u ->
                        [t EXCEPT !.v = (t.v - t.u) \div 2, !.da = (t.da + t.da0) % lim,
                                  !.da0 = (@ * 2) % lim]
                   [] OTHER ->
                        [t EXCEPT !.u = (t.u - t.v) \div 2, !.da0 = (t.da0 + t.da) % lim,
                                  !.da = (@ * 2) % lim]
        IN [s EXCEPT !.k = @ + 1]
      end == While(LAMBDA t : t.u # 0, Step,
                   [u |-> a, v |-> mod, da0 |-> 1, da |-> 0, k |-> 0], Bound(a, mod))
      da == IF end.da >= mod THEN end.da - mod ELSE end.da
  IN [b |-> IF da = 0 THEN 0 ELSE mod - da, k |-> end.k]

zzJacobi(a, b) ==
  LET Step(s) ==
        IF s.u = 0 THEN [s EXCEPT !.t = 0, !.stop = TRUE]
        ELSE IF s.u = 1 THEN [s EXCEPT !.stop = TRUE]
        ELSE LET z == LoZeros(s.u)
                 u == s.u \div 2 ^ z
                 t1 == IF z % 2 = 1 /\ s.v % 8 \in {3, 5} THEN -s.t ELSE s.t
             IN [u |-> s.v % u, v |-> u, stop |-> FALSE,
                 t |-> IF u % 4 = 3 /\ s.v % 4 = 3 THEN -t1 ELSE t1]
  IN While(LAMBDA s : s.v > 1 /\ ~s.stop, Step,
           [u |-> a % b, v |-> b, t |-> 1, stop |-> FALSE], Bound(a, b)).t

(* The root of a: Newton's steps from above, ended when they stop falling. *)
(* root is what the steps leave in b.                                      *)
zzSqrt(a, words) ==
  LET n == WordLen(a)
      Step(s) ==
        LET b == s.t
            m == WordLen(b)
            q == a \div b
            high == n - m = m /\ q >= W ^ m
        IN CASE high -> [s EXCEPT !.b = b, !.stop = TRUE]
             [] ~high /\ q % W ^ m = b ->
                  [s EXCEPT !.b = b, !.stop = TRUE, !.square = a % b = 0]
             [] ~high /\ q % W ^ m > b -> [s EXCEPT !.b = b, !.stop = TRUE]
             [] OTHER -> [s EXCEPT !.b = b, !.t = ((q % W ^ m) + b) \div 2]
      t0 == (2 ^ ((BitLen(a) + 1) \div 2) - 1) % W ^ ((words + 1) \div 2 + 1)
      end == While(LAMBDA s : ~s.stop, Step,
                   [b |-> 0, t |-> t0, stop |-> FALSE, square |-> FALSE], BitLen(a) + 2)
  IN IF a = 0 THEN [root |-> 0, square |-> TRUE] ELSE [root |-> end.b, square |-> end.square]

(* qr.c.  Powers by a sliding window of w bits over the odd powers of a.   *)
qrCalcSlideWidth(m) ==
  LET bits == B * m IN
    IF bits <= 79 THEN 3 ELSE IF bits <= 239 THEN 4 ELSE IF bits <= 671 THEN 5
    ELSE IF bits <= 1791 THEN 6 ELSE 7

qrPower(a, b, w, unity, mod) ==
  LET Mul(x, y) == (x * y) % mod
      sqr == Mul(a, a)
      power[i \in 0 .. 2 ^ (w - 1) - 1] == IF i = 0 THEN a ELSE Mul(power[i - 1], sqr)
      Slide(pos) ==                     \* the window that ends in a one
        LET size == MinOf(pos + 1, w)
            bits == (b \div 2 ^ (pos + 1 - size)) % 2 ^ size
            z == LoZeros(bits)
        IN [size |-> size - z, odd |-> power[(bits \div 2 ^ z) \div 2]]
      first == Slide(BitLen(b) - 1)
      Step(s) ==
        LET slide == Slide(s.pos)
        IN IF (b \div 2 ^ s.pos) % 2 = 0
           THEN [c |-> Mul(s.c, s.c), pos |-> s.pos - 1]
           ELSE [c |-> Mul(Iter(LAMBDA c, i : Mul(c, c), s.c, slide.size), slide.odd),
                 pos |-> s.pos - slide.size]
  IN IF b = 0 THEN unity
     ELSE While(LAMBDA s : s.pos >= 0, Step,
                [c |-> first.odd, pos |-> BitLen(b) - 1 - first.size], BitLen(b)).c

zzPowerMod(a, b, m, mod) ==
  qrPower(a, b, qrCalcSlideWidth(m), 1 % mod, mod)

(* The same window of three bits over a word.                              *)
zzPowerModW(a, b, mod) == qrPower(a, b, 3, 1, mod)

-----------------------------------------------------------------------------
(***************************************************************************)
(* Rings of residues, src/src/math/zm.c and gfp.c.  zmCreate() chooses the *)
(* reduction by the shape of the modulus; a Montgomery ring keeps x as     *)
(* x R mod m, R = W^n.  zmMontCreate() makes the ring of the Montgomery    *)
(* multiplication itself, with R = 2^l.                                    *)
(***************************************************************************)
wordNegInv(w) == CHOOSE v \in Word : (w * v + 1) % W = 0
Words(v, no) == Digits(v, (no + OPerW - 1) \div OPerW)      \* wwFrom of no octets

zmCreatePlain(mod, no) ==
  [kind |-> "plain", mod |-> Words(mod, no), no |-> no,
   unity |-> wwSetW(N(Words(mod, no)), 1), param |-> 0, l |-> 0]
zmCreateCrand(mod, no) == [zmCreatePlain(mod, no) EXCEPT !.kind = "crand"]
zmCreateBarr(mod, no) ==
  [zmCreatePlain(mod, no) EXCEPT !.kind = "barr", !.param = zzRedBarrStart(Words(mod, no))]
zmCreateMont(mod, no) ==
  LET m == Words(mod, no) IN
  [kind |-> "mont", mod |-> m, no |-> no, l |-> 0,
   unity |-> zzMod(zzSub2(wwSetZero(N(m)), m).c, m), param |-> wordNegInv(m[0])]
zmMontCreate(mod, no, l) ==
  LET m == Words(mod, no)
      top == IF l = B * N(m) THEN zzSub2(wwSetZero(N(m)), m).c
             ELSE wwSetBit(wwSetZero(N(m)), l, TRUE)
  IN [kind |-> "mont2", mod |-> m, no |-> no, l |-> l,
      unity |-> zzMod(top, m), param |-> wordNegInv(m[0])]

zmCreate(mod, no) ==
  LET m == Words(mod, no)
      crand == /\ no % OPerW = 0 /\ no >= 2 * OPerW /\ m[0] # 0
               /\ \A i \in DOMAIN m \ {0} : m[i] = W - 1
  IN CASE no <= 2 * OPerW -> zmCreatePlain(mod, no)
       [] no > 2 * OPerW /\ crand -> zmCreateCrand(mod, no)
       [] no > 2 * OPerW /\ ~crand /\ m[0] % 2 = 1 -> zmCreateMont(mod, no)
       [] no >= 4 * OPerW /\ ~crand /\ m[0] % 2 = 0 -> zmCreateBarr(mod, no)
       [] OTHER -> zmCreatePlain(mod, no)

gfpCreate(p, no) ==
  IF no = 0 \/ p % 2 = 0 \/ (no = 1 /\ p = 1) THEN [kind |-> "none"]
  ELSE zmCreate(p, no)

zmIsIn(a, r) == wwCmp_safe(a, r.mod) < 0

(* The functions of a ring, one for each kind of it: as they are for plain *)
(* rings, with Crand, Barr, Mont and Mont2 for the others.                 *)
zmFrom(v, r) == [ok |-> zmIsIn(Words(v, r.no), r), a |-> Words(v, r.no)]
zmFromMont(v, r) ==
  LET a == Words(v, r.no)
  IN [ok |-> zmIsIn(a, r), a |-> zzMod(Join(wwSetZero(N(a)), a), r.mod)]
zmTo(a, r) == Val(a)
zmToMont(a, r) == Val(zzRedMont_safe(Join(a, wwSetZero(N(a))), r.mod, r.param))

zmAdd2(a, b, r) == zzAddMod_safe(a, b, r.mod)
zmSub2(a, b, r) == zzSubMod_safe(a, b, r.mod)
zmNeg2(a, r) == zzNegMod_safe(a, r.mod)

zmMul(a, b, r) == zzRed(zzMul(a, b), r.mod)
zmSqr(a, r) == zzRed(zzSqr(a), r.mod)
zmMulCrand(a, b, r) == zzRedCrand_safe(zzMul(a, b), r.mod)
zmSqrCrand(a, r) == zzRedCrand_safe(zzSqr(a), r.mod)
zmMulBarr(a, b, r) == zzRedBarr_safe(zzMul(a, b), r.mod, r.param)
zmSqrBarr(a, r) == zzRedBarr_safe(zzSqr(a), r.mod, r.param)
zmMulMont(a, b, r) == zzRedMont_safe(zzMul(a, b), r.mod, r.param)
zmSqrMont(a, r) == zzRedMont_safe(zzSqr(a), r.mod, r.param)

Doubled(c, r, k, limit) ==
  Iter(LAMBDA x, i : zzDoubleMod_safe(x, r.mod), c, IF k < limit THEN limit - k ELSE 0)
zmMulMont2(a, b, r) == Doubled(zmMulMont(a, b, r), r, r.l, B * N(r.mod))
zmSqrMont2(a, r) == Doubled(zmSqrMont(a, r), r, r.l, B * N(r.mod))

zmInv(a, r) == Digits(zzInvMod(Val(a), Val(r.mod)), N(r.mod))
zmDiv(divident, a, r) == Digits(zzDivMod(Val(divident), Val(a), Val(r.mod)), N(r.mod))
AlmostInv(a, r, limit) ==
  LET t == zzAlmostInvMod(Val(a), Val(r.mod)) IN Doubled(Digits(t.b, N(r.mod)), r, t.k, limit)
zmInvMont(a, r) == AlmostInv(a, r, 2 * N(r.mod) * B)
zmInvMont2(a, r) == AlmostInv(a, r, 2 * r.l)
zmDivMont(divident, a, r) == zmMulMont(divident, zmInvMont(a, r), r)
zmDivMont2(divident, a, r) == zmMulMont2(divident, zmInvMont2(a, r), r)

(* The calls through the ring.                                             *)
qrFrom(v, r) == IF r.kind = "mont" THEN zmFromMont(v, r) ELSE zmFrom(v, r)
qrTo(a, r) == IF r.kind = "mont" THEN zmToMont(a, r) ELSE zmTo(a, r)
qrMul(a, b, r) ==
  CASE r.kind = "plain" -> zmMul(a, b, r)
    [] r.kind = "crand" -> zmMulCrand(a, b, r)
    [] r.kind = "barr" -> zmMulBarr(a, b, r)
    [] r.kind = "mont" -> zmMulMont(a, b, r)
    [] r.kind = "mont2" -> zmMulMont2(a, b, r)
qrSqr(a, r) ==
  CASE r.kind = "plain" -> zmSqr(a, r)
    [] r.kind = "crand" -> zmSqrCrand(a, r)
    [] r.kind = "barr" -> zmSqrBarr(a, r)
    [] r.kind = "mont" -> zmSqrMont(a, r)
    [] r.kind = "mont2" -> zmSqrMont2(a, r)
qrInv(a, r) ==
  CASE r.kind = "mont" -> zmInvMont(a, r)
    [] r.kind = "mont2" -> zmInvMont2(a, r)
    [] OTHER -> zmInv(a, r)
qrDiv(divident, a, r) ==
  CASE r.kind = "mont" -> zmDivMont(divident, a, r)
    [] r.kind = "mont2" -> zmDivMont2(divident, a, r)
    [] OTHER -> zmDiv(divident, a, r)
=============================================================================
