--------------------------------- MODULE Ec ---------------------------------
(***************************************************************************)
(* Elliptic curves over GF(p), src/src/math/ecp.c.  A curve is a record of *)
(* p, A, B, of the number n of words of p, of a3 (A = -3, which has its    *)
(* own formulas) and, once it has a group, of base, order and cofactor.    *)
(* An affine point is <<x, y>>; a Jacobian one, <<x, y, z>>, stands for    *)
(* <<x / z^2, y / z^3>>, and for the point at infinity when z = 0.         *)
(***************************************************************************)
EXTENDS Words, ZZ, Sequences, TLC

IsPrime(p) == p > 1 /\ \A d \in 2 .. p - 1 : d * d <= p => p % d # 0
ModInv(x, p) == CHOOSE i \in 0 .. p - 1 : (i * x) % p = 1 % p
ModPow(x, k, p) == Iter(LAMBDA v, i : (v * x) % p, 1 % p, k)
Half(x, p) == IF x % 2 = 0 THEN x \div 2 ELSE (x + p) \div 2
Reduced(a, ec) == [i \in DOMAIN a |-> a[i] % ec.p]
Point(x, y, z, ec) == Eager(Reduced(<<x, y, z>>, ec))
AtInfinity(a) == <<a[1], a[2], 0>>

ecpFromAJ(a, ec) == <<a[1], a[2], 1>>
ecpToAJ(a, ec) ==
  LET t1 == ModInv(a[3], ec.p)
      t2 == (t1 * t1) % ec.p
  IN IF a[3] = 0 THEN [ok |-> FALSE, b |-> <<>>]
     ELSE [ok |-> TRUE, b |-> Reduced(<<a[1] * t2, a[2] * ((t1 * t2) % ec.p)>>, ec)]
ecpNegJ(a, ec) == Point(a[1], -a[2], a[3], ec)

(* The double of a by the slope t1 of the tangent.                         *)
TwiceBySlope(a, t1, ec) ==
  LET y == (4 * a[2] * a[2]) % ec.p
      t2 == Half((y * y) % ec.p, ec.p)
      s == (y * a[1]) % ec.p
      x == (t1 * t1 - 2 * s) % ec.p
  IN IF a[3] = 0 \/ a[2] = 0 THEN AtInfinity(a)
     ELSE Point(x, (s - x) * t1 - t2, 2 * a[2] * a[3], ec)
ecpDblJ(a, ec) ==
  LET t1 == (a[3] * a[3]) % ec.p
  IN TwiceBySlope(a, (((t1 * t1) % ec.p) * ec.A + 3 * a[1] * a[1]) % ec.p, ec)
ecpDblJA3(a, ec) ==
  LET t1 == (a[3] * a[3]) % ec.p
  IN TwiceBySlope(a, (3 * (a[1] - t1) * (a[1] + t1)) % ec.p, ec)
ecpDblAJ(a, ec) ==
  LET t1 == a[1] * a[1]
      t2 == a[2] * a[2]
      t3 == (t2 * t2) % ec.p
      s == (2 * ((t2 + a[1]) * (t2 + a[1]) - t1 - t3)) % ec.p
      t4 == (3 * t1 + ec.A) % ec.p
      x == (t4 * t4 - 2 * s) % ec.p
  IN IF a[2] = 0 THEN AtInfinity(a)
     ELSE Point(x, t4 * (s - x) - 8 * t3, 2 * a[2], ec)

(* The sum.  It is stored in c, which may be a or b: z of c is ready when  *)
(* the points turn out to be equal, and the one of them that is not c is   *)
(* doubled.  When c is both, inPlace, its new z is doubled with the rest.  *)
ecpAddJ(a, b, inPlace, ec) ==
  LET za == (a[3] * a[3]) % ec.p
      zb == (b[3] * b[3]) % ec.p
      t3 == (a[2] * b[3] * zb) % ec.p
      t4 == (b[2] * a[3] * za) % ec.p
      z == ((a[3] + b[3]) * (a[3] + b[3]) - za - zb) % ec.p
      t2 == (a[1] * zb) % ec.p
      t1 == (b[1] * za - t2) % ec.p
      r == (2 * (t4 - t3)) % ec.p
      y == (4 * t1 * t1) % ec.p
      h == (t1 * y) % ec.p
      v == (t2 * y) % ec.p
      x == (r * r - h - 2 * v) % ec.p
  IN CASE a[3] = 0 -> b
       [] a[3] # 0 /\ b[3] = 0 -> a
       [] a[3] # 0 /\ b[3] # 0 /\ t1 = 0 /\ t3 = t4 ->
            ecpDblJ(IF inPlace THEN <<b[1], b[2], z>> ELSE b, ec)
       [] a[3] # 0 /\ b[3] # 0 /\ t1 = 0 /\ t3 # t4 -> AtInfinity(a)
       [] OTHER -> Point(x, r * (v - x) - 2 * t3 * h, z * t1, ec)

(* b is affine.                                                            *)
ecpAddAJ(a, b, ec) ==
  LET za == (a[3] * a[3]) % ec.p
      t1 == (za * b[1] - a[1]) % ec.p
      t2 == (((za * a[3]) % ec.p) * b[2] - a[2]) % ec.p
      t3 == (t1 * t1) % ec.p
      t4 == (t1 * t3) % ec.p
      v == (t3 * a[1]) % ec.p
      x == (t2 * t2 - 2 * v - t4) % ec.p
  IN CASE a[3] = 0 -> ecpFromAJ(b, ec)
       [] a[3] # 0 /\ t1 = 0 /\ t2 = 0 -> ecpDblAJ(b, ec)
       [] a[3] # 0 /\ t1 = 0 /\ t2 # 0 -> AtInfinity(a)
       [] OTHER -> Point(x, (v - x) * t2 - t4 * a[2], t1 * a[3], ec)
ecpSubJ(a, b, ec) == ecpAddJ(a, ecpNegJ(b, ec), FALSE, ec)
ecpSubAJ(a, b, ec) == ecpAddAJ(a, Reduced(<<b[1], -b[2]>>, ec), ec)

(* The triple by t4, the slope of the tangent, and t6, twelve x y^2 less   *)
(* the square of the slope.                                                *)
Tripled(a, t4, t6, ec) ==
  LET t1 == (a[2] * a[2]) % ec.p
      t5 == (t4 * t4) % ec.p
      t7 == (t6 * t6) % ec.p
      t2 == ((t4 + t6) * (t4 + t6) - t5 - t7 - 16 * t1 * t1) % ec.p
      t3 == (t2 * (16 * t1 * t1 - t2) - t6 * t7) % ec.p
      z == (a[3] + t6) * (a[3] + t6) - a[3] * a[3] - t7
  IN Point(4 * (a[1] * t7 - 4 * t1 * t2), 8 * a[2] * t3, z, ec)
ecpTplJ(a, ec) ==
  LET t0 == a[1] * a[1]
      t1 == (a[2] * a[2]) % ec.p
      t3 == t1 * t1
      z2 == (a[3] * a[3]) % ec.p
      t4 == (((z2 * z2) % ec.p) * ec.A + 3 * t0) % ec.p
      t6 == (6 * ((a[1] + t1) * (a[1] + t1) - t0 - t3) - t4 * t4) % ec.p
  IN Tripled(a, t4, t6, ec)
ecpTplJA3(a, ec) ==
  LET t1 == (a[2] * a[2]) % ec.p
      t2 == (a[3] * a[3]) % ec.p
      t4 == (3 * (a[1] - t2) * (a[1] + t2)) % ec.p
      t6 == (12 * a[1] * t1 - t4 * t4) % ec.p
  IN Tripled(a, t4, t6, ec)

ecDouble(a, ec) == IF ec.a3 THEN ecpDblJA3(a, ec) ELSE ecpDblJ(a, ec)
ecTriple(a, ec) == IF ec.a3 THEN ecpTplJA3(a, ec) ELSE ecpTplJ(a, ec)

NoCurve == [kind |-> "none"]
ecpCreateJ(p, A, b) ==
  IF p <= 3 \/ A >= p \/ b >= p THEN NoCurve
  ELSE [kind |-> "p", p |-> p, n |-> Cardinality({i \in 0 .. 30 \div B : p >= W ^ i}),
        A |-> A, B |-> b, a3 |-> A = (-3) % p]
ecpIsValid(ec) ==
  /\ IsPrime(ec.p) /\ ec.p > 3 /\ ec.A < ec.p /\ ec.B < ec.p
  /\ (4 * ec.A * ec.A * ec.A + 27 * ec.B * ec.B) % ec.p # 0
ecpIsOnA(a, ec) ==
  /\ a[1] < ec.p /\ a[2] < ec.p
  /\ ((a[1] * a[1] + ec.A) * a[1] + ec.B) % ec.p = (a[2] * a[2]) % ec.p

(* The bound of Hasse, |order * cofactor - 1 - p| <= 2 sqrt p.             *)
ecpSeemsValidGroup(ec) ==
  LET t1 == ec.order * ec.cofactor - 1 - ec.p
      w == (t1 * t1) % 4
      t2 == (t1 * t1) \div 4
  IN /\ ec.order # 0 /\ ec.cofactor # 0 /\ ecpIsOnA(ec.base, ec)
     /\ t2 < ec.p \/ (t2 = ec.p /\ w = 0)
SafeOrder(q, order, mov) ==
  /\ IsPrime(order) /\ q # order
  /\ \A k \in 1 .. mov : ModPow(q % order, k, order) # 1
ecpIsSafeGroup(ec, mov) == SafeOrder(ec.p, ec.order, mov)

NoPoint == [ok |-> FALSE, c |-> <<>>]
ByChord(a, b, dx, dy, ec) ==
  LET t2 == (dy * ModInv(dx % ec.p, ec.p)) % ec.p
      x == (t2 * t2 - a[1] - b[1]) % ec.p
  IN [ok |-> TRUE, c |-> Eager(Reduced(<<x, t2 * (a[1] - x) - a[2]>>, ec))]
Tangent(a, ec) == 3 * a[1] * a[1] + ec.A
ecpNegA(a, ec) == Reduced(<<a[1], -a[2]>>, ec)
ecpAddAA(a, b, ec) ==
  CASE a[1] # b[1] -> ByChord(a, b, a[1] - b[1], a[2] - b[2], ec)
    [] a[1] = b[1] /\ (a[2] # b[2] \/ b[2] = 0) -> NoPoint
    [] OTHER -> ByChord(a, a, 2 * a[2], Tangent(a, ec), ec)
ecpSubAA(a, b, ec) ==
  CASE a[1] # b[1] -> ByChord(a, b, a[1] - b[1], a[2] + b[2], ec)
    [] a[1] = b[1] /\ a[2] = b[2] -> NoPoint
    [] OTHER -> ByChord(a, a, 2 * a[2], Tangent(a, ec), ec)

(* A point made of the element a; p = 3 mod 4, A and B are not 0.          *)
ecpSWU(a, ec) ==
  LET p == ec.p
      t == (-(a * a)) % p
      d == (t * t + t) % p
      x1 == (-(ModPow((d * ec.A) % p, p - 2, p) * (((d + 1) % p) * ec.B))) % p
      x2 == (x1 * t) % p
      y == (x1 * ec.A + x1 * x1 * x1 + ec.B) % p
      s == ModPow(y, p - 2 - (p \div 4), p)
  IN IF (s * s * y) % p = 1 THEN <<x1, (s * y) % p>>
     ELSE <<x2, (s * ((a * a * a) % p) * y) % p>>

-----------------------------------------------------------------------------
(***************************************************************************)
(* Elliptic curves y^2 + xy = x^3 + A x^2 + B over GF(2^m),                *)
(* src/src/math/ec2.c.  An element of the field is the number its bits     *)
(* make, and a field is its degree m with its table of products.           *)
(* A point <<x, y, z>> of Lopez and Dahab stands for <<x / z, y / z^2>>,   *)
(* and for the point at infinity when z = 0.                               *)
(***************************************************************************)
(* The field of the polynomials modulo poly, a number of m + 1 bits.       *)
BinaryField(m, poly) ==
  LET Twice(v) == IF 2 * v < 2 ^ m THEN 2 * v ELSE Xor(2 * v, poly)
      Product(x, y) ==
        Iter(LAMBDA v, i : Xor(Twice(v), IF Bit(y, m - 1 - i) = 1 THEN x ELSE 0), 0, m)
  IN Eager([m |-> m,
            mul |-> [x \in 0 .. 2 ^ m - 1 |-> [y \in 0 .. 2 ^ m - 1 |-> Product(x, y)]]])

Mul(x, y, ec) == ec.f.mul[x][y]
Sqr(x, ec) == ec.f.mul[x][x]
Quotient(y, x, ec) == CHOOSE q \in 0 .. 2 ^ ec.f.m - 1 : Mul(q, x, ec) = y
Xor3(x, y, z) == Xor(Xor(x, y), z)

ec2FromALD(a, ec) == <<a[1], a[2], 1>>
ec2ToALD(a, ec) ==
  LET t1 == Quotient(1, a[3], ec)
  IN IF a[3] = 0 THEN [ok |-> FALSE, b |-> <<>>]
     ELSE [ok |-> TRUE, b |-> <<Mul(a[1], t1, ec), Mul(a[2], Sqr(t1, ec), ec)>>]
ec2NegLD(a, ec) == Eager(<<a[1], Xor(a[2], Mul(a[1], a[3], ec)), a[3]>>)

(* Faulty variant: every A that is not 0 is taken for 1. *)
ByA_variant(x, ec) == IF ec.A = 0 THEN 0 ELSE x

(* A = 1 and A = 0 take no product.                                        *)
ByA(x, ec) == CASE ec.A = 1 -> x [] ec.A = 0 -> 0 [] OTHER -> Mul(ec.A, x, ec)

ec2DblLD(a, ec) ==
  LET t1 == Mul(a[1], a[3], ec)
      z == Sqr(t1, ec)
      t2 == Sqr(a[1], ec)
      u == Xor(a[2], t2)
      v == Mul(t1, u, ec)
      x == Xor3(Sqr(u, ec), v, ByA(z, ec))
  IN IF a[3] = 0 \/ a[1] = 0 THEN AtInfinity(a)
     ELSE Eager(<<x, Xor(Mul(Sqr(t2, ec), z, ec), Mul(Xor(v, z), x, ec)), z>>)
ec2DblALD(a, ec) ==
  LET z == Sqr(a[1], ec)
      x == Xor(Sqr(z, ec), ec.B)
      y == Xor3(Sqr(a[2], ec), ec.B, ByA(z, ec))
  IN IF a[1] = 0 THEN AtInfinity(<<a[1], a[2]>>)
     ELSE Eager(<<x, Xor(Mul(y, x, ec), Mul(ec.B, z, ec)), z>>)

ec2AddLD(a, b, ec) ==
  LET t1 == Mul(a[1], b[3], ec)
      t2 == Mul(b[1], a[3], ec)
      t3 == Mul(Sqr(b[3], ec), a[2], ec)
      t4 == Mul(Sqr(a[3], ec), b[2], ec)
      t5 == Mul(Xor(t1, t2), Xor(t3, t4), ec)
      s1 == Sqr(t1, ec)
      s2 == Sqr(t2, ec)
      t6 == Xor(s1, s2)
      z == Mul(t6, Mul(a[3], b[3], ec), ec)
      x == Xor(Mul(t2, Xor(s1, t3), ec), Mul(t1, Xor(t4, s2), ec))
      w == Mul(Xor(Mul(t1, t5, ec), Mul(t3, t6, ec)), t6, ec)
  IN CASE a[3] = 0 -> b
       [] a[3] # 0 /\ b[3] = 0 -> a
       [] a[3] # 0 /\ b[3] # 0 /\ t1 = t2 /\ t3 = t4 -> ec2DblLD(a, ec)
       [] a[3] # 0 /\ b[3] # 0 /\ t1 = t2 /\ t3 # t4 -> AtInfinity(a)
       [] OTHER -> Eager(<<x, Xor(Mul(Xor(t5, z), x, ec), w), z>>)

(* b is affine.                                                            *)
ec2AddALD(a, b, ec) ==
  LET t1 == Xor(Mul(b[2], Sqr(a[3], ec), ec), a[2])
      t2 == Xor(Mul(b[1], a[3], ec), a[1])
      t3 == Mul(t2, a[3], ec)
      z == Sqr(t3, ec)
      u == Xor3(Sqr(t2, ec), t1, ByA(t3, ec))
      x == Xor(Mul(u, t3, ec), Sqr(t1, ec))
      t4 == Xor(Mul(b[1], z, ec), x)
      w == Mul(Xor(Mul(t1, t3, ec), z), t4, ec)
  IN CASE a[3] = 0 -> ec2FromALD(b, ec)
       [] a[3] # 0 /\ t2 = 0 /\ t1 = 0 -> ec2DblALD(b, ec)
       [] a[3] # 0 /\ t2 = 0 /\ t1 # 0 -> AtInfinity(a)
       [] OTHER -> Eager(<<x, Xor(Mul(Xor(b[1], b[2]), Sqr(z, ec), ec), w), z>>)
ec2SubLD(a, b, ec) == ec2AddLD(a, ec2NegLD(b, ec), ec)
ec2SubALD(a, b, ec) == ec2AddALD(a, <<b[1], Xor(b[1], b[2])>>, ec)

ec2CreateLD(f, n, A, b) ==
  IF A >= 2 ^ f.m \/ b >= 2 ^ f.m THEN NoCurve
  ELSE [kind |-> "2", f |-> f, n |-> n, A |-> A, B |-> b]
ec2IsValid(ec) == ec.A < 2 ^ ec.f.m /\ ec.B < 2 ^ ec.f.m /\ ec.B # 0
ec2IsOnA(a, ec) ==
  /\ a[1] < 2 ^ ec.f.m /\ a[2] < 2 ^ ec.f.m
  /\ Xor(Mul(Sqr(a[1], ec), Xor(a[1], ec.A), ec), ec.B)
       = Mul(Xor(a[1], a[2]), a[2], ec)

(* The square of the distance from order * cofactor - 1 to 2^m, t3, is     *)
(* compared in the end with its own low words, not with 2^(m + 2): a t3 of *)
(* more than n + 1 words is refused, any other passes.                     *)
ec2SeemsValidGroup(ec) ==
  LET t2 == ec.order * ec.cofactor - 1 - 2 ^ ec.f.m
      size == Cardinality({i \in 0 .. 30 \div B : (IF t2 < 0 THEN -t2 ELSE t2) >= W ^ i})
  IN /\ ec.order # 0 /\ ec.cofactor # 0 /\ ec2IsOnA(ec.base, ec)
     /\ size <= ec.n /\ t2 * t2 <= (t2 * t2) % W ^ (ec.n + 1)
ec2IsSafeGroup(ec, mov) == SafeOrder(2 ^ ec.f.m, ec.order, mov)

ec2NegA(a, ec) == <<a[1], Xor(a[1], a[2])>>
ec2AddAA(a, b, ec) ==
  LET same == a[1] = b[1]
      dx == Xor(a[1], b[1])
      t == IF same THEN Xor(Quotient(a[2], a[1], ec), a[1])
           ELSE Quotient(Xor(a[2], b[2]), dx, ec)
      x == Xor(Xor3(dx, t, Sqr(t, ec)), ec.A)
      y == Xor3(Mul(Xor(a[1], x), t, ec), x, a[2])
  IN IF same /\ (a[2] # b[2] \/ a[1] = 0) THEN NoPoint
     ELSE [ok |-> TRUE, c |-> Eager(<<x, y>>)]
ec2SubAA(a, b, ec) == ec2AddAA(a, ec2NegA(b, ec), ec)

-----------------------------------------------------------------------------
(***************************************************************************)
(* Groups of points and multiples of points, src/src/math/ec.c, over the   *)
(* curves of Ecp and Ec2: a curve brings its own functions along.          *)
(***************************************************************************)
ecFromA(a, ec) == IF ec.kind = "p" THEN ecpFromAJ(a, ec) ELSE ec2FromALD(a, ec)
ecToA(a, ec) == IF ec.kind = "p" THEN ecpToAJ(a, ec) ELSE ec2ToALD(a, ec)
ecAdd(a, b, ec) == IF ec.kind = "p" THEN ecpAddJ(a, b, FALSE, ec) ELSE ec2AddLD(a, b, ec)
ecAddA(a, b, ec) == IF ec.kind = "p" THEN ecpAddAJ(a, b, ec) ELSE ec2AddALD(a, b, ec)
ecSub(a, b, ec) == IF ec.kind = "p" THEN ecpSubJ(a, b, ec) ELSE ec2SubLD(a, b, ec)
ecSubA(a, b, ec) == IF ec.kind = "p" THEN ecpSubAJ(a, b, ec) ELSE ec2SubALD(a, b, ec)
ecDbl(a, ec) == IF ec.kind = "p" THEN ecDouble(a, ec) ELSE ec2DblLD(a, ec)
ecDblA(a, ec) == IF ec.kind = "p" THEN ecpDblAJ(a, ec) ELSE ec2DblALD(a, ec)
Elements(ec) == 0 .. (IF ec.kind = "p" THEN ec.p ELSE 2 ^ ec.f.m) - 1

(* xbase or ybase may be left out: None stands for the null pointer.       *)
None == -1
ecCreateGroup(ec, xbase, ybase, order, cofactor) ==
  LET Given(v) == IF v = None THEN 0 ELSE v
  IN IF \/ order = 0 \/ order >= W ^ (ec.n + 1) \/ cofactor \notin 1 .. W - 1
        \/ Given(xbase) \notin Elements(ec) \/ Given(ybase) \notin Elements(ec)
     THEN NoCurve
     ELSE ec @@ [base |-> <<Given(xbase), Given(ybase)>>, order |-> order,
                 cofactor |-> cofactor]
ecIsOperableGroup(ec) == ec.order # 0 /\ ec.cofactor # 0

ecNAFWidth(l) ==
  CASE l >= 336 -> 6
    [] l >= 120 /\ l < 336 -> 5
    [] l >= 40 /\ l < 120 -> 4
    [] OTHER -> 3

(* The odd multiples a, 3a, 5a, ... that the digits of width w refer to.   *)
Multiples(a, w, ec) ==
  LET t == ecDblA(a, ec)
      first == ecFromA(a, ec)
      second == ecAddA(t, first, ec)
  IN Iter(LAMBDA pre, i : Append(pre, ecAdd(t, pre[i + 2], ec)),
          <<first, second>>, 2 ^ (w - 2) - 2)

(* t with the digit of code v added: v or, when its high bit is set, minus *)
(* the rest of v.                                                          *)
AddDigit(t, v, a, pre, w, ec) ==
  LET hi == 2 ^ (w - 1)
  IN CASE v = 1 -> ecAddA(t, a, ec)
       [] v = hi + 1 -> ecSubA(t, a, ec)
       [] v > hi + 1 -> ecSub(t, pre[((v - hi) \div 2) + 1], ec)
       [] OTHER -> ecAdd(t, pre[(v \div 2) + 1], ec)

ecMulA(a, ec, d) ==
  LET w == ecNAFWidth(B * N(d))
      c == wwNAF(d, w)
      pre == Multiples(a, w, ec)
      Step(s, i) ==
        LET v == wwGetBits(c.naf, s.pos, w)
            t == ecDbl(s.t, ec)
        IN IF v % 2 = 1 THEN [t |-> AddDigit(t, v, a, pre, w, ec), pos |-> s.pos + w]
           ELSE [t |-> t, pos |-> s.pos + 1]
      top == pre[(wwGetBits(c.naf, 0, w) \div 2) + 1]
  IN IF c.size = 0 THEN [ok |-> FALSE, b |-> <<>>]
     ELSE ecToA(Iter(Step, [t |-> top, pos |-> w], c.size - 1).t, ec)
ecHasOrderA(a, ec, q) == ~ecMulA(a, ec, q).ok

(* The sum of d * a over the pairs <<a, d>> of terms, digit by digit: the  *)
(* forms of the multipliers end together.                                  *)
ecAddMulA(ec, terms) ==
  LET k == Len(terms)
      Form(i) ==
        LET d == Part(terms[i][2], 0, wwWordSize(terms[i][2]))
            w == ecNAFWidth(B * N(d))
            c == wwNAF(d, w)
        IN [a |-> terms[i][1], w |-> w, naf |-> c.naf, size |-> c.size,
            pre |-> Multiples(terms[i][1], w, ec)]
      forms == Eager([i \in 1 .. k |-> Form(i)])
      longest == Iter(LAMBDA v, i : MaxOf(v, forms[i + 1].size), 0, k)
      Digit(s, i, left) ==
        LET f == forms[i + 1]
            v == wwGetBits(f.naf, s.pos[i + 1], f.w)
        IN CASE f.size < left -> s
             [] f.size >= left /\ v % 2 = 1 ->
                  [t |-> AddDigit(s.t, v, f.a, f.pre, f.w, ec),
                   pos |-> [s.pos EXCEPT ![i + 1] = @ + f.w]]
             [] OTHER -> [s EXCEPT !.pos[i + 1] = @ + 1]
      Round(s, j) ==
        Iter(LAMBDA r, i : Digit(r, i, longest - j), [s EXCEPT !.t = ecDbl(s.t, ec)], k)
  IN ecToA(Iter(Round, [t |-> <<0, 0, 0>>, pos |-> [i \in 1 .. k |-> 0]], longest).t, ec)
=============================================================================
