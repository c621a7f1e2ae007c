------------------------------- MODULE MCCore -------------------------------
(***************************************************************************)
(* What the cryptography stands on: src/src/core and src/src/math.  A job  *)
(* is an area of arithmetic, a format or an operation on octets, of which  *)
(* a step takes one choice of arguments and the properties compare the     *)
(* functions with what they stand for; or it is mtCallOnce() or            *)
(* utilOnExit() among threads, MCSupport.  A behaviour shows one job and   *)
(* leaves the others at rest.                                              *)
(*                                                                         *)
(* Words have four bits.  Probe words are those at the ends of a word and  *)
(* around its sign bit.                                                    *)
(***************************************************************************)
EXTENDS Pri, PP, ZZMod, MCSupport

VARIABLES
  job,           \* what is tried: an area of the functions, or a part
  probe          \* their arguments

Format == INSTANCE MCCodecs

Probe == {0, 1, 7, 8, 14, 15}
Numbers(n) == [0 .. n - 1 -> Probe]
Pairs(T) == T \X T
Full(n, T) == {d \in [0 .. n - 1 -> T] : d[n - 1] # 0}

(* Areas and their arguments.                                              *)
Moduli == {Digits(v, 2) : v \in {16, 23, 128, 225, 240, 247, 255}}
Residues(mod) == {r \in Numbers(2) : Val(r) < Val(mod)}
Curves == {ecpCreateJ(5, 2, 1), ecpCreateJ(7, 4, 1), ecpCreateJ(7, 0, 3), ecpCreateJ(11, 8, 3)}
          \cup {ec2CreateLD(BinaryField(3, 11), 1, A, b) : A \in {0, 1, 3}, b \in {5}}
OnA(q, ec) == IF ec.kind = "p" THEN ecpIsOnA(q, ec) ELSE ec2IsOnA(q, ec)
Points == Eager([ec \in Curves |-> {q \in Pairs(Elements(ec)) : OnA(q, ec)}])
Polys == {Digits(v, 3) : v \in {0, 1, 2, 5, 16, 127, 255, 256, 511, 1777, 2048, 3583, 4095}}
Fields == {<<5, 1, 0, 0>>, <<7, 1, 0, 0>>, <<7, 3, 0, 0>>, <<9, 4, 0, 0>>, <<8, 3, 2, 1>>,
           <<11, 3, 2, 1>>}

Arguments(j) ==
  CASE j \in {"ecp", "ec2"} ->
         UNION {{ec} \X Pairs(Points[ec]) : ec \in {c \in Curves : (c.kind = "p") = (j = "ecp")}}
    [] j = "mod" -> UNION {Pairs(Residues(mod)) \X {mod} : mod \in Moduli}
    [] j = "ww" -> Pairs(UNION {Numbers(n) : n \in 0 .. 2})
    [] j = "zz" -> Pairs(Numbers(2))
    [] j = "zzDiv" -> (Numbers(3) \X Full(2, Probe)) \cup (Numbers(2) \X Full(1, Probe))
                      \cup ([0 .. 3 -> {0, 7, 15}] \X Full(3, {0, 7, 15}))
    [] j = "gcd" -> (1 .. 24) \X (1 .. 40)
    [] j = "zm" -> Pairs({1, 3, 8, 64, 255, 310}) \X {35, 257, 401, 500, 507, 511, 4095}
    [] j = "pp" -> Pairs(Polys)
    [] j = "gf2" -> Fields \X Pairs({1, 8, 21, 100, 255, 300, 2000})
    [] j = "pri" -> {<<v>> : v \in 1 .. 230}
Areas == {"ecp", "ec2", "mod", "ww", "zz", "zzDiv", "gcd", "zm", "pp", "gf2", "pri"}

tried == <<job, probe>>
vars == <<tried, all>>
AtRest == part = "none" /\ Init /\ AtEnd!Init
CoreInit ==
  \/ job \in Areas /\ probe = <<>> /\ AtRest
  \/ Format!Init /\ AtRest
  \/ job = "support" /\ probe = <<>> /\ MCInit
Try ==
  /\ job \in Areas /\ probe = <<>> /\ probe' \in Arguments(job)
  /\ UNCHANGED <<job, all>>
TryFormat == Format!Next /\ UNCHANGED all
Support == job = "support" /\ MCNext /\ UNCHANGED tried
CoreNext == Try \/ TryFormat \/ Support
CoreSpec == CoreInit /\ [][CoreNext]_vars /\ MCFairness

-----------------------------------------------------------------------------
(* Numbers.                                                                *)
ShiftsRight(d) ==
  \A k \in 0 .. 4 * B :
    /\ Val(wwShLo(d, k)) = Val(d) \div 2 ^ k
    /\ Val(wwShHi(d, k)) = (Val(d) * 2 ^ k) % W ^ N(d)
    /\ Val(wwTrimLo(d, k)) = (Val(d) \div 2 ^ k) * 2 ^ k
    /\ Val(wwTrimHi(d, k)) = Val(d) % 2 ^ k
    /\ \A c \in Probe :
         LET lo == wwShLoCarry(d, k, c)
             hi == wwShHiCarry(d, k, c)
             down == (Val(d) * W + c * W ^ (N(d) + 1)) \div 2 ^ k
             up == (Val(d) * W + c) * 2 ^ k
         IN /\ Val(lo.a) = (down \div W) % W ^ N(d) /\ lo.carry = down % W
            /\ Val(hi.a) = (up \div W) % W ^ N(d) /\ hi.carry = (up \div W ^ (N(d) + 1)) % W
SizesRight(d) ==
  /\ \A w \in Word : /\ wwCmpW_safe(d, w) = Sign(Val(d) - w)
                     /\ wwCmpW_fast(d, w) = Sign(Val(d) - w)
  /\ wwBitSize(d) = BitLen(Val(d)) /\ wwWordSize(d) = WordLen(Val(d))
  /\ wwOctetSize(d) = (BitLen(Val(d)) + OB - 1) \div OB
BitsRight(d) ==
  \A p \in 0 .. (B * N(d)) - 1 : \A k \in 1 .. MinOf(B, (B * N(d)) - p) :
    /\ wwGetBits(d, p, k) = (Val(d) \div 2 ^ p) % 2 ^ k
    /\ (p % B) + k <= B \/ k = B =>
         \A v \in Probe : Val(wwSetBits(d, p, k, v))
                            = Val(d) + ((v % 2 ^ k) - wwGetBits(d, p, k)) * 2 ^ p

(* The digits of the form, the first one the highest, are odd numbers of w *)
(* bits with a sign or zeros, and make the number.                         *)
NAFValue(d, w) ==
  LET c == wwNAF(d, w)
      hi == 2 ^ (w - 1)
      Step(s, i) ==
        LET v == wwGetBits(c.naf, s.pos, w)
        IN IF v % 2 = 0 THEN [v |-> 2 * s.v, pos |-> s.pos + 1]
           ELSE [v |-> 2 * s.v + (IF v > hi THEN hi - v ELSE v), pos |-> s.pos + w]
  IN Iter(Step, [v |-> 0, pos |-> 0], c.size).v

(* Comparisons, shifts with carries, fields of bits and nonadjacent forms  *)
(* of numbers that end anywhere in their words are those of the values, in *)
(* the regular and the fast editions (ww.c).  wwSetBits() is asked for     *)
(* fields that lie in one word or are a word long.                         *)
NumbersRight(j, args) ==
  j = "ww" =>
    /\ wwCmp2_safe(args[1], args[2]) = Sign(Val(args[1]) - Val(args[2]))
    /\ wwCmp2_fast(args[1], args[2]) = Sign(Val(args[1]) - Val(args[2]))
    /\ N(args[1]) = N(args[2]) => /\ wwEq_safe(args[1], args[2]) = (args[1] = args[2])
                          /\ wwEq_fast(args[1], args[2]) = (args[1] = args[2])
    /\ args[1] = args[2] => /\ ShiftsRight(args[1]) /\ SizesRight(args[1]) /\ BitsRight(args[1])
                    /\ \A w \in {2, 3} : NAFValue(args[1], w) = Val(args[1])

-----------------------------------------------------------------------------
(* Integers.                                                               *)
Sum(r, v) == Val(r.c) + r.carry * W ^ N(r.c) = v
Difference(r, v) == Val(r.c) - r.carry * W ^ N(r.c) = v
PairRight(a, b) ==
  LET u == Val(a)
      v == Val(b)
  IN /\ Sum(zzAdd(a, b), u + v) /\ Sum(zzAdd_fast(a, b), u + v)
     /\ Sum(zzAdd2(a, b), u + v) /\ Sum(zzAdd2_fast(a, b), u + v)
     /\ Difference(zzSub(a, b), u - v) /\ Difference(zzSub_fast(a, b), u - v)
     /\ Difference(zzSub2_fast(a, b), u - v)
     /\ Sum(zzAdd3(a, Part(b, 0, 1)), u + b[0])
     /\ Val(zzMul(a, b)) = u * v /\ Val(zzSqr(a)) = u * u
     /\ Val(zzNeg(a)) = (-u) % W ^ 2
     /\ \A w \in {w \in 1 .. W : w * w <= W} : zzModW2(a, w) = u % w /\ zzModW2_fast(a, w) = u % w
     /\ \A c \in Numbers(2) : /\ zzIsSumEq_safe(c, a, b) = (Val(c) = u + v)
                              /\ zzIsSumEq_fast(c, a, b) = (Val(c) = u + v)
WordRight(a, w, c) ==
  LET u == Val(a)
  IN /\ Sum(zzAddW(a, w), u + w) /\ Sum(zzAddW2_fast(a, w), u + w)
     /\ Difference(zzSubW(a, w), u - w) /\ Difference(zzSubW2_fast(a, w), u - w)
     /\ zzIsSumWEq_safe(c, a, w) = (Val(c) = u + w)
     /\ zzIsSumWEq_fast(c, a, w) = (Val(c) = u + w)
     /\ Sum(zzMulW(a, w), w * u) /\ Sum(zzAddMulW(c, a, w), Val(c) + w * u)
     /\ Difference(zzSubMulW(c, a, w), Val(c) - w * u)
     /\ w > 0 => /\ zzModW(a, w) = u % w /\ zzDivW(a, w).r = u % w
                 /\ Val(zzDivW(a, w).q) = u \div w

(* Sums and products with their carries, and quotients with remainders,    *)
(* whatever estimate of a digit has to be corrected, are those of the      *)
(* integers (zz_add.c, zz_mul.c, zz_etc.c).                                *)
IntegersRight(j, args) ==
  /\ j = "zz" => PairRight(args[1], args[2]) /\ \A w \in Probe : WordRight(args[1], w, args[2])
  /\ j = "zzDiv" => LET d == zzDiv(args[1], args[2])
                    IN /\ Val(d.q) = Val(args[1]) \div Val(args[2])
                       /\ Val(d.r) = Val(args[1]) % Val(args[2]) /\ zzMod(args[1], args[2]) = d.r

-----------------------------------------------------------------------------
(* Residues.                                                               *)
Gcd(a, b) == CHOOSE d \in 1 .. MaxOf(a, b) :
               /\ a % d = 0 /\ b % d = 0
               /\ \A e \in d + 1 .. MaxOf(a, b) : a % e # 0 \/ b % e # 0
Odd(mod) == mod[0] % 2 = 1
MontInverse(mod) == CHOOSE w \in Word : (w * mod[0] + 1) % W = 0
Crandall(mod) == mod[0] # 0 /\ mod[1] = W - 1

ModRight(a, b, mod) ==
  LET u == Val(a)
      v == Val(b)
      m == Val(mod)
  IN /\ \A r \in {zzAddMod_safe(a, b, mod), zzAddMod_fast(a, b, mod)} : Val(r) = (u + v) % m
     /\ \A r \in {zzSubMod_safe(a, b, mod), zzSubMod_fast(a, b, mod)} : Val(r) = (u - v) % m
     /\ \A r \in {zzNegMod_safe(a, mod), zzNegMod_fast(a, mod)} : Val(r) = (-u) % m
     /\ \A r \in {zzDoubleMod_safe(a, mod), zzDoubleMod_fast(a, mod)} : Val(r) = (2 * u) % m
     /\ Odd(mod) => \A r \in {zzHalfMod_safe(a, mod), zzHalfMod_fast(a, mod)} :
                      Val(r) < m /\ (2 * Val(r)) % m = u
     /\ Val(zzMulMod(a, b, mod)) = (u * v) % m /\ Val(zzSqrMod(a, mod)) = (u * u) % m
     /\ \A w \in {w \in Probe : w < m} :
          /\ Val(zzMulWMod(a, w, mod)) = (u * w) % m
          /\ Val(zzAddWMod_safe(a, w, mod)) = (u + w) % m
          /\ u + w # m => Val(zzAddWMod_fast(a, w, mod)) = (u + w) % m
          /\ \A r \in {zzSubWMod_safe(a, w, mod), zzSubWMod_fast(a, w, mod)} :
               Val(r) = (u - w) % m

(* b holds the high words.  A result 0 of a product by a divisor of zero   *)
(* may be left as the modulus by the regular editions of Montgomery.       *)
RedRight(a, b, mod) ==
  LET c == Join(a, b)
      u == Val(c)
      m == Val(mod)
      barr == zzRedBarrStart(mod)
      mont == MontInverse(mod)
      Down(r) == (Val(r) * W ^ 2) % m = u % m
  IN /\ \A r \in {zzRed(c, mod), zzRedBarr_safe(c, mod, barr), zzRedBarr_fast(c, mod, barr)} :
          Val(r) = u % m
     /\ Crandall(mod) => \A r \in {zzRedCrand_safe(c, mod), zzRedCrand_fast(c, mod)} :
                           Val(r) = u % m
     /\ Odd(mod) => /\ Down(zzRedMont_fast(c, mod, mont)) /\ Val(zzRedMont_fast(c, mod, mont)) < m
                    /\ Down(zzRedMont_safe(c, mod, mont)) /\ Val(zzRedMont_safe(c, mod, mont)) <= m
     /\ Odd(mod) /\ Crandall(mod) =>
          /\ Down(zzRedCrandMont_fast(c, mod, mont)) /\ Val(zzRedCrandMont_fast(c, mod, mont)) < m
          /\ Down(zzRedCrandMont_safe(c, mod, mont)) /\ Val(zzRedCrandMont_safe(c, mod, mont)) <= m

(* The number of solutions of x^2 = a modulo a prime, less one.            *)
Legendre(a, p) == Cardinality({y \in 0 .. p - 1 : (y * y - a) % p = 0}) - 1
Jacobi(a, n) ==
  Iter(LAMBDA v, d : IF d > 1 /\ n % d = 0 /\ IsPrime(d)
                     THEN v * Legendre(a, d) ^ Cardinality({k \in 1 .. 3 : n % d ^ k = 0})
                     ELSE v, 1, n + 1)
PowOf2(v) == \E k \in 0 .. 10 : v = 2 ^ k
GcdRight(a, b) ==
  LET g == Gcd(a, b)
      e == zzExGCD(a, b)
      sure == ~(a > b /\ PowOf2(OddPart(b)))      \* where zzExGCD() always ends
  IN /\ zzGCD(a, b) = g /\ zzIsCoprime(a, b) = (g = 1) /\ zzLCM(a, b) = (a * b) \div g
     /\ a % b # 0 /\ b % a # 0 /\ sure =>
          e.d = g /\ a * e.da - b * e.db = g /\ e.da <= b /\ e.db <= a
     /\ b % 2 = 1 /\ a < b /\ g = 1 =>
          /\ (zzInvMod(a, b) * a) % b = 1 % b
          /\ \A d \in {1, 2, b - 1} : d < b => (zzDivMod(d, a, b) * a) % b = d
          /\ LET r == zzAlmostInvMod(a, b) IN (r.b * a) % b = 2 ^ r.k % b /\ r.b < b
     /\ b % 2 = 1 => zzJacobi(a, b) = Jacobi(a, b)
     /\ LET s == zzSqrt(a * b, WordLen(a * b))
        IN s.square = (\E k \in 0 .. a * b : k * k = a * b) /\ s.square => s.root * s.root = a * b
     /\ \A m \in {7, 8, 15} : a % m # 0 =>
          zzPowerModW(a % m, b, m) = ModPow(a % m, b, m)

(* The ring of residues modulo m, whichever reduction zmCreate() chooses.  *)
RingRight(x, y, m) ==
  LET r == zmCreate(m, (BitLen(m) + OB - 1) \div OB)
      u == qrFrom(x, r).a
      v == qrFrom(y, r).a
      Product(c, d) == c = d \/ (r.kind = "mont" /\ d = 0)
  IN x < m /\ y < m =>
       /\ qrTo(u, r) = x /\ qrMul(r.unity, u, r) = u
       /\ qrTo(zmAdd2(u, v, r), r) = (x + y) % m
       /\ qrTo(zmSub2(u, v, r), r) = (x - y) % m /\ qrTo(zmNeg2(u, r), r) = (-x) % m
       /\ Product(qrTo(qrMul(u, v, r), r), (x * y) % m)
       /\ Product(qrTo(qrSqr(u, r), r), (x * x) % m)
       /\ m % 2 = 1 /\ Gcd(x, m) = 1 =>
            /\ qrMul(u, qrInv(u, r), r) = r.unity /\ qrMul(qrDiv(v, u, r), u, r) = v
            /\ LET s == zmMontCreate(m, (BitLen(m) + OB - 1) \div OB, BitLen(m))
                   t == qrFrom(x, s).a
               IN qrMul(t, qrInv(t, s), s) = s.unity /\ qrMul(qrDiv(v, t, s), t, s) = v

(* Every way to reduce a number and to compute with residues gives the     *)
(* residue: regular and fast editions, Barrett, Crandall, Montgomery, the  *)
(* binary greatest common divisor with its coefficients, inverses, powers  *)
(* by sliding windows, symbols and roots (zz_mod.c, zz_red.c, zz_gcd.c,    *)
(* zz_etc.c, zz_pow.c, qr.c, zm.c), outside the cases that the section on  *)
(* disagreements of the README names.                                      *)
ResiduesRight(j, args) ==
  /\ j = "mod" => ModRight(args[1][1], args[1][2], args[2]) /\ RedRight(args[1][1], args[1][2], args[2])
  /\ j = "gcd" => GcdRight(args[1], args[2])
  /\ j = "zm" => RingRight(args[1][1], args[1][2], args[2])

-----------------------------------------------------------------------------
(* Polynomials over GF(2), as the sets of the exponents of their terms.    *)
Terms(a) == {i \in 0 .. (B * N(a)) - 1 : wwTestBit(a, i)}
SymDiff(T, U) == (T \ U) \cup (U \ T)
Times(T, U) ==
  Iter(LAMBDA v, i : IF i \in T THEN SymDiff(v, {i + j : j \in U}) ELSE v, {}, 8 * B)
Cut(a) == Part(a, 0, wwWordSize(a))
Divides(d, a) == wwIsZero_fast(ppMod(a, Cut(d)))
Irreducible(a) ==
  LET v == Val(a)
  IN v > 1 /\ \A d \in 2 .. 2 ^ (((wwBitSize(a) - 1) \div 2) + 1) - 1 :
                 ~Divides(Digits(d, 3), a)
IsUnit(a) == wwIsW_fast(a, 1)

PolyRight(a, b) ==
  LET m == Cut(b)
      d == ppDiv(a, m)
      g == ppGCD(a, b)
      e == ppExGCD(a, b)
      u == ppMod(a, m)
      inverse == ppInvMod(u, m)
      coprime == ~wwIsZero_fast(u) /\ IsUnit(ppGCD(u, m))
  IN /\ Terms(ppMul(a, b)) = Times(Terms(a), Terms(b))
     /\ Terms(ppSqr(a)) = Times(Terms(a), Terms(a))
     /\ N(m) > 0 =>
          /\ SymDiff(Times(Terms(d.q), Terms(b)), Terms(d.r)) = Terms(a)
          /\ wwBitSize(d.r) < wwBitSize(b) /\ u = d.r
     /\ ~wwIsZero_fast(a) /\ N(m) > 0 =>
          /\ Divides(g, a) /\ Divides(g, b) /\ e.d = g
          /\ wwLoZeroBits(b) <= wwLoZeroBits(a) =>
               SymDiff(Times(Terms(e.da), Terms(a)), Times(Terms(e.db), Terms(b))) = Terms(g)
     /\ wwBitSize(b) > 1 /\ wwTestBit(b, 0) =>
          IF coprime THEN ppMulMod(u, inverse, m) = wwSetW(N(m), 1)
          ELSE wwIsZero_fast(inverse)
     /\ wwBitSize(a) <= 9 => ppIsIrred(a) = Irreducible(a)

(* The polynomial of the element u over GF(2) vanishes at u.               *)
Vanishes(p, u, m) ==
  LET Horner(v, i) ==
        wwXor(ppMulMod(v, u, m), IF wwTestBit(p, wwBitSize(p) - 1 - i)
                                 THEN wwSetW(N(m), 1) ELSE wwSetZero(N(m)))
  IN wwIsZero_fast(Iter(Horner, wwSetZero(N(m)), wwBitSize(p)))

FieldRight(f, x, y) ==
  LET a == Digits(x % 2 ^ f.m, f.n)
      b == Digits(y % 2 ^ f.m, f.n)
      c == gf2Mul(a, b, f)
      q == gf2QSolve(a, b, f)
      value == gf2Add3(gf2Add3(gf2Sqr(q.x, f), gf2Mul(a, q.x, f), f), b, f)
      zero == wwSetZero(f.n)
  IN /\ c = Part(ppMod(ppMul(a, b), f.mod), 0, f.n) /\ gf2Sqr(a, f) = gf2Mul(a, a, f)
     /\ gf2IsValid(f) /\ a # zero =>
          /\ gf2Mul(gf2Inv(a, f, 0), a, f) = f.unity
          /\ gf2Mul(gf2Div(b, a, f, 0), a, f) = b
          /\ f.m % 2 = 1 => IF q.ok THEN value = zero ELSE gf2Tr(gf2Div(b, gf2Sqr(a, f), f, 0), f)

PolynomialRight(j, args) ==
  /\ j = "pp" => /\ PolyRight(args[1], args[2])
                 /\ \A v \in {11, 19, 37, 67} : LET m == Cut(Digits(v, 2))
                                                   u == Part(ppMod(args[1], m), 0, N(m))
                                               IN ~wwIsZero_fast(u) /\ args[1] = args[2] =>
                                                    Vanishes(ppMinPolyMod(u, m), u, m)
  /\ j = "gf2" => LET f == gf2Create(args[1]) IN f # NoField => FieldRight(f, args[2][1], args[2][2])

(* Products by tables of multiples and by halves, quotients, common        *)
(* divisors, inverses, irreducibility, minimal polynomials and the fields  *)
(* reduced by trinomials and pentanomials are those of polynomials (pp/,   *)
(* gf2.c), outside the disagreements named in the README.                  *)
PolysRight == [][\A args \in {probe'} : PolynomialRight(job, args)]_tried

-----------------------------------------------------------------------------
(* Points.                                                                 *)
O == <<>>
Minus1(q, ec) ==
  IF q = O THEN O ELSE IF ec.kind = "p" THEN ecpNegA(q, ec) ELSE ec2NegA(q, ec)

(* Three points, counted with their multiplicities, are all that the line  *)
(* y = s x + k has in common with the curve.                               *)
OnLineP(a, b, c, ec) ==
  \E s, k \in Elements(ec) :
    /\ \A q \in {a, b, c} : q[2] = (s * q[1] + k) % ec.p
    /\ (a[1] + b[1] + c[1] - s * s) % ec.p = 0
    /\ (a[1] * b[1] + a[1] * c[1] + b[1] * c[1] - ec.A + 2 * s * k) % ec.p = 0
    /\ (a[1] * b[1] * c[1] + ec.B - k * k) % ec.p = 0
OnLine2(a, b, c, ec) ==
  \E s, k \in Elements(ec) :
    /\ \A q \in {a, b, c} : q[2] = Xor(Mul(s, q[1], ec), k)
    /\ Xor3(a[1], b[1], c[1]) = Xor3(ec.A, s, Sqr(s, ec))
    /\ Xor3(Mul(a[1], b[1], ec), Mul(a[1], c[1], ec), Mul(b[1], c[1], ec)) = k
    /\ Mul(a[1], Mul(b[1], c[1], ec), ec) = Xor(ec.B, Sqr(k, ec))
ChordSum(a, b, ec) ==
  CASE a = O -> b
    [] a # O /\ b = O -> a
    [] a # O /\ b # O /\ b = Minus1(a, ec) -> O
    [] OTHER -> CHOOSE c \in Points[ec] :
                  IF ec.kind = "p" THEN OnLineP(a, b, Minus1(c, ec), ec)
                  ELSE OnLine2(a, b, Minus1(c, ec), ec)
Sums == Eager([ec \in Curves |-> [q \in Pairs(Points[ec] \cup {O}) |-> ChordSum(q[1], q[2], ec)]])
SumOf(a, b, ec) == Sums[ec][<<a, b>>]

Forms(q, ec) ==
  CASE q = O -> {<<0, 0, 0>>, <<1, 2, 0>>}
    [] q # O /\ ec.kind = "p" ->
         {<<(q[1] * z * z) % ec.p, (q[2] * z * z * z) % ec.p, z>> : z \in {1, 2, ec.p - 1}}
    [] q # O /\ ec.kind = "2" ->
         {<<Mul(q[1], z, ec), Mul(q[2], Sqr(z, ec), ec), z>> : z \in {1, 2, 5}}
StandsFor(form, q, ec) ==
  LET r == ecToA(form, ec) IN IF r.ok THEN r.b = q ELSE q = O
IsPoint(r, q) == IF r.ok THEN r.c = q ELSE q = O
MultipleOf(k, q, ec) == Iter(LAMBDA v, i : SumOf(v, q, ec), O, k)

SumsRight(a, b, ec) ==
  LET sum == Eager(SumOf(a, b, ec))
      diff == Eager(SumOf(a, Minus1(b, ec), ec))
      double == Eager(SumOf(a, a, ec))
  IN /\ \A f \in Forms(a, ec) :
          /\ StandsFor(ecDbl(f, ec), double, ec)
          /\ \A g \in Forms(b, ec) \cup Forms(O, ec) :
               LET other == g[3] # 0
               IN /\ StandsFor(ecAdd(f, g, ec), IF other THEN sum ELSE a, ec)
                  /\ StandsFor(ecSub(f, g, ec), IF other THEN diff ELSE a, ec)
          /\ StandsFor(ecAddA(f, b, ec), sum, ec) /\ StandsFor(ecSubA(f, b, ec), diff, ec)
          /\ ec.kind = "p" =>
               /\ StandsFor(ecpDblJ(f, ec), double, ec)
               /\ StandsFor(ecpTplJ(f, ec), SumOf(a, double, ec), ec)
               /\ StandsFor(ecTriple(f, ec), SumOf(a, double, ec), ec)
     /\ \A f \in Forms(O, ec) : StandsFor(ecAddA(f, b, ec), b, ec)
     /\ StandsFor(ecDblA(a, ec), double, ec)
     /\ IF ec.kind = "p" THEN IsPoint(ecpAddAA(a, b, ec), sum) /\ IsPoint(ecpSubAA(a, b, ec), diff)
        ELSE IsPoint(ec2AddAA(a, b, ec), sum) /\ IsPoint(ec2SubAA(a, b, ec), diff)

IsMultiple(r, q) == IF r.ok THEN r.b = q ELSE q = O
MultiplesRight(a, b, ec) ==
  /\ a = b => \A k \in {0, 1, 2, 5, 7, 15, 16, 31, 128} : \A n \in {2, 3} :
                /\ IsMultiple(ecMulA(a, ec, Digits(k, n)), MultipleOf(k, a, ec))
                /\ ecHasOrderA(a, ec, Digits(k, n)) = (MultipleOf(k, a, ec) = O)
  /\ \A k \in {0, 5}, n \in {18} :
       IsMultiple(ecAddMulA(ec, <<<<a, Digits(k, 2)>>, <<b, Digits(n, 2)>>>>),
                  SumOf(MultipleOf(k, a, ec), MultipleOf(n, b, ec), ec))

(* The point made of an element lies on the curve; for 0 and 1 if B is a   *)
(* square, as in the standard.                                             *)
MapRight(ec) ==
  ec.kind = "p" /\ ec.A # 0 /\ ec.p % 4 = 3 =>
    \A x \in Elements(ec) :
      x \notin {0, 1, ec.p - 1} \/ Legendre(ec.B, ec.p) = 1 => ecpIsOnA(ecpSWU(x, ec), ec)

PointRight(j, args) ==
  j \in {"ecp", "ec2"} =>
    LET a == args[2][1]   b == args[2][2]
    IN /\ SumsRight(a, b, args[1]) /\ MultiplesRight(a, b, args[1])
       /\ (a = b => MapRight(args[1]))

(* Sums, doubles, triples and multiples of points, in affine and in        *)
(* projective coordinates of any scale, with every exception of the        *)
(* formulas, are those of the chords and tangents of the curve (ecp.c,     *)
(* ec2.c, ec.c).                                                           *)
PointsRight == [][\A args \in {probe'} : PointRight(job, args)]_tried

-----------------------------------------------------------------------------
(* Primes.                                                                 *)
OddPrimes(lo, hi) == {q \in lo .. hi : q % 2 = 1 /\ IsPrime(q)}
Least(p, T) == IF T = {} THEN p = NoPrime ELSE p \in T /\ \A q \in T : p <= q
Liars(a) == {b \in 1 .. a - 1 : b \notin {1, a - 1} /\ priRMTest(a, 1, <<b>>)}

(* Sieves, smoothness and tests tell primes from other numbers, but for a  *)
(* quarter of the bases of a composite number; a search gives the least    *)
(* prime of the candidates it may try; a prime that is extended gives one  *)
(* of the wanted length and form (pri.c).                                  *)
PrimesRight(j, args) ==
  j = "pri" =>
    LET a == args[1]
        top == 2 ^ BitLen(a) - 1
    IN /\ priIsPrimeW(a) = IsPrime(a)
       /\ IsPrime(a) /\ a % 2 = 1 =>
            /\ \A b \in 2 .. a - 2 : priRMTest(a, 2, <<b, 1, b + 1 - (b \div (a - 2))>>)
            /\ priIsSGPrime(a) = IsPrime(2 * a + 1)
       /\ ~IsPrime(a) /\ a % 2 = 1 => 4 * Cardinality(Liars(a)) < a
       /\ \A count \in {0, 4, 10} :
            /\ priBaseMod(a * 977, count) = [i \in 1 .. count |-> (a * 977) % Base[i]]
            /\ priIsSieved(a, count) =
                 (a % 2 = 1 /\ \A i \in 1 .. count : (a % Base[i] = 0 => Base[i] > a))
            /\ priIsSmooth(a, count) =
                 \A d \in 3 .. a : (a % d = 0 /\ IsPrime(d)) => (\E i \in 1 .. count : Base[i] = d)
            /\ (a > 31 \/ (a < W /\ a > 1)) => \A trials \in {1, 3, 60} :
                 Least(priNextPrime(a, IF a < W THEN 1 ELSE 2, trials, count),
                       OddPrimes(a, MinOf(top, OddFrom(a) + 2 * (trials - 1))))
       /\ a < W => Least(priNextPrimeW(a), OddPrimes(a, top))
       /\ a \in OddPrimes(3, 31) => \A k \in {1, 2, 3}, t \in {0, 77} :
            \A l \in BitLen(a * k) + 1 .. 2 * BitLen(a), trials \in {1, 2, 40} :
              LET p == priExtendPrime2(l, a, k, trials, 3, <<t, t + 1, t * 7>>)
              IN p # NoPrime => IsPrime(p) /\ BitLen(p) = l /\ p % (2 * a * k) = 1

-----------------------------------------------------------------------------
(* Words, integers, residues and primes: all of the above at once.         *)
ArithmeticRight ==
  [][\A args \in {probe'} : /\ NumbersRight(job, args) /\ IntegersRight(job, args)
                          /\ ResiduesRight(job, args) /\ PrimesRight(job, args)]_tried

-----------------------------------------------------------------------------
(* Stated in MCCodecs: codes, texts and octets are read back, and only     *)
(* what has the form that der.h, hex.h, b64.h and others give is accepted. *)
CodesRead == Format!CodesRead
=============================================================================
