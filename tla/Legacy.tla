------------------------------- MODULE Legacy -------------------------------
(***************************************************************************)
(* The signature of src/src/crypto/g12s.c.  A draw is a residue the        *)
(* generator has given; when draws have run out, the generator fails.      *)
(***************************************************************************)
EXTENDS Curve

G12sThreshold == 3         \* of the check of MOV, 31 and 131 in the code
(* How much shorter than l bits p and q may be, 2 to 4 bits in the code.   *)
LeastP == (256 :> Octets \div 4) @@ (512 :> Octets \div 16)
LeastQ == (256 :> Octets \div 2) @@ (512 :> Octets \div 8)

G12sCurve(l, p, a, b, q, n, xP, yP) ==
  [l |-> l, p |-> p, a |-> a, b |-> b, q |-> q, n |-> n, xP |-> xP, yP |-> yP]
G12sCurves == [a1 |-> G12sCurve(256, 59, 56, 9, 61, 1, 0, 3),
               cryptocom |-> G12sCurve(256, 59, 56, 3, 37, 2, 2, 8),
               paramsetA512 |-> G12sCurve(512, 31, 1, 3, 41, 1, 1, 6)]
g12sParamsStd(name) ==
  IF name \in DOMAIN G12sCurves THEN [code |-> "ERR_OK", out |-> G12sCurves[name]]
  ELSE [code |-> "ERR_FILE_NOT_FOUND", out |-> G12sCurve(0, 0, 0, 0, 0, 0, 0, 0)]

g12sEcCreate(c, env) ==
  <<<<c.l \in {256, 512}, "ERR_BAD_PARAMS">>, <<env.mem, "ERR_OUTOFMEMORY">>,
    <<c.p % 2 = 1 /\ c.p > 1 /\ c.p >= LeastP[IF c.l = 512 THEN 512 ELSE 256]
      /\ c.a < c.p /\ c.b < c.p /\ c.xP < c.p /\ c.yP < c.p /\ c.n > 0, "ERR_BAD_PARAMS">>,
    <<c.q >= LeastQ[IF c.l = 512 THEN 512 ELSE 256] /\ c.q % 2 = 1, "ERR_BAD_PARAMS">>>>
G12sBase(c) == <<c.xP, c.yP>>

(* ecpSeemsValidGroup(): the bound of Hasse and the base point.            *)
g12sParamsVal(c, env) ==
  LET t == c.q * c.n - (c.p + 1)
  IN FirstFailed(g12sEcCreate(c, env)
       \o <<<<IsPrime(c.p) /\ ~ecpDetIsZero(c.a, c.b, c.p)
              /\ t * t <= 4 * c.p /\ OnCurve(c.xP, c.yP, c)
              /\ SafeGroup(c, G12sThreshold) /\ MulA(G12sBase(c), c.q, c) = O
              /\ c.a # 0 /\ c.b # 0, "ERR_BAD_PARAMS">>>>)

G12sRng(env) == <<env.rng, "ERR_BAD_RNG">>
g12sKeypairGen(c, env) ==
  LET d == env.draws[1]   Q == MulA(G12sBase(c), d, c)
  IN Result(<<G12sRng(env)>> \o g12sEcCreate(c, env)
              \o <<<<env.draws # <<>>, "ERR_BAD_RNG">>, <<Q # O, "ERR_BAD_PARAMS">>>>,
            [d |-> d, Q |-> Q])

(* The hash as a residue other than zero.                                  *)
HashResidue(hash, q) == IF hash % q = 0 THEN 1 ELSE hash % q
(* A nonce with r = 0 is drawn again; s = 0 is not looked at.              *)
g12sSign(c, hash, d, env) ==
  LET r(k) == MulA(G12sBase(c), k, c)[1] % c.q
      good == {i \in 1 .. Len(env.draws) : r(env.draws[i]) # 0}
      k == env.draws[CHOOSE i \in good : \A j \in good : i <= j]
  IN Result(<<G12sRng(env)>> \o g12sEcCreate(c, env)
              \o <<<<d \in 1 .. c.q - 1, "ERR_BAD_PRIVKEY">>, <<good # {}, "ERR_BAD_RNG">>>>,
            [r |-> r(k), s |-> (r(k) * d + k * HashResidue(hash, c.q)) % c.q])
g12sVerify(c, hash, sig, Q, env) ==
  LET v == Inverse(HashResidue(hash, c.q), c.q)
      z == (c.q - ((v * sig.r) % c.q)) % c.q
      R == AddPoints(MulA(G12sBase(c), (sig.s * v) % c.q, c), MulA(Q, z, c), c)
  IN FirstFailed(g12sEcCreate(c, env)
       \o <<<<Q[1] < c.p /\ Q[2] < c.p, "ERR_BAD_PUBKEY">>,
            <<sig.r \in 1 .. c.q - 1 /\ sig.s \in 1 .. c.q - 1, "ERR_BAD_SIG">>,
            <<R # O, "ERR_BAD_PARAMS">>, <<R # O /\ R[1] % c.q = sig.r, "ERR_BAD_SIG">>>>)

-----------------------------------------------------------------------------
(***************************************************************************)
(* The signature of src/src/crypto/dstu.c on curves y^2 + xy = x^3 + Ax^2  *)
(* + B over GF(2^5).  Octet strings of the length of an element have a bit *)
(* to spare.                                                               *)
(***************************************************************************)
Degree == 5
Elements == 2 ^ Degree
MinOrderBits == 2          \* 160 in the code
DstuThreshold == 2         \* of the check of MOV, 32 in the code

(* Elements of the field modulo x^5 + x^2 + 1.                             *)
TimesX(a) == IF a >= Elements \div 2 THEN Xor((2 * a) % Elements, 5) ELSE 2 * a
Product(a, b) ==
  Iter(LAMBDA s, i : IF Bit(a, Degree - 1 - i) = 1 THEN Xor(TimesX(s), b) ELSE TimesX(s),
       0, Degree)
ProductTable ==
  Eager([a \in 0 .. Elements - 1 |-> Eager([b \in 0 .. Elements - 1 |-> Product(a, b)])])
Mul(a, b) == ProductTable[a][b]
Sqr(a) == Mul(a, a)
Squared(a, n) == Iter(LAMBDA s, i : Sqr(s), a, n)
Inv(a) == CHOOSE b \in 1 .. Elements - 1 : Mul(a, b) = 1
Div(a, b) == Mul(a, Inv(b))
gf2Tr(a) == Iter(LAMBDA s, i : Xor(s, Squared(a, i)), 0, Degree)
(* A y with y^2 + ay = b: the half trace, or the root when a is zero.      *)
gf2QSolve(a, b) ==
  LET c == Div(b, Sqr(a))
  IN With(IF a = 0 THEN Squared(b, Degree - 1)
          ELSE Mul(a, Iter(LAMBDA s, i : Xor(s, Squared(c, 2 * i)), 0, (Degree + 1) \div 2)),
          LAMBDA y : [ok |-> Xor(Sqr(y), Mul(a, y)) = b, y |-> y])

Neg2(P) == IF P = O THEN O ELSE <<P[1], Xor(P[1], P[2])>>
Slope2(P, R) ==
  IF P = R THEN Xor(P[1], Div(P[2], P[1])) ELSE Div(Xor(P[2], R[2]), Xor(P[1], R[1]))
OnLine2(P, R, slope, c) ==
  With(Xor(Xor(Xor(Sqr(slope), slope), c.A), IF P = R THEN 0 ELSE Xor(P[1], R[1])),
       LAMBDA x : <<x, Xor(Xor(Mul(slope, Xor(P[1], x)), x), P[2])>>)
Add2(P, R, c) ==
  CASE P = O -> R
    [] R = O /\ P # O -> P
    [] P # O /\ R # O /\ R = Neg2(P) -> O
    [] OTHER -> OnLine2(P, R, Slope2(P, R), c)
Mul2A(P, k, c) ==
  Iter(LAMBDA T, i : With(Add2(T, T, c), LAMBDA D : IF Bit(k, 5 - i) = 1 THEN Add2(D, P, c) ELSE D),
       O, 6)
OnCurve2(P, c) ==
  Xor(Sqr(P[2]), Mul(P[1], P[2])) = Xor(Xor(Mul(P[1], Sqr(P[1])), Mul(c.A, Sqr(P[1]))), c.B)
InField(P) == P[1] < Elements /\ P[2] < Elements

-----------------------------------------------------------------------------
DstuCurve(A, BB, n, c, P) == [m |-> Degree, A |-> A, B |-> BB, n |-> n, c |-> c, P |-> P]
DstuCurves == [curve163pb |-> DstuCurve(1, 2, 17, 2, <<3, 25>>),
               curve167pb |-> DstuCurve(1, 9, 13, 2, <<0, 0>>),
               curve173pb |-> DstuCurve(0, 5, 7, 4, <<0, 0>>)]
(* All the curves but the first one come without a base point.             *)
dstuParamsStd(name) ==
  IF name \in DOMAIN DstuCurves THEN [code |-> "ERR_OK", out |-> DstuCurves[name]]
  ELSE [code |-> "ERR_FILE_NOT_FOUND", out |-> DstuCurve(0, 0, 0, 0, <<0, 0>>)]

dstuEcCreate(c, env) ==
  <<<<c.m = Degree /\ c.A <= 1, "ERR_BAD_PARAMS">>, <<env.mem, "ERR_OUTOFMEMORY">>,
    <<c.B < Elements /\ InField(c.P) /\ c.n > 0 /\ c.c > 0, "ERR_BAD_PARAMS">>>>
DstuRng(env) == <<env.rng, "ERR_BAD_RNG">>
BitSize(n) == CHOOSE k \in 0 .. 6 : 2 ^ k > n /\ (k = 0 \/ 2 ^ (k - 1) <= n)

dstuParamsVal(c, env) ==
  LET t == c.n * c.c - (Elements + 1)
  IN FirstFailed(dstuEcCreate(c, env)
       \o <<<<BitSize(c.n) > MinOrderBits /\ c.B # 0 /\ t * t <= 4 * Elements
              /\ OnCurve2(c.P, c) /\ IsPrime(c.n) /\ c.n # 2
              /\ (\A i \in 1 .. DstuThreshold : Power(Elements % c.n, i, c.n) # 1)
              /\ Mul2A(c.P, c.n, c) = O, "ERR_BAD_PARAMS">>>>)

(* Points.  Abscissas are drawn until one is that of a point of order n;   *)
(* the generator that never gives one is not met.                          *)
PointOf(x, c) ==
  LET s == gf2QSolve(x, Xor(Xor(Mul(x, Sqr(x)), Mul(c.A, Sqr(x))), c.B))
  IN [ok |-> s.ok /\ Mul2A(<<x, s.y>>, c.n, c) = O, P |-> <<x, s.y>>]
dstuPointGen(c, env) ==
  Result(<<DstuRng(env)>> \o dstuEcCreate(c, env),
         With({i \in 1 .. Len(env.draws) : PointOf(env.draws[i] % Elements, c).ok}, LAMBDA good :
           IF good = {} THEN O
           ELSE PointOf(env.draws[CHOOSE i \in good : \A j \in good : i <= j] % Elements, c).P))
dstuPointVal(c, P, env) ==
  FirstFailed(dstuEcCreate(c, env)
    \o <<<<InField(P) /\ OnCurve2(P, c) /\ Mul2A(P, c.n, c) = O, "ERR_BAD_POINT">>>>)

(* The abscissa with the trace of y / x in its lowest bit.  The point      *)
(* with x = 0 leaves the octets before as they are.                        *)
dstuPointCompress(c, P, before, env) ==
  Result(dstuEcCreate(c, env) \o <<<<InField(P), "ERR_BAD_POINT">>>>,
         IF P[1] = 0 THEN before
         ELSE P[1] - (P[1] % 2) + gf2Tr(Div(P[2], P[1])))
(* The lowest bit of x is the one that makes its trace equal to A.         *)
dstuPointRecover(c, xpoint, before, env) ==
  LET trace == xpoint % 2
      even == xpoint - trace
      x == IF gf2Tr(even) # c.A THEN even + 1 ELSE even
      s == gf2QSolve(1, Xor(Xor(Div(c.B, Sqr(x)), x), c.A))
      y == IF gf2Tr(s.y) = trace THEN Mul(x, s.y) ELSE Xor(Mul(x, s.y), x)
  IN Result(dstuEcCreate(c, env)
              \o <<<<xpoint < Elements, "ERR_BAD_POINT">>, <<xpoint = 0 \/ s.ok, "ERR_BAD_PARAMS">>>>,
            IF xpoint = 0 THEN before ELSE <<x, y>>)

-----------------------------------------------------------------------------
(* Keys and signatures.  Draws are cut to one bit less than the order has  *)
(* and zeros are thrown away.                                              *)
Cut(v, c) == v % 2 ^ (BitSize(c.n) - 1)
DrawnAt(draws, c, Good(_)) ==
  LET good == {i \in 1 .. Len(draws) : Cut(draws[i], c) # 0 /\ Good(Cut(draws[i], c))}
  IN IF good = {} THEN 0 ELSE Cut(draws[CHOOSE i \in good : \A j \in good : i <= j], c)
dstuKeypairGen(c, env) ==
  LET d == DrawnAt(env.draws, c, LAMBDA v : TRUE)   Q == Neg2(Mul2A(c.P, d, c))
  IN Result(<<DstuRng(env)>> \o dstuEcCreate(c, env) \o <<<<Q # O, "ERR_BAD_PARAMS">>>>,
            [d |-> d, Q |-> Q])

(* The hash as an element other than zero: bits behind those of the field  *)
(* are cut off.                                                            *)
HashElement(hash) == IF hash % Elements = 0 THEN 1 ELSE hash % Elements
Length(ld, c) == <<ld % 16 = 0 /\ ld \div 16 >= (BitSize(c.n) + 7) \div 8, "ERR_BAD_INPUT">>
(* A signature takes ld bits; tail are the octets of its halves behind     *)
(* those of the numbers.                                                   *)
dstuSign(c, ld, hash, d, env) ==
  LET r(e) == Cut(Mul(Mul2A(c.P, e, c)[1], HashElement(hash)), c)
      s(e) == (e + d * r(e)) % c.n
      e == DrawnAt(env.draws, c, LAMBDA v : Mul2A(c.P, v, c)[1] # 0 /\ r(v) # 0 /\ s(v) # 0)
  IN Result(<<DstuRng(env)>> \o dstuEcCreate(c, env) \o <<Length(ld, c)>>,
            IF e = 0 THEN Nothing ELSE [r |-> r(e), s |-> s(e), tail |-> 0])
dstuVerify(c, ld, hash, sig, Q, env) ==
  With(Add2(Mul2A(c.P, sig.s, c), Mul2A(Q, sig.r, c), c), LAMBDA R :
    FirstFailed(dstuEcCreate(c, env)
      \o <<Length(ld, c), <<InField(Q), "ERR_BAD_PUBKEY">>, <<sig.tail = 0, "ERR_BAD_SIG">>,
           <<sig.r \in 1 .. c.n - 1 /\ sig.s \in 1 .. c.n - 1, "ERR_BAD_SIG">>,
           <<R # O, "ERR_BAD_SIG">>,
           <<R # O /\ Cut(Mul(R[1], HashElement(hash)), c) = sig.r, "ERR_BAD_SIG">>>>))

-----------------------------------------------------------------------------
(***************************************************************************)
(* Parameters of src/src/crypto/stb99.c and pfok.c, made of a seed, and    *)
(* the key agreement of pfok.c.  Seeds have the lengths of the code.       *)
(* Parameters and chains of primes are small: a number has l bits, its     *)
(* divisor r bits, and numbers of at most LowBits bits are drawn at once.  *)
(***************************************************************************)
StbLength ==
  (638 :> 143) @@ (766 :> 154) @@ (1022 :> 175) @@ (1118 :> 182) @@ (1310 :> 195)
  @@ (1534 :> 208) @@ (1790 :> 222) @@ (2046 :> 235) @@ (2334 :> 249) @@ (2462 :> 257)
PfokLengths ==
  {638, 702, 766, 862, 958, 1022, 1118, 1214, 1310, 1438, 1534, 1662, 1790, 1918,
   2046, 2174, 2334, 2462, 2622, 2782, 2942}
DiCount == 18
RiCount == 10
LiCount == 20
ZiCount == 31

ZiVal(zi) == \A i \in 1 .. ZiCount : zi[i] \in 1 .. 65256
(* The links of a chain: each is at least half of the one before and much  *)
(* less than it.  The last one of at most 32 bits is followed by zeros.    *)
Linked(before, next) == before <= 2 * next /\ 5 * next < 4 * before - 16
ChainVal(ch) ==
  LET ends == {i \in 2 .. Len(ch) + 1 : i = Len(ch) + 1 \/ ch[i] <= 16}
      end == CHOOSE i \in ends : \A j \in ends : i <= j
  IN /\ \A i \in 2 .. end - 1 : Linked(ch[i - 1], ch[i])
     /\ ch[end - 1] <= 32
     /\ \A i \in end .. Len(ch) : ch[i] = 0
stb99ZiVal(seed) == ZiVal(seed.zi)
stb99DiVal(seed, r) ==
  seed.l <= 2 * seed.di[1] /\ 8 * seed.di[1] <= 7 * seed.l - r /\ ChainVal(seed.di)
stb99RiVal(seed, r) == seed.ri[1] = r /\ ChainVal(seed.ri)
stb99SeedVal(seed) ==
  FirstFailed(<<<<seed.l \in DOMAIN StbLength, "ERR_BAD_SEED">>,
                <<stb99ZiVal(seed), "ERR_BAD_SEED">>,
                <<seed.l \in DOMAIN StbLength /\ stb99DiVal(seed, StbLength[seed.l]), "ERR_BAD_SEED">>,
                <<seed.l \in DOMAIN StbLength /\ stb99RiVal(seed, StbLength[seed.l]), "ERR_BAD_SEED">>>>)
pfokZiVal(seed) == ZiVal(seed.zi)
pfokLiVal(seed) == seed.li[1] = seed.l - 1 /\ ChainVal(seed.li)
pfokSeedVal(seed) ==
  FirstFailed(<<<<seed.l \in PfokLengths, "ERR_BAD_SEED">>, <<pfokZiVal(seed), "ERR_BAD_SEED">>,
                <<pfokLiVal(seed), "ERR_BAD_SEED">>>>)

(* A part of the seed that is not valid is made up when it is all zeros.   *)
IsZero(ch) == \A i \in 1 .. Len(ch) : ch[i] = 0
CountedZi == Eager([i \in 1 .. ZiCount |-> i])
(* Faulty variant: Links that are rounded down.                            *)
ChainFrom_variant(first, n) ==
  While(LAMBDA s : s[Len(s)] > 32, LAMBDA s : Append(s, s[Len(s)] \div 2), <<first>>, n)
ChainFrom(first, n) ==
  While(LAMBDA s : s[Len(s)] > 32, LAMBDA s : Append(s, (s[Len(s)] \div 2) + 1), <<first>>, n)
Padded(ch, n) == Eager([i \in 1 .. n |-> IF i <= Len(ch) THEN ch[i] ELSE 0])
Adjusted(part, valid, default) == IF valid THEN part ELSE default
stb99SeedAdj(seed) ==
  LET r == StbLength[seed.l]
      zi == stb99ZiVal(seed)   di == stb99DiVal(seed, r)   ri == stb99RiVal(seed, r)
  IN IF seed.l \notin DOMAIN StbLength THEN [code |-> "ERR_BAD_SEED", out |-> Nothing]
     ELSE Result(<<<<zi \/ IsZero(seed.zi), "ERR_BAD_SEED">>, <<di \/ IsZero(seed.di), "ERR_BAD_SEED">>,
                   <<ri \/ IsZero(seed.ri), "ERR_BAD_SEED">>>>,
            [l |-> seed.l, zi |-> Adjusted(seed.zi, zi, CountedZi),
             di |-> Adjusted(seed.di, di, Padded(ChainFrom((seed.l \div 2) + 1, DiCount), DiCount)),
             ri |-> Adjusted(seed.ri, ri, Padded(ChainFrom(r, RiCount), RiCount))])
pfokSeedAdj(seed) ==
  LET zi == pfokZiVal(seed)   li == pfokLiVal(seed)
  IN Result(<<<<seed.l \in PfokLengths, "ERR_BAD_SEED">>, <<zi \/ IsZero(seed.zi), "ERR_BAD_SEED">>,
              <<li \/ IsZero(seed.li), "ERR_BAD_SEED">>>>,
            [l |-> seed.l, zi |-> Adjusted(seed.zi, zi, CountedZi),
             li |-> Adjusted(seed.li, li, Padded(ChainFrom(seed.l - 1, LiCount), LiCount))])

-----------------------------------------------------------------------------
(* Chains of primes.  ch has the lengths, i is the number of the prime     *)
(* that is being made, made has those below it.  A prime is drawn when it  *)
(* is short and extended from the one below otherwise; when that fails     *)
(* (trials are over), the one below is made anew.                          *)
LowBits == 4
OfBits(k) == 2 ^ (k - 1) .. 2 ^ k - 1
PrimesOf == Eager([k \in 2 .. 8 |-> {v \in OfBits(k) : IsPrime(v)}])
priExtendPrime(k, q) == {p \in PrimesOf[k] : p % (2 * q) = 1}
priExtendPrime2(k, q, a) == {p \in PrimesOf[k] : p % (2 * q * a) = 1}
Last(ch) == CHOOSE i \in 1 .. Len(ch) : ch[i] <= LowBits /\ \A j \in 1 .. i - 1 : ch[j] > LowBits

StartChain(ch) == [ch |-> ch, i |-> Last(ch), made |-> [j \in {} |-> 0]]
Done(s) == s.i = 0
WithPrime(s, p) == [s EXCEPT !.i = @ - 1, !.made = (s.i :> p) @@ [j \in DOMAIN @ \ {s.i} |-> @[j]]]
ChainSteps(s) ==
  IF s.ch[s.i] <= LowBits THEN {WithPrime(s, p) : p \in PrimesOf[s.ch[s.i]]}
  ELSE {WithPrime(s, p) : p \in priExtendPrime(s.ch[s.i], s.made[s.i + 1])} \cup {[s EXCEPT !.i = @ + 1]}

(* stb99ParamsGen(): the chain of g0, then chains of q until p is found.   *)
StbStart(l, di, ri) == [at |-> "g", l |-> l, ri |-> ri, g |-> StartChain(di), q |-> StartChain(ri), p |-> 0]
StbSteps(s) ==
  LET p(t) == priExtendPrime2(s.l, s.g.made[1], t.made[1])
  IN CASE s.at = "g" /\ ~Done(s.g) -> {[s EXCEPT !.g = g] : g \in ChainSteps(s.g)}
       [] s.at = "g" /\ Done(s.g) -> {[s EXCEPT !.at = "q"]}
       [] s.at = "q" /\ ~Done(s.q) -> {[s EXCEPT !.q = q] : q \in ChainSteps(s.q)}
       [] s.at = "q" /\ Done(s.q) ->
            {[s EXCEPT !.q = StartChain(s.ri)]} \cup {[s EXCEPT !.at = "p", !.p = p0] : p0 \in p(s.q)}
       [] OTHER -> {}
(* The power of p with the multiplication xy / 2^(l + 2).                  *)
MontMul(x, y, p, l) == (x * y * Inverse(2 ^ (l + 2), p)) % p
MontUnity(p, l) == 2 ^ (l + 2) % p
MontPower(x, k, p, l) ==
  Iter(LAMBDA s, i : LET t == MontMul(s, s, p, l)
                     IN IF (k \div 2 ^ (9 - i)) % 2 = 1 THEN MontMul(t, x, p, l) ELSE t,
       MontUnity(p, l), 10)
Increment(x, p) == (x + 1) % p
StbParams(s) ==
  LET p == s.p   t == (p - 1) \div s.q.made[1]
      d == While(LAMBDA x : MontPower(x, t, p, s.l) = MontUnity(p, s.l),
                 LAMBDA x : Increment(x, p), 5, p)
  IN [l |-> s.l, r |-> s.ri[1], p |-> p, q |-> s.q.made[1], d |-> d, a |-> MontPower(d, t, p, s.l)]
(* small has the lengths that are allowed in place of those of the code.   *)
stb99ParamsVal(c, small, env) ==
  LET t == (c.p - 1) \div c.q
  IN FirstFailed(<<<<c.l \in DOMAIN small /\ small[c.l] = c.r, "ERR_BAD_PARAMS">>,
                   <<env.mem, "ERR_OUTOFMEMORY">>,
                   <<c.p \in OfBits(c.l) /\ IsPrime(c.p), "ERR_BAD_PARAMS">>,
                   <<c.q \in OfBits(c.r) /\ IsPrime(c.q), "ERR_BAD_PARAMS">>,
                   <<(c.p - 1) % c.q = 0, "ERR_BAD_PARAMS">>, <<c.d < c.p, "ERR_BAD_PARAMS">>,
                   <<MontPower(c.d, t, c.p, c.l) # MontUnity(c.p, c.l), "ERR_BAD_PARAMS">>,
                   <<MontPower(c.d, t, c.p, c.l) = c.a, "ERR_BAD_PARAMS">>>>)
stb99ParamsStd(name, table) ==
  IF name \in DOMAIN table THEN [code |-> "ERR_OK", out |-> table[name]]
  ELSE [code |-> "ERR_FILE_NOT_FOUND", out |-> [l |-> 0, r |-> 0, p |-> 0, q |-> 0, d |-> 0, a |-> 0]]

(* pfokParamsGen(): a chain whose first prime q gives a prime 2q + 1.      *)
(* Otherwise the first prime is extended once more; on_q() is told of      *)
(* every q and, in the end, of a zero.                                     *)
PfokStart(l, li, r) == [l |-> l, r |-> r, c |-> StartChain(li), told |-> 0, p |-> 0]
PfokSteps(s) ==
  LET again == [s EXCEPT !.c.i = 1]
      q == s.c.made[1]
  IN CASE s.p = 0 /\ ~Done(s.c) ->
            {[s EXCEPT !.c = c, !.told = IF Done(c) THEN MinOf(@ + 1, 2) ELSE @] : c \in ChainSteps(s.c)}
       [] s.p = 0 /\ Done(s.c) -> {IF IsPrime(2 * q + 1) THEN [s EXCEPT !.p = 2 * q + 1] ELSE again}
       [] OTHER -> {}
PfokParams(s) ==
  LET p == s.p   q == s.c.made[1]
      Bad(g) == MontPower(g, q, p, s.l) \in {MontUnity(p, s.l), g}
  IN [l |-> s.l, r |-> s.r, n |-> s.l - 2, p |-> p,
      g |-> While(Bad, LAMBDA g : Increment(g, p), 1, p)]

pfokParamsIsOperable(c, small) ==
  /\ c.l \in DOMAIN small /\ small[c.l] = c.r /\ c.n < c.l
  /\ c.p % 4 = 3 /\ c.p \in OfBits(c.l) /\ c.g \in 1 .. c.p - 1
PfokBegins(c, small, env) ==
  <<<<pfokParamsIsOperable(c, small), "ERR_BAD_PARAMS">>, <<env.mem, "ERR_OUTOFMEMORY">>>>
pfokParamsVal(c, small, env) ==
  LET q == c.p \div 2
      h == MontPower(c.g, q, c.p, c.l)
  IN FirstFailed(PfokBegins(c, small, env)
       \o <<<<IsPrime(c.p) /\ IsPrime(q), "ERR_BAD_PARAMS">>,
            <<h # MontUnity(c.p, c.l) /\ h # c.g, "ERR_BAD_PARAMS">>>>)
pfokParamsStd(name, table) ==
  IF name \in DOMAIN table THEN [code |-> "ERR_OK", out |-> table[name]]
  ELSE [code |-> "ERR_FILE_NOT_FOUND", out |-> [l |-> 0, r |-> 0, n |-> 0, p |-> 0, g |-> 0]]

(* Keys have r bits; a shared key is cut to n bits.                        *)
PfokPower(x, k, c) == MontPower(x, k, c.p, c.l)
PfokPrivkey(x, c) == <<x < 2 ^ c.r, "ERR_BAD_PRIVKEY">>
PfokPubkey(y, c) == <<y \in 1 .. c.p - 1, "ERR_BAD_PUBKEY">>
pfokKeypairGen(c, small, env) ==
  LET x == env.draw % 2 ^ c.r
  IN Result(<<<<pfokParamsIsOperable(c, small), "ERR_BAD_PARAMS">>, <<env.rng, "ERR_BAD_INPUT">>,
              <<env.mem, "ERR_OUTOFMEMORY">>>>, [x |-> x, y |-> PfokPower(c.g, x, c)])
pfokPubkeyVal(c, small, y) ==
  FirstFailed(<<<<pfokParamsIsOperable(c, small), "ERR_BAD_PARAMS">>, PfokPubkey(y, c)>>)
pfokPubkeyCalc(c, small, x, env) ==
  Result(PfokBegins(c, small, env) \o <<PfokPrivkey(x, c)>>, PfokPower(c.g, x, c))
pfokDH(c, small, x, y, env) ==
  Result(PfokBegins(c, small, env) \o <<PfokPrivkey(x, c), PfokPubkey(y, c)>>,
         PfokPower(y, x, c) % 2 ^ c.n)
pfokMTI(c, small, x, x1, y, y1, env) ==
  Result(PfokBegins(c, small, env)
           \o <<PfokPrivkey(x, c), PfokPrivkey(x1, c), PfokPubkey(y, c), PfokPubkey(y1, c)>>,
         LET u == PfokPower(y, x1, c)   v == PfokPower(y1, x, c)
         IN Xor(u % 2 ^ c.n, v % 2 ^ c.n))

-----------------------------------------------------------------------------
(***************************************************************************)
(* Sharing of a secret, src/src/crypto/bels.c.  A polynomial over GF(2) is *)
(* the set of its exponents, so that a sum is a symmetric difference.      *)
(* Secrets and shares are residues of n bits, n = 4, 5 and 6 standing for  *)
(* 16, 24 and 32 octets, modulo polynomials x^n + m.                       *)
(***************************************************************************)

Bits == (16 :> 4) @@ (24 :> 5) @@ (32 :> 6)
Len16(len) == <<len \in DOMAIN Bits, "ERR_BAD_INPUT">>
Plus(f, g) == (f \ g) \cup (g \ f)
Shifted(f, k) == {i + k : i \in f}
Deg(f) == CHOOSE i \in f : \A j \in f : j <= i
Times(f, g) == Iter(LAMBDA s, i : IF i \in f THEN Plus(s, Shifted(g, i)) ELSE s, {},
                    IF f = {} THEN 0 ELSE Deg(f) + 1)
DivMod(f, g) ==
  While(LAMBDA s : s.r # {} /\ Deg(s.r) >= Deg(g),
        LAMBDA s : LET k == Deg(s.r) - Deg(g)
                   IN [q |-> Plus(s.q, {k}), r |-> Plus(s.r, Shifted(g, k))],
        [q |-> {}, r |-> f], 40)
ModOf(f, g) == DivMod(f, g).r
(* d = uf + vg is the greatest common divisor.                             *)
ppExGCD(f, g) ==
  LET e == While(LAMBDA s : s.b # {},
                 LAMBDA s : LET t == DivMod(s.a, s.b)
                            IN [a |-> s.b, b |-> t.r, u |-> s.u1, u1 |-> Plus(s.u, Times(t.q, s.u1)),
                                v |-> s.v1, v1 |-> Plus(s.v, Times(t.q, s.v1))],
                 [a |-> f, b |-> g, u |-> {0}, u1 |-> {}, v |-> {}, v1 |-> {0}], 40)
  IN [d |-> e.a, u |-> e.u, v |-> e.v]
ppIsIrred(f) == \A g \in SUBSET (0 .. Deg(f) \div 2) : g \in {{}, {0}} \/ ModOf(f, g) # {}
Powered(u, f, k) == Iter(LAMBDA s, i : ModOf(Times(s, u), f), {0}, k)
(* The least polynomial that is zero at u modulo f.                        *)
MinPolyMod(u, f) ==
  LET powers == Eager([i \in 0 .. Deg(f) |-> Powered(u, f, i)])
      At(g) == Iter(LAMBDA s, i : IF i \in g THEN Plus(s, powers[i]) ELSE s, {}, Deg(f) + 1)
      zeros == {g \in SUBSET (0 .. Deg(f)) : g # {} /\ At(g) = {}}
  IN CHOOSE g \in zeros : \A h \in zeros : Deg(g) <= Deg(h)

-----------------------------------------------------------------------------
(* Open keys.  Keys of the standard are given by their numbers; there are  *)
(* not 17 irreducible polynomials of so few bits.                          *)
Keys == (16 :> <<{0, 1}, {0, 3}, {0, 1, 2, 3}>>)
     @@ (24 :> <<{0, 2}, {0, 3}, {0, 1, 2, 3}, {0, 1, 2, 4}, {0, 1, 3, 4}>>)
     @@ (32 :> <<{0, 1}, {0, 3}, {0, 5}, {0, 1, 2, 4}, {0, 1, 2, 5}>>)
MaxNumber(len) == Len(Keys[len]) - 1
belsStdM(len, num) ==
  Result(<<<<len \in DOMAIN Bits /\ num <= MaxNumber(len), "ERR_BAD_INPUT">>>>, Keys[len][num + 1])
Whole(m, len) == m \cup {Bits[len]}

belsValM(m0, len, env) ==
  FirstFailed(<<Len16(len), <<env.mem, "ERR_OUTOFMEMORY">>,
                <<ppIsIrred(Whole(m0, len)), "ERR_BAD_PUBKEY">>>>)

(* draws are what the generator gives in turn; tries after them are those  *)
(* that the code would still make, without success.                        *)
FirstGood(draws, Good(_)) ==
  LET good == {i \in 1 .. Len(draws) : Good(draws[i])}
  IN IF good = {} THEN 0 ELSE CHOOSE i \in good : \A j \in good : i <= j
belsGenM0(len, draws, env) ==
  LET i == FirstGood(draws, LAMBDA f : ppIsIrred(Whole(f, len)))
  IN Result(<<<<env.ang, "ERR_BAD_ANG">>, Len16(len), <<env.mem, "ERR_OUTOFMEMORY">>,
              <<i # 0, "ERR_BAD_ANG">>>>, draws[i])
Tries == 3
FullDegree(u, m0, len) ==
  LET f == MinPolyMod(u, Whole(m0, len)) IN Deg(f) = Bits[len] /\ f # Whole(m0, len)
belsGenMi(len, m0, draws, env) ==
  LET seen == SubSeq(draws, 1, Tries)
      i == FirstGood(seen, LAMBDA u : FullDegree(u, m0, len))
      last == MinPolyMod(seen[Len(seen)], Whole(m0, len))
  IN Result(<<<<env.ang, "ERR_BAD_ANG">>, Len16(len), <<env.mem, "ERR_OUTOFMEMORY">>,
              <<i # 0, IF last = Whole(m0, len) THEN "ERR_BAD_ANG" ELSE "ERR_BAD_PUBKEY">>>>,
            MinPolyMod(seen[i], Whole(m0, len)) \ {Bits[len]})
(* The hash of an identifier is counted on until it gives a key.           *)
AsNumber(f) == Iter(LAMBDA s, i : IF i \in f THEN s + 2 ^ i ELSE s, 0, 7)
AsSet(v) == {i \in 0 .. 9 : (v \div 2 ^ i) % 2 = 1}
belsGenMid(len, m0, id, env) ==
  LET n == Bits[len]
      u == [i \in 1 .. Tries |-> AsSet((beltHash(<<id>>) + i - 1) % 2 ^ n)]
      i == FirstGood(u, LAMBDA v : FullDegree(v, m0, len))
  IN Result(<<Len16(len), <<env.mem, "ERR_OUTOFMEMORY">>, <<i # 0, "ERR_BAD_PUBKEY">>>>,
            MinPolyMod(u[i], Whole(m0, len)) \ {n})

-----------------------------------------------------------------------------
(* c = k (x^n + m0) + s is shared by its residues.                         *)
Shared(s, k, m0, len) == Plus(Plus(Times(k, m0), Shifted(k, Bits[len])), s)
Share(s, k, m0, mi, len) == ModOf(Shared(s, k, m0, len), Whole(mi, len))
(* k has n bits for every share that is needed but one.                    *)
Masks(len, threshold) == SUBSET (0 .. Bits[len] * (threshold - 1) - 1)
Sizes(count, threshold) == <<threshold > 0 /\ count >= threshold, "ERR_BAD_INPUT">>
belsShare(count, threshold, len, s, m0, mi, env) ==
  Result(<<<<env.rng, "ERR_BAD_RNG">>, Len16(len), Sizes(count, threshold),
           <<env.mem, "ERR_OUTOFMEMORY">>>>,
         [i \in 1 .. count |-> Share(s, env.k, m0, mi[i], len)])
Numbered(count, len, s, k) ==
  [i \in 1 .. count |-> [num |-> i, y |-> Share(s, k, Keys[len][1], Keys[len][i + 1], len)]]
belsShare2(count, threshold, len, s, env) ==
  Result(<<<<env.rng, "ERR_BAD_RNG">>, Len16(len), Sizes(count, threshold),
           <<len \notin DOMAIN Bits \/ count <= MaxNumber(len), "ERR_BAD_INPUT">>,
           <<env.mem, "ERR_OUTOFMEMORY">>>>, Numbered(count, len, s, env.k))
(* k comes of the secret itself and the numbers.                           *)
Genk(s, count, threshold, len) ==
  AsSet(beltHash(<<AsNumber(s), count, threshold>>) % 2 ^ (Bits[len] * (threshold - 1)))
belsShare3(count, threshold, len, s, env) ==
  Result(<<Len16(len), <<env.mem, "ERR_OUTOFMEMORY">>, Sizes(count, threshold),
           <<len \notin DOMAIN Bits \/ count <= MaxNumber(len), "ERR_BAD_INPUT">>>>,
         Numbered(count, len, s, Genk(s, count, threshold, len)))

(* Faulty variant: A share is added without what was known before.         *)
TakeIn_variant(s, y, f) ==
  With(ppExGCD(f, s.g), LAMBDA e :
    IF ~s.ok \/ e.d # {0} THEN [s EXCEPT !.ok = FALSE]
    ELSE [s EXCEPT !.c = ModOf(Plus(Times(Times(e.u, s.c), f), Times(e.v, y)), Times(f, s.g)),
                   !.g = Times(f, s.g)])
(* Shares are taken in one after another: c modulo g is what the shares so *)
(* far say of the shared polynomial.                                       *)
TakeIn(s, y, f) ==
  With(ppExGCD(f, s.g), LAMBDA e :
    IF ~s.ok \/ e.d # {0} THEN [s EXCEPT !.ok = FALSE]
    ELSE [s EXCEPT !.c = ModOf(Plus(Times(Times(e.u, s.c), f), Times(Times(e.v, y), s.g)), Times(f, s.g)),
                   !.g = Times(f, s.g)])
Recovered(y, f, f0) ==
  LET t == Iter(LAMBDA s, i : TakeIn(s, y[i + 2], f[i + 2]),
                [ok |-> TRUE, c |-> y[1], g |-> f[1]], Len(y) - 1)
  IN [ok |-> t.ok, s |-> ModOf(t.c, f0)]
belsRecover(len, y, m0, mi, env) ==
  LET r == Recovered(y, [i \in 1 .. Len(y) |-> Whole(mi[i], len)], Whole(m0, len))
  IN Result(<<Len16(len), <<Len(y) > 0, "ERR_BAD_INPUT">>, <<env.mem, "ERR_OUTOFMEMORY">>,
              <<r.ok, "ERR_BAD_PUBKEY">>>>, r.s)
belsRecover2(len, shares, env) ==
  LET n == Len(shares)
      num(i) == shares[i].num
      r == Recovered([i \in 1 .. n |-> shares[i].y],
                     [i \in 1 .. n |-> Whole(Keys[len][num(i) + 1], len)], Whole(Keys[len][1], len))
  IN Result(<<Len16(len), <<n \in 1 .. MaxNumber(len), "ERR_BAD_INPUT">>,
              <<\A i \in 1 .. n : num(i) \in 1 .. MaxNumber(len)
                  /\ \A j \in i + 1 .. n : num(i) # num(j), "ERR_BAD_PUBKEY">>,
              <<env.mem, "ERR_OUTOFMEMORY">>, <<r.ok, "ERR_BAD_PUBKEY">>>>, r.s)
=============================================================================
