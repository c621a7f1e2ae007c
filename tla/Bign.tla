-------------------------------- MODULE Bign --------------------------------
(***************************************************************************)
(* Signatures, keys, key transport and identity-based signatures of        *)
(* src/src/crypto/bign and bign96.c.  Parameters c are a record; env says  *)
(* what a call meets: whether there is memory, an oid that is one, a       *)
(* generator, and the residue the generator draws (0 when it fails).       *)
(* Pointers are valid.                                                     *)
(***************************************************************************)
EXTENDS Curve

Threshold == 3             \* of the check of MOV, 50 in the code
Level == [bign |-> {128, 192, 256}, bign96 |-> {96}]
Top(kind) == IF kind = "bign" THEN Half ELSE 2 * Half

bignIsOperable(c) ==
  /\ c.l \in Level.bign /\ c.p % 4 = 3 /\ c.q % 2 = 1
  /\ c.p >= Octets \div 2 /\ c.q >= Octets \div 2
  /\ c.a # 0 /\ c.b # 0 /\ c.rest = 0
bignStart(c) == c.p % 2 = 1 /\ c.a < c.p /\ c.b < c.p /\ c.yG < c.p /\ c.q > 0
bign96Start(c) ==
  /\ c.p >= Octets \div 2 /\ c.p % 4 = 3 /\ c.a < c.p /\ c.b < c.p /\ c.yG < c.p
  /\ c.q >= Octets \div 2 /\ c.q % 2 = 1

(* What every function begins with; more are its own checks on the way.    *)
Begins(kind, c, more, env) ==
  LET bign == kind = "bign"
  IN <<<<IF bign THEN bignIsOperable(c) ELSE c.l = 96, "ERR_BAD_PARAMS">>>> \o more
     \o <<<<env.mem, "ERR_OUTOFMEMORY">>,
          <<IF bign THEN bignStart(c) ELSE bign96Start(c), "ERR_BAD_PARAMS">>>>
OidIs(env) == <<env.oid # 0, "ERR_BAD_OID">>
RngIs(env) == <<env.rng, "ERR_BAD_RNG">>
Privkey(d, c) == <<d \in 1 .. c.q - 1, "ERR_BAD_PRIVKEY">>
(* qrFrom() of both coordinates.                                           *)
Coordinates(Q, c) == <<Q[1] < c.p /\ Q[2] < c.p, "ERR_BAD_PUBKEY">>
(* zzRandNZMod() goes on until it has a residue other than zero.           *)
Drawn(k, m) == <<k \in 1 .. m - 1, "ERR_BAD_RNG">>
Multiple(R) == <<R # O, "ERR_BAD_PARAMS">>

-----------------------------------------------------------------------------
(* Parameters.  The number of the seed stands for its eight octets.        *)
Standard(l, p, a, b, seed, q, yG) ==
  [l |-> l, p |-> p, a |-> a, b |-> b, seed |-> seed, q |-> q, yG |-> yG, rest |-> 0]
Curves ==
  [v1 |-> Standard(128, 59, 56, 9, 15, 61, 3), v2 |-> Standard(192, 43, 40, 10, 35, 37, 15),
   v3 |-> Standard(256, 47, 44, 25, 16, 53, 42), v0 |-> Standard(96, 43, 40, 38, 50, 53, 9)]
bignParamsStd(name) ==
  IF name \in {"v1", "v2", "v3"} THEN [code |-> "ERR_OK", out |-> Curves[name]]
  ELSE [code |-> "ERR_FILE_NOT_FOUND", out |-> Standard(0, 0, 0, 0, 0, 0, 0)]
(* Octets behind those of the level stay as they were.                     *)
bign96ParamsStd(name, before) ==
  IF name = "v0" THEN [code |-> "ERR_OK", out |-> [Curves.v0 EXCEPT !.rest = before.rest]]
  ELSE [code |-> "ERR_FILE_NOT_FOUND", out |-> before]

bignSeedInc(seed) == (seed + 1) % 256
FromSeed(c, seed) ==
  (beltHash(<<c.p, c.a, seed>>) + 1024 * beltHash(<<c.p, c.a, bignSeedInc(seed)>>)) % c.p
GoodParams(c) ==
  /\ FromSeed(c, c.seed) = c.b /\ c.b # 0
  /\ IsPrime(c.p) /\ c.p > 3 /\ ~ecpDetIsZero(c.a, c.b, c.p)
  /\ SafeGroup(c, Threshold) /\ IsSquare(c.b, c.p)
  /\ Root(c.b, c.p) = c.yG /\ MulA(Base(c), c.q, c) = O
ParamsVal(kind, c, env) ==
  Result(Append(Begins(kind, c, <<>>, env), <<GoodParams(c), "ERR_BAD_PARAMS">>), TRUE)
bignParamsVal(c, env) == ParamsVal("bign", c, env)
bign96ParamsVal(c, env) == ParamsVal("bign96", c, env)

(* The order of the group is a prime of the length of p, not p itself.     *)
OrderFits(d, q) ==
  /\ q >= Octets \div 2 /\ q < Octets /\ q # d.p
  /\ IsPrime(q) /\ ecpMOVIsMet(q, d.p, Threshold)
(* One turn of the search, at seed s.next: told is what on_seed() said, r  *)
(* what calc_q() gave for the curve d of this seed.                        *)
SeedTried(s, d, told, r) ==
  LET more == [s EXCEPT !.next = bignSeedInc(@)]
  IN CASE told # "ERR_OK" -> [s EXCEPT !.c.seed = s.next, !.code = told]
       [] told = "ERR_OK" /\ (ecpDetIsZero(d.a, d.b, d.p) \/ ~IsSquare(d.b, d.p)) ->
            [more EXCEPT !.c.seed = s.next]
       [] OTHER ->
            CASE r.code = "ERR_NO_RESULT" -> [more EXCEPT !.c = d]
              [] r.code \notin {"ERR_OK", "ERR_NO_RESULT"} ->
                   [more EXCEPT !.c = d, !.code = r.code]
              [] OTHER -> [more EXCEPT !.c = [d EXCEPT !.q = r.q],
                                       !.code = IF OrderFits(d, r.q) THEN "ERR_OK" ELSE @]
GenBegins(c, env) ==
  <<<<c.l \in Level.bign, "ERR_BAD_PARAMS">>,
    <<c.p % 4 = 3 /\ c.p >= Octets \div 2 /\ c.a # 0 /\ c.a < c.p /\ c.rest = 0,
      "ERR_BAD_PARAMS">>,
    <<env.mem, "ERR_OUTOFMEMORY">>, <<IsPrime(c.p), "ERR_BAD_PARAMS">>>>
(* The callback on_seed(c) may stop the search; calc_q(c) gives an order,  *)
(* ERR_NO_RESULT, or an error of its own.  c.seed goes on until a curve    *)
(* fits; at most seeds of them are tried here.                             *)
bignParamsGen(c, calc_q(_), on_seed(_), env, seeds) ==
  LET Try(s) ==
        LET d == [s.c EXCEPT !.seed = s.next, !.b = FromSeed(c, s.next)]
        IN SeedTried(s, d, on_seed([s.c EXCEPT !.seed = s.next]), calc_q(d))
      end == While(LAMBDA s : s.code = "more", Try,
                   [c |-> c, next |-> c.seed, code |-> "more"], seeds)
      code == FirstFailed(GenBegins(c, env))
  IN IF code # "ERR_OK" THEN [code |-> code, out |-> c]
     ELSE [code |-> end.code,
           out |-> IF end.code = "ERR_OK" THEN [end.c EXCEPT !.yG = Root(end.c.b, c.p)] ELSE end.c]

-----------------------------------------------------------------------------
(* Keys.  The generator draws the private key from the residues of p.      *)
KeypairGen(kind, c, env) ==
  LET Q == MulA(Base(c), env.k, c)
  IN Result(Begins(kind, c, <<RngIs(env)>>, env) \o <<Drawn(env.k, c.p), Multiple(Q)>>,
            [d |-> env.k, Q |-> Q])
bignKeypairGen(c, env) == KeypairGen("bign", c, env)
bign96KeypairGen(c, env) == KeypairGen("bign96", c, env)

(* An element of the field as it lies in memory: itself when p is but a    *)
(* word below a power of two, and in the form of Montgomery otherwise.     *)
Crandall(p) == p \div 8 = 7
InMemory(x, p) == IF Crandall(p) THEN x ELSE (x * Octets) % p
KeypairVal(kind, c, d, Q, env) ==
  LET R == MulA(Base(c), d, c)
  IN Result(Begins(kind, c, <<>>, env)
              \o <<Privkey(d, c), Multiple(R),
                   <<R # O /\ <<InMemory(R[1], c.p), InMemory(R[2], c.p)>> = Q, "ERR_BAD_PUBKEY">>>>,
            TRUE)
bignKeypairVal(c, d, Q, env) == KeypairVal("bign", c, d, Q, env)
bign96KeypairVal(c, d, Q, env) == KeypairVal("bign96", c, d, Q, env)

PubkeyVal(kind, c, Q, env) ==
  Result(Begins(kind, c, <<>>, env)
           \o <<Coordinates(Q, c), <<OnCurve(Q[1], Q[2], c), "ERR_BAD_PUBKEY">>>>, TRUE)
bignPubkeyVal(c, Q, env) == PubkeyVal("bign", c, Q, env)
bign96PubkeyVal(c, Q, env) == PubkeyVal("bign96", c, Q, env)

PubkeyCalc(kind, c, d, env) ==
  LET Q == MulA(Base(c), d, c)
  IN Result(Begins(kind, c, <<>>, env) \o <<Privkey(d, c), Multiple(Q)>>, Q)
bignPubkeyCalc(c, d, env) == PubkeyCalc("bign", c, d, env)
bign96PubkeyCalc(c, d, env) == PubkeyCalc("bign96", c, d, env)

(* keylen counts coordinates: none, one or both of them are given.         *)
bignDH(c, d, Q, keylen, env) ==
  LET K == MulA(Q, d, c)
  IN Result(Begins("bign", c, <<>>, env)
              \o <<<<keylen <= 2, "ERR_BAD_SHAREDKEY">>, Privkey(d, c), Coordinates(Q, c),
                   <<OnCurve(Q[1], Q[2], c), "ERR_BAD_PUBKEY">>,
                   <<K # O, "ERR_BAD_PARAMS">>>>,
            SubSeq(K, 1, keylen))

-----------------------------------------------------------------------------
(* Faulty variant: the highest bit of the challenge is left out in bign96.  *)
Response_variant(kind, c, k, s0, d, hash) ==
  SubMod(SubMod(k, ((s0 + (IF kind = "bign" THEN Top(kind) ELSE 0)) * d) % c.q, c.q), hash, c.q)
(* Signatures [s0, s1].  R stands for its abscissa.                        *)
Response(kind, c, k, s0, d, hash) ==
  SubMod(SubMod(k, ((s0 + Top(kind)) * d) % c.q, c.q), hash, c.q)
SignWith(kind, c, hash, d, k, env) ==
  LET R == MulA(Base(c), k, c)
      s0 == Tag(<<env.oid, R[1], hash>>)
  IN Result(<<Privkey(d, c), Drawn(k, c.q), Multiple(R)>>,
            [s0 |-> s0, s1 |-> Response(kind, c, k, s0, d, hash)])
Signed(kind, c, hash, d, k, env, more) ==
  LET start == FirstFailed(Begins(kind, c, <<OidIs(env)>> \o more, env))
  IN IF start # "ERR_OK" THEN [code |-> start, out |-> Nothing]
     ELSE SignWith(kind, c, hash, d, k, env)
bignSign(c, hash, d, env) == Signed("bign", c, hash, d, env.k, env, <<RngIs(env)>>)
bign96Sign(c, hash, d, env) == Signed("bign96", c, hash, d, env.k, env, <<RngIs(env)>>)

(* Wide block and the block of 24 octets: permutations with a key, the     *)
(* second one with rounds that are counted through all its calls.          *)
beltWBL(theta, x, round) == (x * (8 * (theta % 7) + 5) + 2 * theta + 1) % Octets
belt32BlockEncr(theta, x, round) == (x * (8 * (theta % 7) + 5) + 2 * (theta + round) + 1) % Octets
(* The nonce: the hash is encrypted until it is a residue other than zero. *)
Nonce(Encr(_, _, _), theta, hash, q) ==
  While(LAMBDA s : s.x \notin 1 .. q - 1,
        LAMBDA s : [x |-> Encr(theta, s.x, s.round), round |-> s.round + 3],
        [x |-> Encr(theta, hash, 1), round |-> 4], 4 * Octets).x
Theta(c, d, t, env) == beltHash(<<env.oid, d>> \o t)
bignSign2(c, hash, d, t, env) ==
  Signed("bign", c, hash, d, Nonce(beltWBL, Theta(c, d, t, env), hash, c.q), env, <<>>)
bign96Sign2(c, hash, d, t, env) ==
  Signed("bign96", c, hash, d, Nonce(belt32BlockEncr, Theta(c, d, t, env), hash, c.q), env, <<>>)

(* A hash not less than q is taken modulo q here.                          *)
Reduced(hash, q) == IF hash >= q THEN hash - q ELSE hash
VerifyWith(kind, c, hash, sig, Q, env) ==
  LET s1 == AddMod(sig.s1, Reduced(hash, c.q), c.q)
  IN With(AddPoints(MulA(Base(c), s1, c), MulA(Q, sig.s0 + Top(kind), c), c), LAMBDA R :
       Result(Begins(kind, c, <<OidIs(env)>>, env)
                \o <<Coordinates(Q, c), <<sig.s1 < c.q, "ERR_BAD_SIG">>, <<R # O, "ERR_BAD_SIG">>,
                     <<R # O /\ sig.s0 = Tag(<<env.oid, R[1], hash>>), "ERR_BAD_SIG">>>>,
              [e |-> s1, R |-> R]))
bignVerify(c, hash, sig, Q, env) == VerifyWith("bign", c, hash, sig, Q, env).code
bign96Verify(c, hash, sig, Q, env) == VerifyWith("bign96", c, hash, sig, Q, env).code

-----------------------------------------------------------------------------
(* Keys of an identity are what a verification of its signature finds.     *)
bignIdExtract(c, idhash, sig, Q, env) == VerifyWith("bign", c, idhash, sig, Q, env)

IdSigned(c, idhash, hash, e, k, env, more) ==
  LET V == MulA(Base(c), k, c)
      s0 == Tag(<<env.oid, V[1], idhash, hash>>)
  IN Result(Begins("bign", c, <<OidIs(env)>> \o more, env)
              \o <<<<e < c.q, "ERR_BAD_PRIVKEY">>, Drawn(k, c.q), Multiple(V)>>,
            [s0 |-> s0, s1 |-> Response("bign", c, k, s0, e, hash)])
bignIdSign(c, idhash, hash, e, env) == IdSigned(c, idhash, hash, e, env.k, env, <<RngIs(env)>>)
bignIdSign2(c, idhash, hash, e, t, env) ==
  IdSigned(c, idhash, hash, e, Nonce(beltWBL, Theta(c, e, t, env), hash, c.q), env, <<>>)
bignIdVerify(c, idhash, hash, sig, R, Q, env) ==
  LET s1 == AddMod(sig.s1, Reduced(hash, c.q), c.q)
      u == sig.s0 + Half
      t == (Tag(<<env.oid, R[1], idhash>>) + Half) * u
      V == AddPoints(AddPoints(MulA(Base(c), s1, c), MulA(R, u, c), c),
                     MulA(Q, (c.q - (t % c.q)) % c.q, c), c)
  IN FirstFailed(Begins("bign", c, <<OidIs(env)>>, env)
       \o <<Coordinates(R, c), <<OnCurve(R[1], R[2], c), "ERR_BAD_PUBKEY">>, Coordinates(Q, c),
            <<sig.s1 < c.q, "ERR_BAD_SIG">>, <<V # O, "ERR_BAD_SIG">>,
            <<V # O /\ sig.s0 = Tag(<<env.oid, V[1], idhash, hash>>), "ERR_BAD_SIG">>>>)

-----------------------------------------------------------------------------
(* Key transport.  KWP hides a key and a header under a key theta; under   *)
(* another one, or when it was touched, a header comes out that nobody     *)
(* expects.  A header that is left out is that of zeros.                   *)
KWP(theta, key, header) == [theta |-> theta, key |-> key, header |-> header]
Unwrapped(w, theta) ==
  IF w.theta = theta THEN w ELSE [w EXCEPT !.header = "other", !.key = "other"]
bignKeyWrap(c, key, len, header, Q, env) ==
  LET K == MulA(Q, env.k, c)
      R == MulA(Base(c), env.k, c)
  IN Result(<<<<bignIsOperable(c), "ERR_BAD_PARAMS">>, RngIs(env), <<len >= 16, "ERR_BAD_INPUT">>,
              <<env.mem, "ERR_OUTOFMEMORY">>, <<bignStart(c), "ERR_BAD_PARAMS">>,
              Drawn(env.k, c.q), Coordinates(Q, c), Multiple(K), Multiple(R)>>,
            [x |-> R[1], body |-> KWP(K[1], key, header), len |-> len + 16])
(* Faulty variant: The header that came out is not compared.               *)
bignKeyUnwrap_variant(c, token, header, d, env) ==
  LET x == token.x
      f == (x * x * x + c.a * x + c.b) % c.p
      y == Root(f, c.p)
      K == MulA(<<x, y>>, d, c)
      u == Unwrapped(token.body, K[1])
  IN Result(Begins("bign", c, <<>>, env)
              \o <<<<token.len >= 32, "ERR_BAD_KEYTOKEN">>, Privkey(d, c),
                   <<x < c.p, "ERR_BAD_KEYTOKEN">>, <<(y * y) % c.p = f, "ERR_BAD_KEYTOKEN">>,
                   Multiple(K), <<TRUE, "ERR_BAD_KEYTOKEN">>>>,
            u.key)
(* len is the length of the token without the abscissa.  The key that came *)
(* out is cleared when the header is not the right one.                    *)
bignKeyUnwrap(c, token, header, d, env) ==
  LET x == token.x
      f == (x * x * x + c.a * x + c.b) % c.p
      y == Root(f, c.p)
      K == MulA(<<x, y>>, d, c)
      u == Unwrapped(token.body, K[1])
  IN Result(Begins("bign", c, <<>>, env)
              \o <<<<token.len >= 32, "ERR_BAD_KEYTOKEN">>, Privkey(d, c),
                   <<x < c.p, "ERR_BAD_KEYTOKEN">>, <<(y * y) % c.p = f, "ERR_BAD_KEYTOKEN">>,
                   Multiple(K), <<u.header = header, "ERR_BAD_KEYTOKEN">>>>,
            u.key)

-----------------------------------------------------------------------------
(***************************************************************************)
(* Containers of private keys and shares and requests of certificates,     *)
(* src/src/crypto/bpki.c.  A container is the record of the fields of its  *)
(* encoding; format says that the encoding is whole.                       *)
(***************************************************************************)
LeastIter == 10000
PrivkeyLens == {24, 32, 48, 64}
ShareLens == {17, 25, 33}
ShareNums == 1 .. 16

(* What lies in a container: a private key or a share with its number.     *)
bpkiPrivkeyEnc(key) == [is |-> "privkey", len |-> key.len, num |-> 0, value |-> key.value]
bpkiShareEnc(share) == [is |-> "share", len |-> share.len, num |-> share.num, value |-> share.value]
beltPBKDF2(pwd, iter, salt) == <<pwd, iter, salt>>
bpkiEdataEnc(salt, iter, edata) == [format |-> TRUE, salt |-> salt, iter |-> iter, edata |-> edata]

Wrapped(pki, size, pwd, salt, iter, env) ==
  Result(<<<<iter >= LeastIter, "ERR_BAD_INPUT">>, size, <<env.mem, "ERR_OUTOFMEMORY">>>>,
         bpkiEdataEnc(salt, iter, KWP(beltPBKDF2(pwd, iter, salt), pki, "zeros")))
bpkiPrivkeyWrap(key, pwd, salt, iter, env) ==
  Wrapped(bpkiPrivkeyEnc(key), <<key.len \in PrivkeyLens, "ERR_BAD_PRIVKEY">>, pwd, salt, iter, env)
bpkiShareWrap(share, pwd, salt, iter, env) ==
  Wrapped(bpkiShareEnc(share), <<share.len \in ShareLens /\ share.num \in ShareNums, "ERR_BAD_SECKEY">>,
          pwd, salt, iter, env)

(* The number of iterations is not checked against the least one here.     *)
Opened(epki, pwd) == Unwrapped(epki.edata, beltPBKDF2(pwd, epki.iter, epki.salt))
Unwraps(epki, pwd, env, IsIt(_)) ==
  LET u == Opened(epki, pwd)
  IN <<<<epki.format, "ERR_BAD_FORMAT">>, <<env.mem, "ERR_OUTOFMEMORY">>,
       <<u.header = "zeros", "ERR_BAD_KEYTOKEN">>,
       <<u.header # "zeros" \/ IsIt(u.key), "ERR_BAD_FORMAT">>>>
bpkiPrivkeyDec(pki) == pki.is = "privkey" /\ pki.len \in PrivkeyLens
bpkiShareDec(pki) == pki.is = "share" /\ pki.len \in ShareLens
bpkiPrivkeyUnwrap(epki, pwd, env) ==
  Result(Unwraps(epki, pwd, env, bpkiPrivkeyDec),
         LET k == Opened(epki, pwd).key IN [len |-> k.len, num |-> 0, value |-> k.value])
(* A share with a wrong number is given out together with the code.        *)
bpkiShareUnwrap(epki, pwd, env) ==
  LET k == Opened(epki, pwd).key
      code == FirstFailed(Unwraps(epki, pwd, env, bpkiShareDec))
      share == [len |-> k.len, num |-> k.num, value |-> k.value]
  IN IF code # "ERR_OK" THEN [code |-> code, out |-> Nothing]
     ELSE [code |-> IF k.num \in ShareNums THEN "ERR_OK" ELSE "ERR_BAD_SHAREKEY", out |-> share]

-----------------------------------------------------------------------------
(* Requests: subject stands for the rest of the body.  The new key is put  *)
(* into the request before it is signed; when the signature fails, the     *)
(* request keeps the key and has no signature of it.                       *)
BodyHash(csr) == beltHash(<<csr.subject, csr.pubkey[1], csr.pubkey[2]>>) % Octets
bpkiCSRRewrap(csr, privlen, d, env) ==
  LET c == Curves.v1
      key == bignPubkeyCalc(c, d, env)
      t == IF env.rng THEN <<env.k>> ELSE <<csr.sig.s0, csr.sig.s1>>
      new == [csr EXCEPT !.pubkey = key.out]
      sig == bignSign2(c, BodyHash(new), d, t, env)
      failed == IF env.rng THEN [new EXCEPT !.sig = [s0 |-> env.k % Half, s1 |-> env.k]] ELSE new
  IN CASE privlen # 32 -> [code |-> "ERR_NOT_IMPLEMENTED", out |-> csr]
       [] privlen = 32 /\ ~csr.format -> [code |-> "ERR_BAD_FORMAT", out |-> csr]
       [] privlen = 32 /\ csr.format /\ ~Ok(key) -> [code |-> key.code, out |-> csr]
       [] OTHER ->
            IF env.later /\ Ok(sig) THEN [code |-> "ERR_OK", out |-> [new EXCEPT !.sig = sig.out]]
            ELSE [code |-> IF env.later THEN sig.code ELSE "ERR_OUTOFMEMORY", out |-> failed]
bpkiCSRUnwrap(csr, env) ==
  IF ~csr.format THEN [code |-> "ERR_BAD_FORMAT", out |-> Nothing]
  ELSE Result(<<<<env.mem, "ERR_OUTOFMEMORY">>,
                <<bignVerify(Curves.v1, BodyHash(csr), csr.sig, csr.pubkey, env) = "ERR_OK",
                  bignVerify(Curves.v1, BodyHash(csr), csr.sig, csr.pubkey, env)>>>>, csr.pubkey)
=============================================================================
