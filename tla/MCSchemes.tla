----------------------------- MODULE MCSchemes -----------------------------
(***************************************************************************)
(* Signatures, keys, parameters, shares, containers and certificates.  A   *)
(* job fixes what the parties have; a behaviour makes something with any   *)
(* draws of the generator, spoils it or leaves it as it is, and gives it   *)
(* to the function that accepts or refuses it.  One job is a program that  *)
(* keeps its states and keys in blobs, and uses them in every order.       *)
(***************************************************************************)
EXTENDS Bign, Legacy, Cvc, Blob

VARIABLES
  job,           \* who does what
  stage,         \* what has been done: "start", "made", "end", and so on
  thing,         \* what was made
  answer         \* what came of it

schemeVars == <<job, stage, thing, answer>>
vars == <<schemeVars, blobVars>>

Env(k) == [mem |-> TRUE, rng |-> TRUE, ang |-> TRUE, oid |-> 1, k |-> k, draws |-> <<k>>,
           draw |-> k, later |-> TRUE]
NoMem(e) == [e EXCEPT !.mem = FALSE]

-----------------------------------------------------------------------------
(* Signatures: all is every one that the algorithm makes with some nonce,  *)
(* computed modulo q from the hash as a number, however long it is.        *)
SignaturesBy(kind, c, d, hash, more) ==
  LET SigOf(k) ==
        LET s0 == Tag(<<1, MulA(Base(c), k, c)[1]>> \o more \o <<hash>>)
        IN [s0 |-> s0, s1 |-> (k - (s0 + Top(kind)) * d - hash) % c.q]
  IN Eager({SigOf(k) : k \in 1 .. c.q - 1})
BignJob(kind, name, d, hash) ==
  LET c == Curves[name]
  IN [kind |-> kind, c |-> c, d |-> d, hash |-> hash, Q |-> MulA(Base(c), d, c),
      all |-> SignaturesBy(kind, c, d, hash, <<>>)]
IbsJob(name, d, k, idhash, hash) ==
  LET c == Curves[name]
      Q == MulA(Base(c), d, c)
      id == bignIdExtract(c, idhash, bignSign(c, idhash, d, Env(k)).out, Q, Env(0)).out
  IN [kind |-> "ibs", c |-> c, d |-> d, hash |-> hash, idhash |-> idhash, Q |-> Q, id |-> id,
      all |-> SignaturesBy("bign", c, id.e, hash, <<idhash>>)]
G12sJob(name, d, hash) ==
  LET c == G12sCurves[name]
      sigs == {g12sSign(c, hash, d, Env(k)) : k \in 1 .. c.q - 1}
  IN [kind |-> "g12s", c |-> c, d |-> d, hash |-> hash, Q |-> MulA(G12sBase(c), d, c),
      all |-> Eager({s.out : s \in {t \in sigs : Ok(t) /\ t.out.s # 0}})]
DstuJob(name, P, d, hash) ==
  LET c == [DstuCurves[name] EXCEPT !.P = P]
      OneOf(e) == With(Cut(Mul(Mul2A(c.P, e, c)[1], HashElement(hash)), c), LAMBDA r :
                       [r |-> r, s |-> (e + d * r) % c.n, tail |-> 0])
  IN [kind |-> "dstu", c |-> c, d |-> d, hash |-> hash, Q |-> Neg2(Mul2A(c.P, d, c)),
      all |-> Eager({s \in {OneOf(e) : e \in 1 .. c.n - 1} : s.r # 0 /\ s.s # 0})]
DstuP == [curve163pb |-> <<3, 25>>, curve167pb |-> <<1, 20>>, curve173pb |-> <<18, 1>>]
SignJobs ==
  {BignJob("bign", "v1", 7, 5), BignJob("bign", "v1", 60, 0), BignJob("bign", "v2", 20, 36),
   BignJob("bign", "v3", 11, 23), BignJob("bign", "v1", 7, 61), BignJob("bign", "v2", 20, 37),
   BignJob("bign", "v2", 20, 50), BignJob("bign", "v3", 11, 63),
   BignJob("bign96", "v0", 9, 14), BignJob("bign96", "v0", 9, 60),
   IbsJob("v1", 7, 30, 17, 44), IbsJob("v3", 52, 8, 3, 40), IbsJob("v2", 5, 30, 41, 55),
   G12sJob("cryptocom", 5, 37), G12sJob("paramsetA512", 40, 50),
   DstuJob("curve163pb", DstuP.curve163pb, 5, 32), DstuJob("curve167pb", DstuP.curve167pb, 7, 45),
   DstuJob("curve173pb", DstuP.curve173pb, 3, 11)}

SigsOf(j) ==
  CASE j.kind \in {"bign", "bign96", "ibs"} -> [s0 : 0 .. Half - 1, s1 : 0 .. Octets - 1]
    [] j.kind = "g12s" -> [r : 0 .. j.c.q, s : 0 .. j.c.q]
    [] j.kind = "dstu" -> [r : 0 .. j.c.n, s : 0 .. j.c.n, tail : {0, 1}]
Verify(j, sig) ==
  CASE j.kind = "bign" -> bignVerify(j.c, j.hash, sig, j.Q, Env(0))
    [] j.kind = "bign96" -> bign96Verify(j.c, j.hash, sig, j.Q, Env(0))
    [] j.kind = "ibs" -> bignIdVerify(j.c, j.idhash, j.hash, sig, j.id.R, j.Q, Env(0))
    [] j.kind = "g12s" -> g12sVerify(j.c, j.hash, sig, j.Q, Env(0))
    [] j.kind = "dstu" -> dstuVerify(j.c, 16, j.hash, sig, j.Q, Env(0))
(* What the signing functions give, with a nonce that is drawn or comes of *)
(* the key, the hash and t.                                                *)
Drawings == {1, 2, 5, 20, 30, 36}
Signatures(j) ==
  CASE j.kind = "bign" -> {bignSign2(j.c, j.hash, j.d, t, Env(0)) : t \in {<<>>, <<3>>, <<9>>}}
                          \cup {bignSign(j.c, j.hash, j.d, Env(k)) : k \in Drawings}
    [] j.kind = "bign96" -> {bign96Sign2(j.c, j.hash, j.d, t, Env(0)) : t \in {<<>>, <<3>>, <<9>>}}
                            \cup {bign96Sign(j.c, j.hash, j.d, Env(k)) : k \in Drawings}
    [] j.kind = "ibs" -> {bignIdSign2(j.c, j.idhash, j.hash, j.id.e, t, Env(0)) : t \in {<<>>, <<3>>}}
                         \cup {bignIdSign(j.c, j.idhash, j.hash, j.id.e, Env(k)) : k \in Drawings}
    [] j.kind = "g12s" -> {g12sSign(j.c, j.hash, j.d, [Env(0) EXCEPT !.draws = <<k, 1, 2>>]) : k \in {3, 5}}
    [] j.kind = "dstu" -> {dstuSign(j.c, 16, j.hash, j.d, [Env(0) EXCEPT !.draws = <<k, 1, 2, 3>>]) :
                             k \in 0 .. 31}
Forge ==
  /\ job.kind \in {"bign", "bign96", "ibs", "g12s", "dstu"} /\ stage = "start"
  /\ \E sig \in SigsOf(job) : thing' = sig /\ answer' = Verify(job, sig)
  /\ stage' = "judged" /\ UNCHANGED job
MakeSignature ==
  /\ job.kind \in {"bign", "bign96", "ibs", "g12s", "dstu"} /\ stage = "start"
  /\ \E r \in Signatures(job) :
       Ok(r) /\ thing' = r.out /\ answer' = Verify(job, r.out)
  /\ stage' = "signed" /\ UNCHANGED job

-----------------------------------------------------------------------------
(* Keys of two parties, drawn one after another.                           *)
KeyJobs == {[kind |-> "keys", c |-> Curves[name]] : name \in {"v1", "v2", "v3"}}
Draws(c) == {1, 2, 7, 36, c.q - 1}
Generate ==
  /\ job.kind = "keys" /\ stage \in {"start", "one"}
  /\ \E k \in Draws(job.c) :
       LET r == bignKeypairGen(job.c, Env(k))
       IN Ok(r) /\ thing' = Append(thing, r.out)
  /\ stage' = IF stage = "start" THEN "one" ELSE "two"
  /\ UNCHANGED <<job, answer>>
Exchange ==
  /\ job.kind = "keys" /\ stage = "two"
  /\ \E len \in 0 .. 2 :
       answer' = <<bignDH(job.c, thing[1].d, thing[2].Q, len, Env(0)),
                   bignDH(job.c, thing[2].d, thing[1].Q, len, Env(0))>>
  /\ stage' = "agreed" /\ UNCHANGED <<job, thing>>
(* A key is sent to the second one; the token may be spoiled on the way.   *)
Transport ==
  /\ job.kind = "keys" /\ stage = "two"
  /\ \E k \in {3, 12, job.c.q - 1} : \E spoil \in {"no", "x", "header", "length", "owner"} :
       LET w == bignKeyWrap(job.c, "key", 16, "h1", thing[2].Q, Env(k))
           x == IF spoil = "x" THEN MulA(Base(job.c), (k + 1) % job.c.q, job.c)[1] ELSE w.out.x
           d == IF spoil = "owner" THEN thing[1].d ELSE thing[2].d
           len == IF spoil = "length" THEN 16 ELSE w.out.len
       IN /\ Ok(w) /\ (k + 1) % job.c.q # 0 
          /\ answer' = [spoil |-> spoil, k |-> k,
                        r |-> bignKeyUnwrap(job.c, [w.out EXCEPT !.x = x, !.len = len],
                                            IF spoil = "header" THEN "h2" ELSE "h1", d, Env(0))]
  /\ stage' = "sent" /\ UNCHANGED <<job, thing>>

-----------------------------------------------------------------------------
(* Parameters made of seeds.                                               *)
CountPoints(c) ==
  1 + Cardinality({x \in 0 .. c.p - 1 : (x * x * x + c.a * x + c.b) % c.p = 0})
    + 2 * Cardinality({x \in 0 .. c.p - 1 : IsSquare((x * x * x + c.a * x + c.b) % c.p, c.p)})
OrderOf(c) == [code |-> IF CountPoints(c) < Octets THEN "ERR_OK" ELSE "ERR_NO_RESULT", q |-> CountPoints(c)]
Begin(c, seed) == [c EXCEPT !.seed = seed, !.b = 0, !.q = 0, !.yG = 0]
ParamJobs ==
  {[kind |-> "params", c |-> Begin(Curves[name], seed)] : name \in {"v1", "v2", "v3"},
     seed \in {0, 10, 30, 200, 255}}
Seeds == 40
GenParams ==
  /\ job.kind = "params" /\ stage = "start"
  /\ \E stop \in {256, job.c.seed + 2} :
       thing' = bignParamsGen(job.c, OrderOf,
                              LAMBDA c : IF c.seed = stop THEN "ERR_USER" ELSE "ERR_OK", Env(0), Seeds)
  /\ stage' = "made" /\ answer' = Nothing /\ UNCHANGED job

(* Seeds of stb99 and pfok with the lengths of the code.  Each part that   *)
(* is given is all zeros, the one that would be made up, another one that  *)
(* is valid, or one that is not.                                           *)
SeedJobs ==
  {[kind |-> "stbseed", l |-> l] : l \in DOMAIN StbLength \cup {640}}
  \cup {[kind |-> "pfokseed", l |-> l] : l \in PfokLengths \cup {640}}
AllZero(n) == [i \in 1 .. n |-> 0]
GivenZi == {AllZero(ZiCount), CountedZi, [CountedZi EXCEPT ![1] = 65256], [CountedZi EXCEPT ![31] = 65257]}
(* A chain whose links are longer than those that are made up.             *)
SlowChain(first, n) ==
  Padded(While(LAMBDA s : s[Len(s)] > 32, LAMBDA s : Append(s, (s[Len(s)] \div 2) + 2), <<first>>, n), n)
GivenChains(first, n) ==
  {AllZero(n), Padded(ChainFrom(first, n), n), SlowChain(first, n), Padded(<<first>>, n)}
GivenSeeds(j) ==
  CASE j.kind = "stbseed" ->
         [l : {j.l}, zi : GivenZi, di : GivenChains((j.l \div 2) + 1, DiCount),
          ri : GivenChains(IF j.l \in DOMAIN StbLength THEN StbLength[j.l] ELSE 143, RiCount)]
    [] j.kind = "pfokseed" -> [l : {j.l}, zi : GivenZi, li : GivenChains(j.l - 1, LiCount)]
SeedVal(j, seed) == IF j.kind = "stbseed" THEN stb99SeedVal(seed) ELSE pfokSeedVal(seed)
Adjust ==
  /\ job.kind \in {"stbseed", "pfokseed"} /\ stage = "start"
  /\ \E seed \in GivenSeeds(job) :
       /\ thing' = IF job.kind = "stbseed" THEN stb99SeedAdj(seed) ELSE pfokSeedAdj(seed)
       /\ answer' = [given |-> seed, code |-> SeedVal(job, seed)]
  /\ stage' = "made" /\ UNCHANGED job

(* Chains of primes, and the parameters they end in.                       *)
StbSmall == (8 :> 3) @@ (7 :> 2)
PfokSmall == 8 :> 5
ChainJobs ==
  {[kind |-> "stb", start |-> StbStart(8, <<4>>, <<3>>)],
   [kind |-> "stb", start |-> StbStart(7, <<4>>, <<2>>)],
   [kind |-> "pfok", start |-> PfokStart(8, <<7, 4>>, 5)]}
ChainStep ==
  /\ job.kind \in {"stb", "pfok"} /\ stage = "start"
  /\ \E t \in IF job.kind = "stb" THEN StbSteps(thing) ELSE PfokSteps(thing) : thing' = t
  /\ UNCHANGED <<job, stage, answer>>
ChainEnd ==
  /\ job.kind \in {"stb", "pfok"} /\ stage = "start" /\ thing.p # 0
  /\ thing' = IF job.kind = "stb" THEN StbParams(thing) ELSE PfokParams(thing)
  /\ stage' = "made" /\ UNCHANGED <<job, answer>>
(* Keys of pfok.                                                           *)
PfokAgree ==
  /\ job.kind = "pfok" /\ stage = "made"
  /\ \E x, u, y, v \in {3, 14, 31} :
       LET pub(k) == pfokPubkeyCalc(thing, PfokSmall, k, Env(0)).out
       IN answer' = <<<<pfokDH(thing, PfokSmall, x, pub(y), Env(0)), pfokDH(thing, PfokSmall, y, pub(x), Env(0))>>,
                      <<pfokMTI(thing, PfokSmall, x, u, pub(y), pub(v), Env(0)),
                        pfokMTI(thing, PfokSmall, y, v, pub(x), pub(u), Env(0))>>>>
  /\ stage' = "agreed" /\ UNCHANGED <<job, thing>>

(* Standard parameters, as they are or with some of them changed, and      *)
(* points of the curves in characteristic two.                             *)
StandardJobs ==
  {[kind |-> "standard", of |-> "bign", c |-> bignParamsStd(name).out] : name \in {"v1", "v2", "v3"}}
  \cup {[kind |-> "standard", of |-> "bign96", c |-> bign96ParamsStd("v0", Curves.v0).out]}
  \cup {[kind |-> "standard", of |-> "g12s", c |-> g12sParamsStd(name).out] : name \in DOMAIN G12sCurves}
  \cup {[kind |-> "standard", of |-> "dstu", c |-> dstuParamsStd(name).out] : name \in DOMAIN DstuCurves}
ParamsValOf(of, c) ==
  CASE of = "bign" -> bignParamsVal(c, Env(0))
    [] of = "bign96" -> bign96ParamsVal(c, Env(0))
    [] of = "g12s" -> [code |-> g12sParamsVal(c, Env(0)), out |-> Nothing]
    [] of = "dstu" -> [code |-> dstuParamsVal(c, Env(0)), out |-> Nothing]
Changes(j) ==
  CASE j.of \in {"bign", "bign96"} ->
         {j.c} \cup {[j.c EXCEPT !.q = q] : q \in 33 .. 63} \cup {[j.c EXCEPT !.b = b] : b \in 1 .. 30}
         \cup {[j.c EXCEPT !.seed = s, !.b = FromSeed(j.c, s), !.yG = Root(FromSeed(j.c, s), j.c.p)] :
                s \in 0 .. 255}
    [] j.of = "g12s" -> {[j.c EXCEPT !.q = q, !.n = n] : q \in 9 .. 63, n \in 1 .. 4}
                        \cup {[j.c EXCEPT !.b = b] : b \in 0 .. j.c.p - 1}
    [] j.of = "dstu" -> {[j.c EXCEPT !.n = n, !.c = h, !.P = P] :
                         n \in 5 .. 23, h \in 1 .. 4, P \in {<<3, 25>>, <<1, 20>>, <<18, 1>>, <<9, 9>>}}
Change ==
  /\ job.kind = "standard" /\ stage = "start"
  /\ \E c \in Changes(job) : thing' = c /\ answer' = ParamsValOf(job.of, c)
  /\ stage' = "judged" /\ UNCHANGED job
(* A point is drawn, compressed and recovered.                             *)
Point ==
  /\ job.kind = "standard" /\ job.of = "dstu" /\ stage = "start"
  /\ \E x \in 1 .. 2 * Elements - 1 :
     \E P \in {dstuPointGen(job.c, [Env(0) EXCEPT !.draws = <<x>>]).out} :
       LET small == dstuPointCompress(job.c, P, 0, Env(0))
       IN P # O /\ thing' = P
          /\ answer' = [val |-> dstuPointVal(job.c, P, Env(0)), small |-> small.out,
                        back |-> dstuPointRecover(job.c, small.out, <<0, 0>>, Env(0))]
  /\ stage' = "recovered" /\ UNCHANGED job

-----------------------------------------------------------------------------
(* A secret is shared with keys of the standard, or with keys made for the *)
(* owners, and some of the shares come together, in any order.             *)
M0(j) == belsStdM(j.len, 0).out
OwnersKeys(how, len, count) ==
  Eager([i \in 1 .. count |-> IF how # "own" THEN belsStdM(len, i).out
                              ELSE belsGenMid(len, belsStdM(len, 0).out, 2 * i, Env(0)).out])
ShareJob(how, len, count, threshold, secret) ==
  [kind |-> "share", how |-> how, len |-> len, count |-> count, threshold |-> threshold, secret |-> secret,
   keys |-> OwnersKeys(how, len, count)]
ShareJobs ==
  {ShareJob(how, 16, 2, t, s) : how \in {"keys", "std", "own"}, t \in 1 .. 2, s \in {{}, {1, 3}, {0, 2, 3}}}
  \cup {ShareJob(how, 24, 3, 2, {0, 3}) : how \in {"keys", "std", "own"}}
Deal ==
  /\ job.kind = "share" /\ stage = "start"
  /\ \E k \in Masks(job.len, job.threshold) :
       LET env == [Env(0) EXCEPT !.k = k]
           mi == job.keys
           r == CASE job.how = "keys" -> belsShare(job.count, job.threshold, job.len, job.secret, M0(job), mi, env)
                  [] job.how = "std" -> belsShare2(job.count, job.threshold, job.len, job.secret, env)
                  [] job.how = "own" -> belsShare(job.count, job.threshold, job.len, job.secret, M0(job), mi, env)
       IN Ok(r) /\ thing' = Eager(r.out)
  /\ stage' = "dealt" /\ UNCHANGED <<job, answer>>
DealAlone ==
  /\ job.kind = "share" /\ job.how = "std" /\ stage = "start"
  /\ LET r == belsShare3(job.count, job.threshold, job.len, job.secret, Env(0))
     IN Ok(r) /\ thing' = Eager(r.out)
  /\ stage' = "dealt" /\ UNCHANGED <<job, answer>>
Somebody(n) == UNION {{s \in [1 .. k -> 1 .. n] : \A i, j \in 1 .. k : i # j => s[i] # s[j]} : k \in 1 .. n}
Collect ==
  /\ job.kind = "share" /\ stage = "dealt"
  /\ \E who \in Somebody(job.count) :
       LET y == [i \in 1 .. Len(who) |-> thing[who[i]]]
           mi == [i \in 1 .. Len(who) |-> job.keys[who[i]]]
       IN answer' = [who |-> who,
                     r |-> IF job.how = "std" THEN belsRecover2(job.len, y, Env(0))
                           ELSE belsRecover(job.len, y, M0(job), mi, Env(0))]
  /\ stage' = "collected" /\ UNCHANGED <<job, thing>>
(* Keys made with draws of the generator.                                  *)
MakeKeys ==
  /\ job.kind = "share" /\ job.how = "own" /\ job.secret = {0, 3} /\ stage = "start"
  /\ \E f, g, u, v \in {{}, {0}, {0, 2}, {1, 2}, {0, 1, 3}, {0, 1, 2, 3}} :
       LET m0 == belsGenM0(job.len, <<f, g>>, Env(0))
           m1 == belsGenMi(job.len, m0.out, <<u, v, {2}>>, Env(0))
       IN Ok(m0) /\ Ok(m1) /\ thing' = [m0 |-> m0.out, m1 |-> m1.out]
          /\ answer' = <<belsValM(m0.out, job.len, Env(0)), belsValM(m1.out, job.len, Env(0))>>
  /\ stage' = "keyed" /\ UNCHANGED job

-----------------------------------------------------------------------------
(* Containers: wrapped, changed on the way or not, and opened.             *)
Item(is, len, num) == [is |-> is, len |-> len, num |-> num, value |-> "key"]
BoxJobs ==
  {[kind |-> "box", item |-> i, env |-> e] :
     i \in {Item("privkey", l, 0) : l \in PrivkeyLens \cup {16, 33}}
           \cup {Item("share", l, n) : l \in ShareLens \cup {16, 32}, n \in {0, 1, 16, 17}},
     e \in {Env(0), NoMem(Env(0))}}
WrapItem ==
  /\ job.kind = "box" /\ stage = "start"
  /\ \E iter \in {LeastIter - 1, LeastIter, 2 * LeastIter} :
       thing' = IF job.item.is = "privkey" THEN bpkiPrivkeyWrap(job.item, "pwd", "salt", iter, job.env)
                ELSE bpkiShareWrap(job.item, "pwd", "salt", iter, job.env)
  /\ stage' = "made" /\ UNCHANGED <<job, answer>>
(* Somebody who knows the password may also have made a container the      *)
(* functions do not make: with a few iterations, a number out of range.    *)
WrapByHand ==
  /\ job.kind = "box" /\ stage = "start"
  /\ thing' = [code |-> "ERR_OK",
               out |-> bpkiEdataEnc("salt", 1, KWP(beltPBKDF2("pwd", 1, "salt"), job.item, "zeros"))]
  /\ stage' = "made" /\ UNCHANGED <<job, answer>>
Spoiled(epki, how) ==
  CASE how \in {"no", "password"} -> epki
    [] how = "format" -> [epki EXCEPT !.format = FALSE]
    [] how = "salt" -> [epki EXCEPT !.salt = "other"]
    [] how = "iter" -> [epki EXCEPT !.iter = @ + 1]
    [] how = "body" -> [epki EXCEPT !.edata = KWP(<<"other">>, "other", "other")]
OpenItem ==
  /\ job.kind = "box" /\ stage = "made" /\ Ok(thing)
  /\ \E how \in {"no", "password", "format", "salt", "iter", "body"}, as \in {"privkey", "share"} :
       LET pwd == IF how = "password" THEN "other" ELSE "pwd"
           epki == Spoiled(thing.out, how)
       IN answer' = [how |-> how, as |-> as,
                     r |-> IF as = "privkey" THEN bpkiPrivkeyUnwrap(epki, pwd, Env(0))
                           ELSE bpkiShareUnwrap(epki, pwd, Env(0))]
  /\ stage' = "opened" /\ UNCHANGED <<job, thing>>

(* Requests: rewritten for another key and opened.                         *)
Request(d) ==
  LET key == bignPubkeyCalc(Curves.v1, d, Env(0)).out
      csr == [format |-> TRUE, subject |-> 3, pubkey |-> key, sig |-> [s0 |-> 0, s1 |-> 0]]
  IN [csr EXCEPT !.sig = bignSign2(Curves.v1, BodyHash(csr), d, <<>>, Env(0)).out]
CsrJobs == {[kind |-> "csr", csr |-> [Request(d) EXCEPT !.format = f]] : d \in {5, 20}, f \in BOOLEAN}
Rewrap ==
  /\ job.kind = "csr" /\ stage = "start"
  /\ \E d \in {0, 7, 33, 60, 61}, privlen \in {24, 32}, mem, rng, later \in BOOLEAN, k \in {2, 9} :
     \E r \in {bpkiCSRRewrap(job.csr, privlen, d, [Env(k) EXCEPT !.mem = mem, !.rng = rng, !.later = later])} :
       thing' = [d |-> d, r |-> r] /\ answer' = bpkiCSRUnwrap(r.out, Env(0))
  /\ stage' = "opened" /\ UNCHANGED job

-----------------------------------------------------------------------------
(* A tree of certificates: thing is the list of those issued so far.       *)
CertJobs == {[kind |-> "cert"]}
PrivkeyOf == [BYCA0000 |-> <<48, "a">>, BYCA1000 |-> <<32, "b">>]
HolderNames == DOMAIN PrivkeyOf
Spans == {<<1, 4>>, <<1, 2>>, <<3, 6>>, <<4, 2>>}
Wished(authority, holder, span, given, hat) ==
  [Blank EXCEPT !.authority = authority, !.holder = holder, !.from = span[1], !.until = span[2],
                !.hat_eid = hat,
                !.pubkey = IF given THEN btokPubkeyCalc(PrivkeyOf[holder]) ELSE @]
Issue ==
  /\ job.kind = "cert" /\ stage \in {"start", "issued"} /\ Len(thing) < 3
  /\ \E holder, authority \in HolderNames, span \in Spans, given \in BOOLEAN, hat \in {NoHat, "1"} :
     \E i \in 0 .. Len(thing) :
       LET cvc == Wished(authority, holder, span, given, hat)
           priv == PrivkeyOf[holder]
           root == btokCVCWrap(cvc, priv)
           r == IF i = 0 THEN [code |-> root.code, cert |-> root.cert]
                ELSE btokCVCIss(cvc, thing[i].cert, PrivkeyOf[thing[i].holder])
       IN /\ i = 0 => Len(thing) = 0 /\ holder = authority
          /\ i # 0 => hat = NoHat
          /\ r.code = "ERR_OK"
          /\ thing' = Append(thing, [cert |-> r.cert, holder |-> holder, by |-> i, span |-> span])
  /\ stage' = "issued" /\ UNCHANGED <<job, answer>>
SpoiledCert(cert, how) ==
  CASE how = "no" -> cert
    [] how = "trail" -> [cert EXCEPT !.trail = TRUE]
    [] how = "date" -> [cert EXCEPT !.body = [i \in 1 .. Len(@) |-> IF @[i][1] = "5F24" THEN <<"5F24", 6>> ELSE @[i]]]
    [] how = "field" -> [cert EXCEPT !.body = SubSeq(@, 1, Len(@) - 1)]
    [] how = "sig" -> [cert EXCEPT !.sig.by = <<48, "nobody">>]
Validate ==
  /\ job.kind = "cert" /\ stage = "issued"
  /\ \E i, j \in 1 .. Len(thing), date \in {<<>>, <<0>>, <<2>>, <<5>>},
        how \in {"no", "trail", "date", "field", "sig"} :
       /\ how # "no" => date = <<>>
       /\ LET cert == SpoiledCert(thing[i].cert, how)
          IN answer' = [i |-> i, j |-> j, date |-> date, how |-> how, same |-> cert = thing[i].cert,
                        code |-> btokCVCVal(cert, thing[j].cert, date),
                        match |-> btokCVCMatch(thing[i].cert, PrivkeyOf[thing[j].holder])]
  /\ stage' = "judged" /\ UNCHANGED <<job, thing>>

-----------------------------------------------------------------------------
Init ==
  /\ job \in SignJobs \cup KeyJobs \cup ParamJobs \cup SeedJobs \cup ChainJobs \cup StandardJobs
            \cup ShareJobs \cup BoxJobs \cup CsrJobs \cup CertJobs \cup {[kind |-> "blobs"]}
  /\ stage = "start" /\ answer = Nothing
  /\ thing = IF job.kind \in {"stb", "pfok"} THEN job.start ELSE <<>>
  /\ BlobInit
Work ==
  \/ Forge \/ MakeSignature \/ Generate \/ Exchange \/ Transport \/ GenParams \/ Adjust
  \/ ChainStep \/ ChainEnd \/ PfokAgree \/ Change \/ Point \/ Deal \/ DealAlone \/ Collect \/ MakeKeys
  \/ WrapItem \/ WrapByHand \/ OpenItem \/ Rewrap \/ Issue \/ Validate
Use == job.kind = "blobs" /\ BlobNext /\ UNCHANGED schemeVars
Next == (Work /\ UNCHANGED blobVars) \/ Use
Spec == Init /\ [][Next]_vars

Accepted(r) == r = "ERR_OK"
(* A container opens with its password, as what it is, when nothing in it  *)
(* was changed and its contents are of a length and a number there are;    *)
(* then it gives what was put in.  A request that was rewritten opens with *)
(* the new key.                                                            *)
ItemValid(i) ==
  IF i.is = "privkey" THEN i.len \in PrivkeyLens ELSE i.len \in ShareLens /\ i.num \in ShareNums
ContainersOpen ==
  /\ stage = "made" /\ job.kind = "box" /\ Ok(thing) => ItemValid(job.item) \/ thing.out.iter = 1
  /\ stage = "opened" /\ job.kind = "box" =>
       /\ Ok(answer.r) <=> answer.how = "no" /\ answer.as = job.item.is /\ ItemValid(job.item)
       /\ Ok(answer.r) => answer.r.out = [len |-> job.item.len, num |-> job.item.num, value |-> "key"]
  /\ stage = "opened" /\ job.kind = "csr" =>
       /\ Ok(thing.r) => Ok(answer) /\ answer.out = MulA(Base(Curves.v1), thing.d, Curves.v1)
       /\ thing.r.out = job.csr /\ job.csr.format => Ok(answer)
       /\ ~job.csr.format => answer.code = "ERR_BAD_FORMAT"

(* The two sides of an exchange come to the same key, of the same length;  *)
(* a key sent to somebody is had by its owner and by nobody else, and not  *)
(* when the token was touched.  Neither is a key had from a container that *)
(* was.                                                                    *)
SameResult(pair) == pair[1] = pair[2] /\ Ok(pair[1])
KeyGood(key, c) ==
  /\ Ok(bignPubkeyVal(c, key.Q, Env(0))) /\ bignPubkeyCalc(c, key.d, Env(0)).out = key.Q
  /\ Crandall(c.p) => Ok(bignKeypairVal(c, key.d, key.Q, Env(0)))
OwnersPoint(c, sent) ==
  sent.spoil = "owner" => thing[1].d \in {thing[2].d, c.q - thing[2].d}
KeysAgree ==
  /\ ContainersOpen
  /\ stage = "agreed" /\ job.kind = "keys" =>
       SameResult(answer) /\ \A i \in 1 .. 2 : KeyGood(thing[i], job.c)
  /\ stage = "agreed" /\ job.kind = "pfok" => \A i \in 1 .. 2 : SameResult(answer[i])
  /\ stage = "sent" =>
       IF answer.spoil \in {"no", "owner"} /\ OwnersPoint(job.c, answer)
       THEN Ok(answer.r) /\ answer.r.out = "key"
       ELSE ~Ok(answer.r) /\ answer.r.out = Nothing

(* A certificate is valid to the certificate of its issuer, with dates     *)
(* that lie inside, on the days it covers, as long as nobody touched it;   *)
(* to any other certificate it is not.                                     *)
Covers(span, day) == span[1] <= day /\ day <= span[2]
Vouches(a, c) ==
  /\ Covers(thing[a].span, thing[c].span[1])
  /\ \/ thing[c].by = a
     \/ thing[c].by # 0 /\ thing[thing[c].by].holder = thing[a].holder
     \/ thing[c].by = 0 /\ thing[c].holder = thing[a].holder
CertificatesRight ==
  stage = "judged" /\ job.kind = "cert" =>
    /\ Accepted(answer.code) <=>
         /\ answer.same /\ Vouches(answer.j, answer.i)
         /\ answer.date # <<>> => Covers(thing[answer.i].span, answer.date[1])
    /\ Accepted(answer.match) <=> thing[answer.i].holder = thing[answer.j].holder
    /\ thing[answer.i].by = answer.j => Vouches(answer.j, answer.i)

HashBelowOrder(j) == j.kind \in {"bign", "bign96", "ibs"} => j.hash < j.c.q
ZeroG12s == job.kind = "g12s" /\ thing.s = 0

(* Whatever is given to the functions that verify, they accept exactly     *)
(* what the algorithm can make of the key with some nonce; hashes and      *)
(* halves of signatures beyond the order of the group are among what is    *)
(* given.  What the functions that sign give is accepted when it is one of *)
(* these, and it is one whenever the hash lies below the order: beyond it  *)
(* zzSubMod() of bign_sign.c:131 is outside its precondition, and          *)
(* SignedAccepted is violated.  Certificates are signatures of issuers.    *)
SignaturesRight ==
  /\ CertificatesRight
  /\ stage \in {"judged", "signed"} /\ "all" \in DOMAIN job => (Accepted(answer) <=> thing \in job.all)
  /\ stage = "signed" /\ HashBelowOrder(job) => Accepted(answer) \/ ZeroG12s

(* "ERR_OK, если подпись выработана" (bign.h:338): what a function that    *)
(* signs gives with ERR_OK is a signature, so the function that verifies   *)
(* accepts it with the public key of the signer.                           *)
SignedAccepted == stage = "signed" => Accepted(answer) \/ ZeroG12s

(* Parameters that were made, of any seed and along any chain of primes,   *)
(* are accepted.  A seed that was completed is valid and keeps every part  *)
(* that was not zeros, and one that was valid is given back as it was.     *)
(* Parameters that are accepted have a group of prime order                *)
(* whose size is the one they say (n of dstu is too small here to tell the *)
(* cofactor).  Points come back when recovered, but for one whose octets   *)
(* are zeros when it is compressed.                                        *)
SeedGood ==
  /\ Accepted(answer.code) => Ok(thing) /\ thing.out = answer.given
  /\ Ok(thing) =>
       /\ Accepted(SeedVal(job, thing.out))
       /\ \A part \in DOMAIN answer.given \ {"l"} :
            IsZero(answer.given[part]) \/ thing.out[part] = answer.given[part]
OrderGood(of, c) ==
  CASE of \in {"bign", "bign96"} -> IsPrime(c.q) /\ CountPoints(c) = c.q
    [] of = "g12s" -> IsPrime(c.q) /\ CountPoints(c) = c.q * c.n
    [] of = "dstu" ->
         IsPrime(c.n) /\ (1 + Cardinality({P \in (0 .. Elements - 1) \X (0 .. Elements - 1) : OnCurve2(P, c)})) % c.n = 0
ParametersGood ==
  /\ stage = "made" /\ job.kind = "params" /\ Ok(thing) => Ok(bignParamsVal(thing.out, Env(0)))
  /\ stage = "made" /\ job.kind \in {"stbseed", "pfokseed"} => SeedGood
  /\ stage = "made" /\ job.kind = "stb" => Accepted(stb99ParamsVal(thing, StbSmall, Env(0)))
  /\ stage = "made" /\ job.kind = "pfok" => Accepted(pfokParamsVal(thing, PfokSmall, Env(0)))
  /\ stage = "judged" /\ job.kind = "standard" =>
       (answer.code = "ERR_OK" => OrderGood(job.of, thing)) /\ (thing = job.c => job.of = "dstu" \/ answer.code = "ERR_OK")
  /\ stage = "recovered" =>
       Accepted(answer.val) /\ Ok(answer.back) /\ (answer.small # 0 => answer.back.out = thing)

(* Any owners of at least as many shares as are needed get the secret, in  *)
(* any order; what a single one has, when two are needed, is as well a     *)
(* share of any other secret.                                              *)
Possible(secret, i) ==
  \E k \in Masks(job.len, job.threshold) :
    Share(secret, k, M0(job), job.keys[i], job.len) = IF job.how = "std" THEN thing[i].y ELSE thing[i]
SecretShared ==
  /\ stage = "collected" /\ Len(answer.who) >= job.threshold =>
       Ok(answer.r) /\ answer.r.out = job.secret
  /\ stage = "collected" /\ Len(answer.who) < job.threshold =>
       \A s \in SUBSET (0 .. Bits[job.len] - 1) : Possible(s, answer.who[1])
  /\ stage = "keyed" => \A i \in 1 .. 2 : Accepted(answer[i])
=============================================================================
