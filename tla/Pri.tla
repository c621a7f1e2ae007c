-------------------------------- MODULE Pri ---------------------------------
(***************************************************************************)
(* Prime numbers, src/src/math/pri.c, over the values of the numbers.  The *)
(* factor base starts as it does in the source, with the products of its   *)
(* first primes from the table of 16-bit words.                            *)
(***************************************************************************)
EXTENDS Ec, ZZMod

Base == <<3, 5, 7, 11, 13, 17, 19, 23, 29, 31>>
Prods == <<[prod |-> 15015, num |-> 5], [prod |-> 7429, num |-> 3]>>

(* The residues of a by the first primes of the base: a is divided by the  *)
(* products of several primes first, then what remains by each of them.    *)
priBaseMod(a, count) ==
  LET Group(mods, j) ==
        LET take == MinOf(Prods[j + 1].num, count - Len(mods))
            t == a % Prods[j + 1].prod
        IN Iter(LAMBDA m, i : Append(m, t % Base[Len(m) + 1]), mods, take)
      grouped == Iter(Group, <<>>, Len(Prods))
  IN Iter(LAMBDA m, i : Append(m, a % Base[Len(m) + 1]), grouped, count - Len(grouped))
Sieved(mods) == \A i \in DOMAIN mods : mods[i] # 0

priIsSieved(a, count) ==
  LET below == Cardinality({i \in 1 .. count : Base[i] <= a})
  IN a % 2 = 1 /\ Sieved(priBaseMod(a, IF a < W THEN below ELSE count))

priIsSmooth(a, count) ==
  LET Step(s) == IF s.t % Base[s.i] = 0 THEN [s EXCEPT !.t = @ \div Base[s.i]]
                 ELSE [s EXCEPT !.i = @ + 1]
  IN While(LAMBDA s : s.t # 1 /\ s.i <= count, Step, [t |-> OddPart(a), i |-> 1],
           count + BitLen(a)).t = 1

(* Does the base pass the test of Rabin and Miller for a, a - 1 = r 2^s:   *)
(* its power r is 1, or is -1 after less than s squarings?                 *)
Passes(base, a) ==
  LET start == zzPowerModW(base, OddPart(a - 1), a)
  IN start = 1 \/ \E i \in 0 .. LoZeros(a - 1) - 1 : ModPow(start, 2 ^ i, a) = a - 1

priIsPrimeW(a) ==
  IF a <= 3 \/ a % 2 = 0 THEN a \in {2, 3}
  ELSE \A base \in (IF a < 1373653 THEN {2, 3} ELSE {2, 7, 61}) : Passes(base, a)

(* draws are the random bases, not 0.  1 and a - 1 are drawn anew; too     *)
(* many of them in a row are taken for a fault of the generator.           *)
priRMTest(a, iter, draws) ==
  LET Useless(i) == i <= Len(draws) /\ draws[i] \in {1, a - 1}
      Skip(s) == [s EXCEPT !.pos = @ + 1, !.tries = @ + 1]
      Try(s, k) ==
        LET at == While(LAMBDA t : Useless(t.pos) /\ (t.tries + 1) * 45 <= 10 * Impossible,
                        Skip, [s EXCEPT !.tries = 0], Len(draws))
        IN IF ~s.ok \/ at.pos > Len(draws) \/ Useless(at.pos) THEN [at EXCEPT !.ok = FALSE]
           ELSE [at EXCEPT !.ok = Passes(draws[at.pos], a), !.pos = @ + 1]
  IN CASE a % 2 = 0 -> a = 2
       [] a % 2 = 1 /\ a < 49 -> a # 1 /\ (a = 3 \/ a % 3 # 0) /\ (a = 5 \/ a % 5 # 0)
       [] OTHER -> Iter(Try, [ok |-> TRUE, pos |-> 1, tries |-> 0], iter).ok
priIsPrime(a, draws) == priRMTest(a, (Impossible + 1) \div 2, draws)

priIsSGPrime(q) == zzPowerMod(4 % (2 * q + 1), q, WordLen(q), 2 * q + 1) = 1

NoPrime == 0
OddFrom(a) == a + 1 - (a % 2)
priNextPrimeW(a) ==
  LET limit == MinOf(2 ^ BitLen(a), W)
      p == While(LAMBDA q : q < limit /\ ~priIsPrimeW(q), LAMBDA q : q + 2, OddFrom(a), W)
  IN IF BitLen(a) <= 1 \/ p >= limit THEN NoPrime ELSE p

(* The residues follow the candidate, which grows by 2; the test of Rabin  *)
(* and Miller is taken as exact.                                           *)
priNextPrime(a, n, trials, count) ==
  LET below == Cardinality({i \in 1 .. count : Base[i] < OddFrom(a)})
      used == IF n = 1 THEN below ELSE count
      limit == 2 ^ BitLen(a)
      Up(m, b) == CASE m < b - 2 -> m + 2 [] m = b - 1 -> 1 [] OTHER -> 0
      Step(s) == [p |-> s.p + 2, left |-> s.left - 1,
                  mods |-> [i \in 1 .. used |-> Up(s.mods[i], Base[i])]]
      end == While(LAMBDA s : s.left > 0 /\ s.p < limit /\ ~(Sieved(s.mods) /\ IsPrime(s.p)), Step,
                   [p |-> OddFrom(a), left |-> trials, mods |-> priBaseMod(OddFrom(a), used)],
                   trials)
  IN IF BitLen(a) <= 1 \/ end.left = 0 \/ end.p >= limit THEN NoPrime ELSE end.p

(* The theorem of Demytko for p = 2 q a r + 1.                             *)
Demytko(p, r, q, a) ==
  LET t == ModPow(ModPow(4 % p, r, p), a, p) IN t # 1 /\ ModPow(t, q, p) = 1

(* A prime p = 2 q a r + 1 of l bits: r is drawn, then grows while p fits. *)
priExtendPrime2(l, q, a, trials, count, draws) ==
  LET used == IF l < B THEN Cardinality({i \in 1 .. count : Base[i] <= 2 ^ (l - 1)}) ELSE count
      qa == q * a
      step == [i \in 1 .. used |-> (2 * priBaseMod(qa, used)[i]) % Base[i]]
      Draw(s) ==                        \* r so that p has its l bits
        LET t == (draws[s.d] % 2 ^ (l - 2)) + 2 ^ (l - 2)
            r == (t + qa - 1) \div qa
            p == 2 * qa * r + 1
        IN [s EXCEPT !.d = @ + 1, !.left = @ - 1, !.r = r, !.p = p, !.inside = qa * r < 2 ^ (l - 1),
                     !.mods = priBaseMod(p, used)]
      Grow(s) ==
        CASE s.p + 2 * qa >= 2 ^ l -> [s EXCEPT !.inside = FALSE]
          [] s.p + 2 * qa < 2 ^ l /\ s.left = 0 -> [s EXCEPT !.over = TRUE]
          [] OTHER -> [s EXCEPT !.p = @ + 2 * qa, !.r = @ + 1, !.left = @ - 1,
                                !.mods = [i \in 1 .. used |-> (@[i] + step[i]) % Base[i]]]
      Found(s) == s.inside /\ Sieved(s.mods) /\ Demytko(s.p, s.r, q, a)
      Going(s) == ~Found(s) /\ ~s.over /\ (s.inside \/ (s.left > 0 /\ s.d <= Len(draws)))
      end == While(Going, LAMBDA s : IF s.inside THEN Grow(s) ELSE Draw(s),
                   [p |-> 0, r |-> 0, d |-> 1, left |-> trials, inside |-> FALSE,
                    over |-> FALSE, mods |-> <<>>], 2 * trials + 1)
  IN IF Found(end) THEN end.p ELSE NoPrime
priExtendPrime(l, q, trials, count, draws) == priExtendPrime2(l, q, 1, trials, count, draws)
=============================================================================
