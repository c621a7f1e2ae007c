--------------------------------- MODULE ZZ ---------------------------------
(***************************************************************************)
(* Strings of machine words, src/src/math/ww.c.  Many functions there have *)
(* two editions: a regular one (SAFE), whose time does not depend on the   *)
(* data, and a fast one (FAST).                                            *)
(***************************************************************************)
EXTENDS Words

CONSTANT
  OB             \* bits of an octet

OPerW == B \div OB

wwSwap(a, b) == <<[i \in DOMAIN a |-> b[i]], [i \in DOMAIN b |-> a[i]]>>

wwIsZero_safe(a) == Iter(LAMBDA d, i : Or(d, a[i]), 0, N(a)) = 0
wwIsZero_fast(a) == \A i \in DOMAIN a : a[i] = 0

wwEq_safe(a, b) == Iter(LAMBDA d, i : Or(d, Xor(a[i], b[i])), 0, N(a)) = 0
wwEq_fast(a, b) == \A i \in DOMAIN a : a[i] = b[i]

(* The words are compared from the highest one down: less and greater      *)
(* close each other.                                                       *)
wwCmp_safe(a, b) ==
  LET n == N(a)
      Step(s, i) ==
        LET less == s[1] \/ (~s[2] /\ a[n - 1 - i] < b[n - 1 - i])
        IN <<less, s[2] \/ (~less /\ a[n - 1 - i] > b[n - 1 - i])>>
      s == Iter(Step, <<FALSE, FALSE>>, n)
  IN IF s[1] THEN -1 ELSE IF s[2] THEN 1 ELSE 0

wwCmp_fast(a, b) ==
  LET diff == {i \in DOMAIN a : a[i] # b[i]}
      top == CHOOSE i \in diff : \A j \in diff : j <= i
  IN IF diff = {} THEN 0 ELSE IF a[top] > b[top] THEN 1 ELSE -1

wwCmp2(a, b, Cmp(_, _), IsZero(_)) ==
  LET n == N(a)  m == N(b) IN
    CASE n > m -> IF IsZero(Part(a, m, n - m)) THEN Cmp(Part(a, 0, m), b) ELSE 1
      [] n < m -> IF IsZero(Part(b, n, m - n)) THEN Cmp(a, Part(b, 0, n)) ELSE -1
      [] OTHER -> Cmp(a, b)
wwCmp2_safe(a, b) == wwCmp2(a, b, wwCmp_safe, wwIsZero_safe)
wwCmp2_fast(a, b) == wwCmp2(a, b, wwCmp_fast, wwIsZero_fast)

wwCmpW_safe(a, w) ==
  IF N(a) = 0 THEN IF w = 0 THEN 0 ELSE -1
  ELSE IF wwIsZero_safe(Part(a, 1, N(a) - 1)) THEN Sign(a[0] - w) ELSE 1
wwCmpW_fast(a, w) ==
  CASE N(a) = 0 -> IF w # 0 THEN -1 ELSE 0
    [] \E i \in DOMAIN a \ {0} : a[i] # 0 -> 1
    [] OTHER -> Sign(a[0] - w)

wwXor(a, b) == Eager([i \in DOMAIN a |-> Xor(a[i], b[i])])
wwXor2(b, a) == [i \in DOMAIN b |-> Xor(b[i], a[i])]
wwSetZero(n) == [i \in 0 .. n - 1 |-> 0]
wwSetW(n, w) == [i \in 0 .. n - 1 |-> IF i = 0 THEN w ELSE 0]
wwRepW(n, w) == [i \in 0 .. n - 1 |-> w]

wwIsW_safe(a, w) ==
  IF N(a) = 0 THEN w = 0 ELSE a[0] = w /\ \A i \in DOMAIN a \ {0} : a[i] = 0
wwIsW_fast(a, w) == IF N(a) = 0 THEN w = 0 ELSE a = wwSetW(N(a), w)
wwIsRepW_safe(a, w) == IF N(a) = 0 THEN w = 0 ELSE \A i \in DOMAIN a : a[i] = w
wwIsRepW_fast(a, w) == IF N(a) = 0 THEN w = 0 ELSE a = wwRepW(N(a), w)

(* The number of the highest word that is not zero, -1 when there is none. *)
TopWord(a) ==
  LET used == {i \in DOMAIN a : a[i] # 0}
  IN IF used = {} THEN -1 ELSE CHOOSE i \in used : \A j \in used : j <= i

wwWordSize(a) == TopWord(a) + 1

wwOctetSize(a) ==
  LET n == TopWord(a)
      pos == CHOOSE p \in 0 .. OPerW - 1 :
               /\ Shr(a[n], OB * p) % 2 ^ OB # 0
               /\ \A q \in p + 1 .. OPerW - 1 : Shr(a[n], OB * q) % 2 ^ OB = 0
  IN IF n = -1 THEN 0 ELSE n * OPerW + pos + 1

wwTestBit(a, pos) == Bit(a[pos \div B], pos % B) = 1

wwGetBits(a, pos, width) ==
  LET n == pos \div B
      p == pos % B
      lo == Shr(a[n], p)
      ret == IF p + width > B THEN Or(lo, Shl(a[n + 1], B - p)) ELSE lo
  IN IF width < B THEN And(ret, 2 ^ width - 1) ELSE ret

wwSetBit(a, pos, val) ==
  LET f == IF val THEN W - 1 ELSE 0
      w == a[pos \div B]
  IN [a EXCEPT ![pos \div B] = Xor(w, And(Xor(f, w), 2 ^ (pos % B)))]

(* The word above is masked as the code has it: with the mask of the low   *)
(* word, whatever of it does not lie there.                                *)
wwSetBits(a, pos, width, val) ==
  LET mask == IF width < B THEN Shr(Shl(W - 1, B - width), B - width) ELSE W - 1
      n == pos \div B
      p == pos % B
      v == And(val, mask)
      lo == [a EXCEPT ![n] = Xor(And(@, Not(Shl(mask, p))), Shl(v, p))]
  IN IF p + width > B
     THEN [lo EXCEPT ![n + 1] = Xor(And(@, Shl(mask, p)), Shr(v, B - p))]
     ELSE lo

wwFlipBit(a, pos) == [a EXCEPT ![pos \div B] = Xor(@, 2 ^ (pos % B))]

wordCTZ(w) == CHOOSE k \in 0 .. B - 1 : w % 2 ^ k = 0 /\ Bit(w, k) = 1
wordCLZ(w) == CHOOSE k \in 0 .. B - 1 : Shr(w, B - 1 - k) = 1

wwLoZeroBits(a) ==
  LET used == {i \in DOMAIN a : a[i] # 0}
      i == CHOOSE k \in used : \A j \in used : k <= j
  IN IF used = {} THEN N(a) * B ELSE i * B + wordCTZ(a[i])

wwHiZeroBits(a) ==
  LET i == TopWord(a)
  IN IF i = -1 THEN N(a) * B ELSE (N(a) - i - 1) * B + wordCLZ(a[i])

wwBitSize(a) == N(a) * B - wwHiZeroBits(a)

(* Shifts.  A word past the ends of the number counts as zero; with a      *)
(* carry, the carry stands next to the number.                             *)
wwShLo(a, shift) ==
  LET ws == shift \div B
      s == shift % B
      At(i) == IF i < N(a) THEN a[i] ELSE 0
  IN Eager([p \in DOMAIN a |->
        Or(Shr(At(p + ws), s), IF s = 0 THEN 0 ELSE Shl(At(p + ws + 1), B - s))])

wwShLoCarry(a, shift, carry) ==
  LET n == N(a)
      ws == shift \div B
      s == shift % B
      At(i) == IF i < n THEN a[i] ELSE IF i = n THEN carry ELSE 0
      Pair(i) == Or(IF i < 0 THEN 0 ELSE Shr(At(i), s),
                    IF s = 0 THEN 0 ELSE Shl(At(i + 1), B - s))
      over == shift - B * (n + 1)
  IN IF over < 0
     THEN [a |-> [p \in 0 .. n - 1 |-> Pair(p + ws)], carry |-> Pair(ws - 1)]
     ELSE [a |-> wwSetZero(n), carry |-> IF over < B THEN Shr(carry, over) ELSE 0]

wwShHi(a, shift) ==
  LET ws == shift \div B
      s == shift % B
      At(i) == IF i >= 0 THEN a[i] ELSE 0
  IN Eager([p \in DOMAIN a |->
        Or(Shl(At(p - ws), s), IF s = 0 THEN 0 ELSE Shr(At(p - ws - 1), B - s))])

wwShHiCarry(a, shift, carry) ==
  LET n == N(a)
      ws == shift \div B
      s == shift % B
      At(i) == IF i >= 0 THEN a[i] ELSE IF i = -1 THEN carry ELSE 0
      Pair(i) == Or(IF i >= n THEN 0 ELSE Shl(At(i), s),
                    IF s = 0 THEN 0 ELSE Shr(At(i - 1), B - s))
      over == shift - B * (n + 1)
  IN IF over < 0
     THEN [a |-> [p \in 0 .. n - 1 |-> Pair(p - ws)], carry |-> Pair(n - ws)]
     ELSE [a |-> wwSetZero(n), carry |-> IF over < B THEN Shl(carry, over) ELSE 0]

wwTrimLo(a, pos) ==
  LET i == pos \div B
  IN [j \in DOMAIN a |-> CASE j < i -> 0
                           [] j = i -> Shl(Shr(a[j], pos % B), pos % B)
                           [] OTHER -> a[j]]

wwTrimHi(a, pos) ==
  LET i == pos \div B
      p == B - (pos % B)
  IN [j \in DOMAIN a |-> CASE j > i -> 0
                           [] j = i -> IF p = B THEN 0 ELSE Shr(Shl(a[j], p), p)
                           [] OTHER -> a[j]]

(* The nonadjacent form: w bits of a in a window that moves up; an odd     *)
(* window becomes a digit, which is stored in w bits, a zero in one bit.   *)
(* The form grows at its low end.                                          *)
wwNAF(a, w) ==
  LET next == 2 ^ w
      hi == next \div 2
      mask == hi - 1
      len == wwBitSize(a)
      Step(s) ==
        LET odd == s.window % 2 = 1
            neg == And(s.window, hi) # 0
            ends == s.i >= len
            digit == CASE ~neg -> s.window
                       [] neg /\ ends -> And(s.window, mask)
                       [] OTHER -> Xor(And((W - s.window) % W, mask), hi)
            rest == CASE ~odd -> s.window
                      [] ~neg -> 0
                      [] neg /\ ends -> hi
                      [] OTHER -> next
            k == s.len + IF odd THEN w ELSE 1
            shifted == Join(wwShHi(Part(s.naf, 0, (k + B - 1) \div B),
                                   IF odd THEN w ELSE 1),
                            Part(s.naf, (k + B - 1) \div B,
                                 N(s.naf) - (k + B - 1) \div B))
        IN [naf |-> IF odd THEN wwSetBits(shifted, 0, w, digit) ELSE shifted,
            len |-> k,
            size |-> s.size + 1,
            i |-> s.i + 1,
            window |-> (Shr(rest, 1) +
                        IF ~ends /\ wwTestBit(a, s.i) THEN hi ELSE 0) % W]
  IN IF wwIsZero_fast(a)
     THEN [naf |-> wwSetZero(2 * N(a) + 1), size |-> 0, len |-> 0]
     ELSE While(LAMBDA s : s.window # 0 \/ s.i < len, Step,
                [naf |-> wwSetZero(2 * N(a) + 1), len |-> 0, size |-> 0,
                 i |-> w, window |-> wwGetBits(a, 0, w)],
                N(a) * B + 2)

-----------------------------------------------------------------------------
(***************************************************************************)
(* Integers, src/src/math/zz: addition, multiplication and division, and   *)
(* residues.  The regular editions work with carries and masks only; the   *)
(* fast ones (_fast) branch.  Both are here, word by word.                 *)
(***************************************************************************)
WMax == W - 1
B01(cond) == IF cond THEN 1 ELSE 0
Plus(x, y) == (x + y) % W
Minus(x, y) == (x - y + W) % W

(* A pass over the words 0 .. n - 1 with a carry: Step(i, carry) is the    *)
(* word and the next carry.                                                *)
Ripple(Step(_, _), n, carry) ==
  Iter(LAMBDA s, i : LET d == Step(i, s.carry)
                     IN [c |-> Join(s.c, [j \in {0} |-> d[1]]), carry |-> d[2]],
       [c |-> [i \in {} |-> 0], carry |-> carry], n)

(* zz_add.c *)
zzAdd(a, b) ==
  Ripple(LAMBDA i, carry : LET w == Plus(a[i], carry)
                               c == Plus(w, b[i])
                           IN <<c, Or(B01(w < carry), B01(c < w))>>, N(a), 0)

zzAdd_fast(a, b) ==
  Ripple(LAMBDA i, carry : LET w == Plus(a[i], carry)
                               c == Plus(w, b[i])
                           IN IF w < carry THEN <<b[i], carry>>
                              ELSE <<c, B01(c < b[i])>>, N(a), 0)

zzAdd2(b, a) ==
  Ripple(LAMBDA i, carry : LET w == Plus(a[i], carry)
                               c == Plus(b[i], w)
                           IN <<c, Or(B01(w < carry), B01(c < w))>>, N(a), 0)

zzAdd2_fast(b, a) ==
  Ripple(LAMBDA i, carry : LET w == Plus(a[i], carry)
                               c == Plus(w, b[i])
                           IN IF w >= carry THEN <<c, B01(c < b[i])>>
                              ELSE <<b[i], carry>>, N(a), 0)

zzAddW(a, w) ==
  Ripple(LAMBDA i, k : <<Plus(a[i], k), B01(Plus(a[i], k) < k)>>, N(a), w)
zzAddW2(a, w) == zzAddW(a, w)
zzAddW2_fast(a, w) ==
  Ripple(LAMBDA i, k : IF k = 0 THEN <<a[i], 0>>
                       ELSE <<Plus(a[i], k), B01(Plus(a[i], k) < k)>>, N(a), w)

zzAdd3(a, b) ==
  LET n == N(a)  m == N(b)  k == MinOf(n, m)
      lo == zzAdd(Part(a, 0, k), Part(b, 0, k))
      hi == zzAddW2(IF n > m THEN Part(a, k, n - k) ELSE Part(b, k, m - k), lo.carry)
  IN [c |-> Join(lo.c, hi.c), carry |-> hi.carry]

zzIsSumEq_safe(c, a, b) ==
  LET Step(s, i) ==
        LET w == Plus(a[i], s.carry)
        IN [diff |-> Or(s.diff, Xor(c[i], Plus(w, b[i]))),
            carry |-> Or(B01(w < s.carry), B01(c[i] < w))]
      s == Iter(Step, [diff |-> 0, carry |-> 0], N(a))
  IN Or(s.diff, s.carry) = 0

zzIsSumEq_fast(c, a, b) ==
  LET Step(s, i) ==
        LET w == Plus(a[i], s.carry)
        IN IF w < s.carry
           THEN [s EXCEPT !.eq = @ /\ c[i] = b[i]]
           ELSE [eq |-> s.eq /\ c[i] = Plus(w, b[i]), carry |-> B01(c[i] < w)]
      s == Iter(Step, [eq |-> TRUE, carry |-> 0], N(a))
  IN s.eq /\ s.carry = 0

zzIsSumWEq_safe(b, a, w) ==
  LET s == Iter(LAMBDA t, i : [diff |-> Or(t.diff, Xor(b[i], Plus(a[i], t.w))),
                               w |-> B01(b[i] < a[i])],
                [diff |-> 0, w |-> w], N(a))
  IN Or(s.diff, s.w) = 0

zzIsSumWEq_fast(b, a, w) ==
  LET s == Iter(LAMBDA t, i : [eq |-> t.eq /\ b[i] = Plus(a[i], t.w),
                               w |-> B01(b[i] < a[i])],
                [eq |-> TRUE, w |-> w], N(a))
  IN s.eq /\ s.w = 0

zzSub(a, b) ==
  Ripple(LAMBDA i, k : LET w == Plus(b[i], k)
                       IN <<Minus(a[i], w), Or(B01(w < k), B01(a[i] < w))>>, N(a), 0)

zzSub_fast(a, b) ==
  Ripple(LAMBDA i, k : LET w == Minus(a[i], k)
                           c == Minus(w, b[i])
                       IN IF w > Not(k) THEN <<Not(b[i]), k>>
                          ELSE <<c, B01(c > Not(b[i]))>>, N(a), 0)

zzSub2(b, a) == zzSub(b, a)
zzSub2_fast(b, a) ==
  Ripple(LAMBDA i, k : LET w == Minus(b[i], k)
                           c == Minus(w, a[i])
                       IN IF w > Not(k) THEN <<Not(a[i]), k>>
                          ELSE <<c, B01(c > Not(a[i]))>>, N(a), 0)

zzSubW(a, w) ==
  Ripple(LAMBDA i, k : <<Minus(a[i], k), B01(Minus(a[i], k) > Not(k))>>, N(a), w)
zzSubW2(a, w) == zzSubW(a, w)
zzSubW2_fast(a, w) ==
  Ripple(LAMBDA i, k : IF k = 0 THEN <<a[i], 0>>
                       ELSE <<Minus(a[i], k), B01(Minus(a[i], k) > Not(k))>>, N(a), w)

zzNeg(a) == zzAddW2([i \in DOMAIN a |-> Not(a[i])], 1).c

(* zz_etc.c *)
zzIsEven(a) == N(a) = 0 \/ a[0] % 2 = 0
zzIsOdd(a) == N(a) > 0 /\ a[0] % 2 = 1

zzAddAndW(b, a, w) ==
  Ripple(LAMBDA i, k : LET p == Plus(And(w, a[i]), k)
                           c == Plus(b[i], p)
                       IN <<c, Or(B01(p < k), B01(c < p))>>, N(a), 0).c

zzSubAndW(b, a, w) ==
  Ripple(LAMBDA i, k : LET p == Plus(And(w, a[i]), k)
                       IN <<Minus(b[i], p), Or(B01(p < k), B01(b[i] < p))>>, N(a), 0)

(* zz_mul.c *)
zzMulW(a, w) ==
  Ripple(LAMBDA i, k : LET p == w * a[i] + k IN <<p % W, p \div W>>, N(a), 0)
zzAddMulW(b, a, w) ==
  Ripple(LAMBDA i, k : LET p == w * a[i] + k + b[i] IN <<p % W, p \div W>>, N(a), 0)
zzSubMulW(b, a, w) ==
  Ripple(LAMBDA i, k : LET p == (W * W - w * a[i] + b[i] - k) % (W * W)
                       IN <<p % W, Minus(0, p \div W)>>, N(a), 0)

(* b becomes c in the places lo, lo + 1, ... *)
Put(a, lo, c) ==
  Eager([i \in DOMAIN a |-> IF i >= lo /\ i < lo + N(c) THEN c[i - lo] ELSE a[i]])
AddAt(c, lo, r) == [Put(c, lo, r.c) EXCEPT ![lo + N(r.c)] = r.carry]

zzMul(a, b) ==
  LET m == N(b)
  IN Iter(LAMBDA c, i : AddAt(c, i, zzAddMulW(Part(c, i, m), b, a[i])),
          wwSetZero(N(a) + m), N(a))

(* The products of different words, doubled by a shift, and the squares.   *)
zzSqr(a) ==
  LET n == N(a)
      Row(c, i) ==
        AddAt(c, 2 * i + 1, zzAddMulW(Part(c, 2 * i + 1, n - 1 - i),
                                      Part(a, i + 1, n - 1 - i), a[i]))
      mixed == Iter(Row, wwSetZero(n + n), n)
      twice == Ripple(LAMBDA i, k : <<Or(Shl(mixed[i], 1), k), Shr(mixed[i], B - 1)>>,
                      n + n, 0)
      Square(s, i) ==
        LET lo == a[i] * a[i] + s.carry + s.c[2 * i]
            hi == lo \div W + s.c[2 * i + 1]
        IN [c |-> [s.c EXCEPT ![2 * i] = lo % W, ![2 * i + 1] = hi % W],
            carry |-> hi \div W]
  IN Iter(Square, twice, n).c

zzDivW(a, w) ==
  LET n == N(a)
      Step(s, k) == LET i == n - 1 - k
                        d == s.r * W + a[i]
                    IN [q |-> [s.q EXCEPT ![i] = (d \div w) % W], r |-> d % w]
  IN Iter(Step, [q |-> a, r |-> 0], n)

zzModW(a, w) == Iter(LAMBDA r, k : (r * W + a[N(a) - 1 - k]) % w, 0, N(a))

(* With b = W mod w the residue is kept in a word and a half.              *)
zzModW2(a, w) ==
  LET b == (WMax - w + 1) % w
      Lap(s, x) == LET t == (s.r1 * b + x) % (W * W)
                   IN [r0 |-> t % W, r1 |-> t \div W]
      Step(s, k) == Lap([s EXCEPT !.r1 = (s.r1 * b + s.r0) % (W * W)], a[N(a) - 1 - k])
      s == Iter(Step, [r0 |-> 0, r1 |-> 0], N(a))
      t == Lap(s, s.r0 % w)
  IN ((t.r1 * b + (t.r0 % w)) % W) % w

zzModW2_fast(a, w) ==
  LET b == (WMax - w + 1) % w
      Lap(s, x) == LET t == (s.r1 * b + x) % (W * W)
                   IN [r0 |-> t % W, r1 |-> t \div W]
      Step(s, k) == Lap([s EXCEPT !.r1 = (s.r1 * b + s.r0) % (W * W)], a[N(a) - 1 - k])
      s == Iter(Step, [r0 |-> 0, r1 |-> 0], N(a))
      t == While(LAMBDA u : u.r1 # 0, LAMBDA u : Lap(u, u.r0 % w), s, W)
  IN t.r0 % w

(* A step of the division of Knuth: the trial digit of two words over one  *)
(* is lowered by the two top words of the divisor, and by one more when    *)
(* the subtraction borrows.                                                *)
DivStep(s, divisor, i) ==
  LET m == N(divisor)
      hi == (s.d[i] * W + s.d[i - 1]) \div divisor[m - 1]
      top == Part(divisor, m - 2, 2)
      p == zzMulW(top, MinOf(hi, WMax))
      Low(t) == LET r == zzSub2(Part(t.mul, 0, 2), top)
                IN [q |-> t.q - 1,
                    mul |-> Join(r.c, [j \in {0} |-> Minus(t.mul[2], r.carry)])]
      t == While(LAMBDA u : wwCmp2_safe(u.mul, Part(s.d, i - 2, 3)) > 0, Low,
                 [q |-> MinOf(hi, WMax), mul |-> Join(p.c, [j \in {0} |-> p.carry])], W)
      sub == zzSubMulW(Part(s.d, i - m, m), divisor, t.q)
      top1 == Minus(s.d[i], sub.carry)
      back == zzAdd2(sub.c, divisor)
      over == top1 > Not(sub.carry)
  IN [d |-> IF over THEN [Put(s.d, i - m, back.c) EXCEPT ![i] = Plus(top1, back.carry)]
                    ELSE [Put(s.d, i - m, sub.c) EXCEPT ![i] = top1],
      q |-> [s.q EXCEPT ![i - m] = IF over THEN t.q - 1 ELSE t.q]]

Divide(a, b) ==
  LET n == N(a)  m == N(b)
      shift == wordCLZ(b[m - 1])
      divisor == wwShHi(b, shift)
      s0 == [d |-> wwShHi(Join(a, wwSetZero(1)), shift), q |-> wwSetZero(n - m + 1)]
      s == Iter(LAMBDA t, k : DivStep(t, divisor, n - k), s0, n - m + 1)
  IN [q |-> s.q, r |-> Part(wwShLo(s.d, shift), 0, m)]

zzDiv(a, b) ==
  LET n == N(a)  m == N(b) IN
    CASE wwCmp2_safe(a, b) < 0 -> [q |-> wwSetZero(n - m + 1), r |-> Part(a, 0, m)]
      [] wwCmp2_safe(a, b) >= 0 /\ m = 1 ->
           LET d == zzDivW(a, b[0]) IN [q |-> d.q, r |-> wwSetW(1, d.r)]
      [] OTHER -> Divide(a, b)

zzMod(a, b) ==
  LET n == N(a)  m == N(b) IN
    CASE wwCmp2_safe(a, b) < 0 ->
           IF n < m THEN Join(a, wwSetZero(m - n)) ELSE Part(a, 0, m)
      [] wwCmp2_safe(a, b) >= 0 /\ m = 1 -> wwSetW(1, zzModW(a, b[0]))
      [] OTHER -> Divide(a, b).r
=============================================================================
