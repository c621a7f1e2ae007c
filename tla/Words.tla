------------------------------- MODULE Words --------------------------------
(***************************************************************************)
(* Machine words of B bits and long numbers made of them: the ground of    *)
(* the arithmetic in src/src/math.  A number is a function from 0 .. n - 1 *)
(* to words, the lowest word first; its length is the argument n of the C  *)
(* functions.                                                              *)
(***************************************************************************)
EXTENDS Integers, FiniteSets

CONSTANT
  B              \* bits of a word, B_PER_W

W == 2 ^ B
Word == 0 .. W - 1
Bit(x, i) == (x \div 2 ^ i) % 2

(* x itself.  TLC evaluates a function in full when it is compared, and    *)
(* otherwise anew at every use.                                            *)
Eager(x) == CHOOSE y \in {x} : y = y
(* F of a value that has a name in F.                                      *)
With(v, F(_)) == F(v)

(* The state a loop over i = 0 .. n - 1 ends in, and the state a loop      *)
(* with a condition ends in after at most bound steps.  The loop is halved *)
(* so that TLC nests little.                                               *)
Iter(Step(_, _), s0, n) ==
  LET RECURSIVE Run(_, _, _)
      Run(s, lo, k) ==
        CASE k <= 0 -> s
          [] k = 1 -> Eager(Step(s, lo))
          [] OTHER -> CHOOSE t \in {Run(p, lo + (k \div 2), k - (k \div 2)) :
                                    p \in {Run(s, lo, k \div 2)}} : TRUE
  IN Run(s0, 0, n)

While(Cond(_), Step(_), s0, bound) ==
  LET RECURSIVE Run(_, _)
      Run(s, k) ==
        CASE k <= 0 \/ ~Cond(s) -> s
          [] k = 1 /\ Cond(s) -> Eager(Step(s))
          [] OTHER -> CHOOSE t \in {Run(p, k - (k \div 2)) : p \in {Run(s, k \div 2)}} : TRUE
  IN Run(s0, bound)

BitsOf(x) == {i \in 0 .. B - 1 : Bit(x, i) = 1}
WordOf(S) == CHOOSE v \in Word : BitsOf(v) = S

AndTable ==
  Eager([x \in Word |-> Eager([y \in Word |-> WordOf(BitsOf(x) \cap BitsOf(y))])])
And(x, y) == AndTable[x][y]
Or(x, y) == x + y - And(x, y)
Xor(x, y) == x + y - 2 * And(x, y)
Not(x) == W - 1 - x
Shl(x, k) == (x * 2 ^ k) % W
Shr(x, k) == x \div 2 ^ k

Num(n) == [0 .. n - 1 -> Word]
N(a) == Cardinality(DOMAIN a)
Val(a) == Iter(LAMBDA v, i : v + a[i] * W ^ i, 0, N(a))
Digits(v, n) == Eager([i \in 0 .. n - 1 |-> (v \div W ^ i) % W])
Part(a, lo, n) == Eager([i \in 0 .. n - 1 |-> a[lo + i]])
Join(a, b) ==
  Eager([i \in 0 .. N(a) + N(b) - 1 |-> IF i < N(a) THEN a[i] ELSE b[i - N(a)]])
Sign(x) == IF x < 0 THEN -1 ELSE IF x > 0 THEN 1 ELSE 0
MinOf(x, y) == IF x < y THEN x ELSE y
MaxOf(x, y) == IF x > y THEN x ELSE y
=============================================================================
