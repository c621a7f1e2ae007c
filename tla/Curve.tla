------------------------------- MODULE Curve --------------------------------
(***************************************************************************)
(* What the schemes of src/src/crypto take from below them: points of a    *)
(* curve y^2 = x^3 + ax + b over GF(p), of six bits here, octet strings as *)
(* numbers, a hash function, and the way their functions return codes.     *)
(* The module Ec has the formulas themselves.                              *)
(***************************************************************************)
EXTENDS Words, Sequences, TLC

Octets == 64               \* 2^(8 * no): octet strings of the length of p
Half == 8                  \* 2^l: half as long

O == <<>>

(* How a point that is not in the group multiplies is left open: the       *)
(* functions are called with such points only where they refuse them.      *)
OnCurve(x, y, c) ==
  x < c.p /\ y < c.p /\ (y * y) % c.p = (x * x * x + c.a * x + c.b) % c.p

Power(x, k, m) ==
  Iter(LAMBDA s, i : IF (k \div 2 ^ (9 - i)) % 2 = 1 THEN (((s * s) % m) * x) % m ELSE (s * s) % m,
       1, 10) % m
Inverse(x, m) == Power(x % m, m - 2, m)

Slope(P, R, c) ==
  (IF P = R THEN (3 * P[1] * P[1] + c.a) * Inverse(2 * P[2], c.p)
   ELSE (R[2] - P[2]) * Inverse(R[1] - P[1], c.p)) % c.p
OnLine(P, R, slope, p) ==
  LET x == (slope * slope - P[1] - R[1]) % p IN <<x, (slope * (P[1] - x) - P[2]) % p>>
AddPoints(P, R, c) ==
  CASE P = O -> R
    [] R = O /\ P # O -> P
    [] P # O /\ R # O /\ P[1] = R[1] /\ (P[2] + R[2]) % c.p = 0 -> O
    [] OTHER -> OnLine(P, R, Slope(P, R, c), c.p)
Double(P, c) == AddPoints(P, P, c)

(* ecMulA(): no result when it is O.                                       *)
MulA(P, k, c) ==
  Iter(LAMBDA T, i : With(Double(T, c), LAMBDA D :
                       IF (k \div 2 ^ (6 - i)) % 2 = 1 THEN AddPoints(D, P, c) ELSE D), O, 7)
Base(c) == <<0, c.yG>>

(* ecpIsValid() and ecpIsSafeGroup() for a field that is given.            *)
IsPrime(n) == n > 1 /\ \A i \in 2 .. n - 1 : i * i > n \/ n % i # 0
ecpDetIsZero(a, b, p) == (4 * a * a * a + 27 * b * b) % p = 0
ecpMOVIsMet(q, p, threshold) == \A i \in 1 .. threshold : Power(p % q, i, q) # 1
SafeGroup(c, threshold) == IsPrime(c.q) /\ c.q # c.p /\ ecpMOVIsMet(c.q, c.p, threshold)
IsSquare(x, p) == Power(x, (p - 1) \div 2, p) = 1
Root(x, p) == Power(x, (p + 1) \div 4, p)

AddMod(x, y, m) == IF x + y >= m THEN x + y - m ELSE x + y
(* zzSubMod() borrows once: y >= m leaves it with octets that are not a    *)
(* residue.                                                                *)
SubMod(x, y, m) == IF x < y THEN (x - y + m) % Octets ELSE x - y

Hashes == 1021
(* The data of a hash one after another; a tag of it is cut out.           *)
beltHash(d) == Iter(LAMBDA h, i : (3 * h * h + h + 37 * d[i + 1] + 11) % Hashes, 7, Len(d))
Tag(d) == beltHash(d) % Half

-----------------------------------------------------------------------------
(* A function goes through its checks in order and returns the code of the *)
(* first one that does not hold; it gives something out when all do.       *)
FirstFailed(checks) ==
  LET failed == {i \in 1 .. Len(checks) : ~checks[i][1]}
  IN IF failed = {} THEN "ERR_OK"
     ELSE checks[CHOOSE i \in failed : \A j \in failed : i <= j][2]
Nothing == <<>>
Result(checks, out) ==
  LET code == FirstFailed(checks)
  IN [code |-> code, out |-> IF code = "ERR_OK" THEN out ELSE Nothing]
Ok(r) == r.code = "ERR_OK"
=============================================================================
