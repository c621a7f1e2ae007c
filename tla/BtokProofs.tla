------------------------------ MODULE BtokProofs -----------------------------
(***************************************************************************)
(* Proofs about the parts of a token, as MCBtok takes them in.             *)
(*                                                                         *)
(* The password automaton: the state of the PIN counts the wrong tries,    *)
(* and only the owner of the PUK or of the PIN brings tries back.          *)
(*                                                                         *)
(* One-time passwords: the digits of a counter and of a time as numbers,   *)
(* then that the server accepts just what is due.  Induction over digits   *)
(* is done with sets of numbers, by the least one outside.                 *)
(*                                                                         *)
(* Secure messaging: no counter encrypts twice; what is accepted is what   *)
(* was protected, with the forms of Lc and Le of the protected codes.      *)
(*                                                                         *)
(* Codes of commands: where Lc, data and Le are in a code, for every base  *)
(* of octets, and that what is coded is read back.                         *)
(*                                                                         *)
(* Descriptions of modes: each reader by the words at its place; a line    *)
(* that is read grows part by part to the line written for what was read,  *)
(* and each part of a written line is read to what it was written for.     *)
(***************************************************************************)
EXTENDS MCBtok, WellFoundedInduction, SequenceTheorems, TLAPS

-----------------------------------------------------------------------------
(* The password automaton.                                                 *)

(* The tries of the PUK are counted on a locked PIN only, and those that   *)
(* the last activation left came from it and from the activations before.  *)
PwdInv ==
  /\ PinRight
  /\ Pwd!Wrong \in 0 .. 3 /\ Pwd!WrongPuk \in 0 .. 10
  /\ pin > Pwd!Pin0 /\ pin # Pwd!PinD => Pwd!WrongPuk = 0
  /\ before.misses <= 3 * acts /\ before.spent <= 10 * acts

(* The invariant holds of every sequence of passwords, deactivations and   *)
(* sessions.                                                               *)
LEMMA PwdInductive == MCSpec => []PwdInv
<1> USE DEF Pwd!Puk0, Pwd!Puk1, Pwd!Pin0, Pwd!Pin1, Pwd!PinD, Pwd!PinS,
            Pwd!Pin2, Pwd!Pin3, Pwd!PinStates, Pwd!Passwords,
            Pwd!Wrong, Pwd!WrongPuk
<1>1. MCInit => PwdInv
  <2>1. ASSUME Pwd!Init
        PROVE  PwdInv
    <3>1. /\ pin = 15 /\ auth = "none" /\ misses = 0 /\ spent = 0 /\ acts = 0
          /\ before = [misses |-> 0, spent |-> 0]
      BY <2>1 DEF Pwd!Init, Pwd!Never
    <3>2. dead \in BOOLEAN /\ resumed \in BOOLEAN /\ proved = {}
      BY <2>1, Zenon DEF Pwd!Init
    <3>3. QED
      BY <3>1, <3>2
      DEF PwdInv, PinRight, Pwd!TypeOK, Pwd!Tries, Pwd!Authenticated
  <2>2. QED
    BY <2>1, Zenon DEF MCInit
<1>2. PwdInv /\ [MCNext]_all => PwdInv'
  <2> SUFFICES ASSUME PwdInv, [MCNext]_all
               PROVE  PwdInv'
    OBVIOUS
  <2> USE DEF PwdInv, PinRight, Pwd!TypeOK, Pwd!Tries, Pwd!Authenticated,
              Pwd!Drop, Pwd!Enterable, Pwd!Unlockable, Pwd!Locked
  <2>0. ASSUME Pwd!Restored
        PROVE  /\ misses' = 0 /\ spent' = 0 /\ acts' = 0
               /\ before' \in [misses : Nat, spent : Nat]
               /\ before'.misses = 0 /\ before'.spent = 0
    BY <2>0 DEF Pwd!Restored, Pwd!Never
  <2>1. CASE Pwd!PinOk
    <3>1. pin' = 15 /\ auth' = "pin" /\ Pwd!Restored
      BY <2>1 DEF Pwd!PinOk
    <3>2. proved' \subseteq Pwd!Passwords /\ "pin" \in proved'
      BY <2>1 DEF Pwd!PinOk
    <3>3. dead' \in BOOLEAN /\ resumed' \in BOOLEAN
      BY <2>1 DEF Pwd!PinOk
    <3>4. QED
      BY <2>0, <3>1, <3>2, <3>3
  <2>2. CASE Pwd!PinBad
    <3>1. /\ pin \in {11, 14, 15} /\ pin' = pin - 1
          /\ misses' = misses + 1 /\ UNCHANGED <<spent, acts, before>>
      BY <2>2 DEF Pwd!PinBad
    <3>2. /\ proved' \subseteq Pwd!Passwords
          /\ auth' \in (Pwd!Passwords \ {"pin"}) \cup {"none"}
          /\ auth' # "none" => auth' \in proved'
      BY <2>2 DEF Pwd!PinBad
    <3>3. dead' \in BOOLEAN /\ resumed' \in BOOLEAN
      BY <2>2 DEF Pwd!PinBad
    <3>4. QED
      BY <3>1, <3>2, <3>3
  <2>3. CASE Pwd!PinDeactivate
    BY <2>3 DEF Pwd!PinDeactivate
  <2>4. CASE Pwd!PinActivate
    <3>1. /\ pin' = 15 /\ acts' = acts + 1
          /\ before' = [misses |-> misses, spent |-> spent]
          /\ pin = 12 /\ UNCHANGED <<auth, misses, spent, resumed, proved, dead>>
      BY <2>4 DEF Pwd!PinActivate
    <3>2. /\ before' \in [misses : Nat, spent : Nat]
          /\ before'.misses = misses /\ before'.spent = spent
      BY <3>1
    <3>3. misses <= 3 * (acts + 1) /\ spent <= 10 * (acts + 1)
      OBVIOUS
    <3>4. QED
      BY <3>1, <3>2, <3>3
  <2>5. CASE Pwd!CanOk
    BY <2>5 DEF Pwd!CanOk
  <2>6. CASE Pwd!CanBad
    BY <2>6 DEF Pwd!CanBad
  <2>7. CASE Pwd!PukOk
    <3>1. /\ pin' = IF pin \in 1 .. 10 THEN 15 ELSE pin
          /\ auth' = "puk" /\ "puk" \in proved' /\ proved' \subseteq Pwd!Passwords
          /\ resumed' = resumed /\ dead' = dead
      BY <2>7 DEF Pwd!PukOk
    <3>2. CASE Pwd!Locked
      <4>1. pin \in 1 .. 10
        BY <3>2
      <4>2. QED
        BY <2>0, <2>7, <3>1, <3>2, <4>1 DEF Pwd!PukOk
    <3>3. CASE ~ Pwd!Locked
      <4>1. pin \notin 1 .. 10
        BY <3>3
      <4>2. UNCHANGED <<misses, spent, acts, before>>
        BY <2>7, <3>3 DEF Pwd!PukOk
      <4>3. QED
        BY <3>1, <4>1, <4>2
    <3>4. QED
      BY <3>2, <3>3
  <2>8. CASE Pwd!PukBad
    <3>1. /\ pin' = IF pin \in 1 .. 10 THEN pin - 1 ELSE pin
          /\ auth' = IF auth = "puk" THEN "none" ELSE auth
          /\ proved' = proved \ {"puk"}
          /\ UNCHANGED <<misses, acts, before, resumed>>
      BY <2>8 DEF Pwd!PukBad
    <3>2. dead' \in BOOLEAN
      BY <2>8 DEF Pwd!PukBad
    <3>3. Pwd!Locked <=> pin \in 1 .. 10
      OBVIOUS
    <3>4. spent' = IF pin \in 1 .. 10 THEN spent + 1 ELSE spent
      BY <2>8, <3>3 DEF Pwd!PukBad
    <3> HIDE DEF Pwd!Locked
    <3>5. QED
      BY <3>1, <3>2, <3>4
  <2>9. CASE Pwd!AuthClose \/ Pwd!NewSession
    BY <2>9 DEF Pwd!AuthClose, Pwd!NewSession
  <2>10. CASE UNCHANGED pwdVars
    BY <2>10 DEF pwdVars
  <2>11. Pwd!Next \/ UNCHANGED pwdVars
    BY DEF MCNext, all
  <2>12. QED
    BY <2>1, <2>2, <2>3, <2>4, <2>5, <2>6, <2>7, <2>8, <2>9, <2>10, <2>11
    DEF Pwd!Next
<1>3. QED
  BY <1>1, <1>2, PTL DEF MCSpec

(* The state of the PIN tells the wrong tries since it was right, unlocked *)
(* or activated, through every sequence of events; in all there were at    *)
(* most three and ten for each of the activations and one time more.  Who  *)
(* is authenticated has given that password.                               *)
THEOREM PinRightCorrect == MCSpec => []PinRight
BY PwdInductive, PTL DEF PwdInv

(* No step gives tries of the PIN but one of a user who has given in this  *)
(* session the PUK, if none were left, or the PIN.                         *)
THEOREM OwnerUnlocksCorrect == MCSpec => OwnerUnlocks
<1> DEFINE Gain ==
      Pwd!TriesLeft(pin') > Pwd!TriesLeft(pin) =>
        (IF Pwd!TriesLeft(pin) = 0 THEN "puk" ELSE "pin") \in proved'
<1>1. PwdInv /\ [MCNext]_all => [Gain]_(Pwd!vars)
  <2>0. pin' = pin => Gain
    BY DEF Pwd!TriesLeft
  <2> SUFFICES ASSUME PwdInv, [MCNext]_all, pin' # pin
               PROVE  Gain
    BY <2>0
  <2> USE DEF Pwd!TriesLeft, Pwd!Pin3, Pwd!Pin2, Pwd!Pin1, Pwd!PinS, Pwd!Pin0,
              Pwd!PinD, Pwd!Puk0, Pwd!Puk1
  <2>1. Pwd!Next
    BY DEF MCNext, all, pwdVars
  <2>2. pin \in 0 .. 15
    BY DEF PwdInv, PinRight, Pwd!TypeOK, Pwd!PinStates
  <2>3. auth # "none" => auth \in proved
    BY DEF PwdInv, PinRight, Pwd!Authenticated
  <2>4. CASE Pwd!PinOk
    <3>1. pin \in {11, 14, 15} /\ "pin" \in proved'
      BY <2>4 DEF Pwd!PinOk, Pwd!Enterable
    <3>2. QED
      BY <3>1
  <2>5. CASE Pwd!PinBad \/ Pwd!PukBad \/ Pwd!CanOk \/ Pwd!PinDeactivate
    <3>1. pin' = 12 \/ pin' = pin - 1 \/ (pin = 13 /\ pin' = 11)
      BY <2>5
      DEF Pwd!PinBad, Pwd!PukBad, Pwd!CanOk, Pwd!PinDeactivate
    <3>2. pin' = 12 \/ pin' = pin - 1 => Pwd!TriesLeft(pin') <= Pwd!TriesLeft(pin)
      BY <2>2, <2>5 DEF Pwd!PinBad, Pwd!PukBad, Pwd!CanOk, Pwd!PinDeactivate,
                        Pwd!Enterable, Pwd!Unlockable
    <3>3. Pwd!TriesLeft(pin') \in Int /\ Pwd!TriesLeft(pin) \in Int
      OBVIOUS
    <3>4. QED
      BY <3>1, <3>2, <3>3
  <2>6. CASE Pwd!PinActivate
    BY <2>3, <2>6 DEF Pwd!PinActivate
  <2>7. CASE Pwd!PukOk
    BY <2>2, <2>7 DEF Pwd!PukOk, Pwd!Unlockable
  <2>8. CASE Pwd!CanBad \/ Pwd!AuthClose \/ Pwd!NewSession
    BY <2>8 DEF Pwd!CanBad, Pwd!AuthClose, Pwd!NewSession
  <2>9. QED
    BY <2>1, <2>4, <2>5, <2>6, <2>7, <2>8 DEF Pwd!Next
<1>2. QED
  BY <1>1, PwdInductive, PTL DEF MCSpec, OwnerUnlocks, Pwd!OwnerUnlocks

-----------------------------------------------------------------------------
(* Numbers written in octets.                                              *)

(* Induction over a set of naturals: its complement would have a least     *)
(* element.                                                                *)
LEMMA SetInduction ==
  ASSUME NEW T, 0 \in T, \A n \in Nat : n \in T => n + 1 \in T
  PROVE  Nat \subseteq T
<1> DEFINE R == OpToRel(<, Nat)
           U == Nat \ T
<1>1. IsWellFoundedOn(R, Nat)
  BY NatLessThanWellFounded
<1>2. ASSUME NEW x \in Nat, NEW y \in Nat, y < x
      PROVE  <<y, x>> \in R
  BY <1>2 DEF OpToRel
<1> HIDE DEF R
<1>3. ASSUME U # {}
      PROVE  FALSE
  <2>1. PICK x \in U : \A y \in U : ~ (<<y, x>> \in R)
    BY <1>1, <1>3, WFMin
  <2>2. x \in Nat /\ x # 0
    OBVIOUS
  <2>3. x - 1 \in Nat /\ x - 1 < x /\ x - 1 + 1 = x
    BY <2>2
  <2>4. <<x - 1, x>> \in R
    BY <1>2, <2>2, <2>3
  <2>5. x - 1 \in T
    BY <2>1, <2>3, <2>4
  <2>6. QED
    BY <2>3, <2>5
<1>4. QED
  BY <1>3

(* f is made from its first value by steps.                                *)
Made(f, n, x0, step) ==
  f[0] = x0 /\ \A i \in 1 .. n : f[i] = step[i - 1][f[i - 1]]

(* Such a function exists.                                                 *)
LEMMA Iterated ==
  ASSUME NEW S, NEW x0 \in S, NEW step \in [Nat -> [S -> S]]
  PROVE  \A n \in Nat : \E f \in [0 .. n -> S] : Made(f, n, x0, step)
<1> DEFINE T == {n \in Nat : \E f \in [0 .. n -> S] : Made(f, n, x0, step)}
<1>1. 0 \in T
  <2>1. [i \in 0 .. 0 |-> x0] \in [0 .. 0 -> S] /\ Made([i \in 0 .. 0 |-> x0], 0, x0, step)
    BY DEF Made
  <2>2. QED
    BY <2>1
<1>2. ASSUME NEW n \in Nat, n \in T
      PROVE  n + 1 \in T
  <2>1. PICK f \in [0 .. n -> S] : Made(f, n, x0, step)
    BY <1>2
  <2> DEFINE next == step[n][f[n]]
             g == [i \in 0 .. n + 1 |-> IF i = n + 1 THEN next ELSE f[i]]
  <2>2. next \in S
    OBVIOUS
  <2>3. /\ g \in [0 .. n + 1 -> S] /\ g[n + 1] = next
        /\ \A i \in 0 .. n : g[i] = f[i]
    BY <2>2
  <2>4. Made(g, n + 1, x0, step)
    <3> HIDE DEF g
    <3>1. g[0] = x0
      BY <2>1, <2>3 DEF Made
    <3>2. ASSUME NEW i \in 1 .. n + 1
          PROVE  g[i] = step[i - 1][g[i - 1]]
      <4>1. CASE i = n + 1
        BY <2>3, <4>1
      <4>2. CASE i # n + 1
        <5>1. i \in 1 .. n /\ i - 1 \in 0 .. n /\ i \in 0 .. n
          BY <4>2
        <5>2. g[i] = f[i] /\ g[i - 1] = f[i - 1]
          BY <2>3, <5>1
        <5>3. f[i] = step[i - 1][f[i - 1]]
          BY <2>1, <5>1 DEF Made
        <5>4. QED
          BY <5>2, <5>3
      <4>3. QED
        BY <4>1, <4>2
    <3>3. QED
      BY <3>1, <3>2 DEF Made
  <2> HIDE DEF g
  <2>5. QED
    BY <2>3, <2>4
<1> HIDE DEF T
<1>3. Nat \subseteq T
  BY <1>1, <1>2, SetInduction
<1>4. QED
  BY <1>3 DEF T

(* What an octet weighs.                                                   *)
LEMMA Weights ==
  /\ Weight[0] = 1
  /\ \A k \in 1 .. CtrLen : Weight[k] = Base * Weight[k - 1]
  /\ \A k \in 0 .. CtrLen : Weight[k] \in Nat \ {0}
<1> USE BotpAssumption
<1> DEFINE step == [i \in Nat |-> [x \in Nat |-> Base * x]]
           IsWeight(f) ==
             f = [k \in 0 .. CtrLen |-> IF k = 0 THEN 1 ELSE Base * f[k - 1]]
<1>1. step \in [Nat -> [Nat -> Nat]]
  OBVIOUS
<1>2. PICK f \in [0 .. CtrLen -> Nat] : Made(f, CtrLen, 1, step)
  <2> HIDE DEF step
  <2>1. QED
    BY <1>1, Iterated
<1>3. IsWeight(f)
  <2>1. ASSUME NEW k \in 0 .. CtrLen
        PROVE  f[k] = IF k = 0 THEN 1 ELSE Base * f[k - 1]
    <3>1. CASE k = 0
      BY <1>2, <3>1 DEF Made
    <3>2. CASE k # 0
      <4>1. k \in 1 .. CtrLen /\ k - 1 \in 0 .. CtrLen
        BY <3>2
      <4>2. f[k - 1] \in Nat /\ k - 1 \in Nat
        BY <4>1
      <4>3. f[k] = step[k - 1][f[k - 1]]
        <5> HIDE DEF step
        <5>1. QED
          BY <1>2, <4>1 DEF Made
      <4>4. QED
        BY <3>2, <4>2, <4>3
    <3>3. QED
      BY <3>1, <3>2
  <2>2. QED
    BY <2>1
<1>4. IsWeight(Weight)
  BY <1>3 DEF Weight
<1>5. /\ Weight[0] = 1
      /\ \A k \in 1 .. CtrLen : Weight[k] = Base * Weight[k - 1]
  BY <1>4
<1> HIDE DEF step, IsWeight
<1> DEFINE T == {k \in Nat : k <= CtrLen => Weight[k] \in Nat \ {0}}
<1>6. 0 \in T
  BY <1>5
<1>7. ASSUME NEW k \in Nat, k \in T
      PROVE  k + 1 \in T
  <2>1. CASE k + 1 <= CtrLen
    <3>1. Weight[k] \in Nat \ {0} /\ Weight[k + 1] = Base * Weight[k]
      BY <1>5, <1>7, <2>1
    <3>2. QED
      BY <3>1, SMTT(40)
  <2>2. QED
    BY <2>1
<1> HIDE DEF T
<1>8. Nat \subseteq T
  BY <1>6, <1>7, SetInduction
<1>9. QED
  BY <1>5, <1>8 DEF T

(* A digit and a number below the weight of its place.                     *)
LEMMA DigitAdded ==
  ASSUME NEW b \in Nat, NEW d \in Nat, NEW w \in Nat, NEW x \in Nat,
         d < b, x < w
  PROVE  d * w + x \in Nat /\ d * w + x < b * w
<1>1. (b - 1 - d) * w >= 0 /\ d * w \in Nat /\ b * w \in Nat
  OBVIOUS
<1>2. (b - 1 - d) * w = b * w - w - d * w
  OBVIOUS
<1>3. QED
  BY <1>1, <1>2

(* The number octets stand for: the numbers its last octets stand for are  *)
(* below the weight of the octet before them.                              *)
LEMMA Values ==
  ASSUME NEW c \in Octets
  PROVE  \E v \in [1 .. CtrLen + 1 -> Nat] :
           /\ v[CtrLen + 1] = 0
           /\ \A i \in 1 .. CtrLen : v[i] = c[i] * Weight[CtrLen - i] + v[i + 1]
           /\ \A i \in 1 .. CtrLen + 1 : v[i] < Weight[CtrLen + 1 - i]
           /\ Value(c) = v[1]
<1> USE BotpAssumption
<1> DEFINE step ==
             [k \in Nat |-> [x \in Nat |->
                IF k < CtrLen THEN c[CtrLen - k] * Weight[k] + x ELSE 0]]
           IsValue(v) ==
             v = [i \in 1 .. CtrLen + 1 |->
                    IF i = CtrLen + 1 THEN 0
                    ELSE c[i] * Weight[CtrLen - i] + v[i + 1]]
<1>1. step \in [Nat -> [Nat -> Nat]]
  <2>1. ASSUME NEW k \in Nat, NEW x \in Nat, k < CtrLen
        PROVE  c[CtrLen - k] * Weight[k] + x \in Nat
    <3>1. CtrLen - k \in 1 .. CtrLen /\ k \in 0 .. CtrLen
      BY <2>1
    <3>2. c[CtrLen - k] \in Nat /\ Weight[k] \in Nat
      BY <3>1, Weights DEF Octets
    <3>3. QED
      BY <3>2
  <2>2. QED
    BY <2>1
<1>2. PICK g \in [0 .. CtrLen -> Nat] : Made(g, CtrLen, 0, step)
  <2> HIDE DEF step
  <2>1. QED
    BY <1>1, Iterated
<1>3. IsValue([i \in 1 .. CtrLen + 1 |-> g[CtrLen + 1 - i]])
  <2> DEFINE f == [i \in 1 .. CtrLen + 1 |-> g[CtrLen + 1 - i]]
  <2>1. ASSUME NEW i \in 1 .. CtrLen
        PROVE  f[i] = c[i] * Weight[CtrLen - i] + f[i + 1]
    <3>1. /\ CtrLen + 1 - i \in 1 .. CtrLen /\ CtrLen + 1 - i - 1 = CtrLen - i
          /\ CtrLen - i \in 0 .. CtrLen /\ CtrLen - i < CtrLen
          /\ CtrLen - (CtrLen - i) = i /\ CtrLen + 1 - (i + 1) = CtrLen - i
          /\ i \in 1 .. CtrLen + 1 /\ i + 1 \in 1 .. CtrLen + 1
      OBVIOUS
    <3>2. g[CtrLen + 1 - i] = step[CtrLen - i][g[CtrLen - i]]
      <4> HIDE DEF step
      <4>1. QED
        BY <1>2, <3>1 DEF Made
    <3>3. CtrLen - i \in Nat /\ g[CtrLen - i] \in Nat
      BY <3>1
    <3>4. step[CtrLen - i][g[CtrLen - i]]
            = c[i] * Weight[CtrLen - i] + g[CtrLen - i]
      BY <3>1, <3>3
    <3>5. f[i] = g[CtrLen + 1 - i] /\ f[i + 1] = g[CtrLen - i]
      BY <3>1
    <3>6. QED
      BY <3>2, <3>4, <3>5
  <2>2. f[CtrLen + 1] = 0
    BY <1>2 DEF Made
  <2>3. f = [i \in 1 .. CtrLen + 1 |-> f[i]]
    OBVIOUS
  <2> HIDE DEF f
  <2>4. ASSUME NEW i \in 1 .. CtrLen + 1
        PROVE  f[i] = IF i = CtrLen + 1 THEN 0
                      ELSE c[i] * Weight[CtrLen - i] + f[i + 1]
    BY <2>1, <2>2
  <2>5. IsValue(f)
    BY <2>3, <2>4
  <2>6. QED
    BY <2>5 DEF f
<1> DEFINE v == CHOOSE v : IsValue(v)
<1>4. IsValue(v)
  BY <1>3
<1>5. Value(c) = v[1]
  BY DEF Value
<1>6. /\ v = [i \in 1 .. CtrLen + 1 |-> v[i]] /\ v[CtrLen + 1] = 0
      /\ \A i \in 1 .. CtrLen : v[i] = c[i] * Weight[CtrLen - i] + v[i + 1]
  <2> HIDE DEF v
  <2>1. QED
    BY <1>4
<1> HIDE DEF v, IsValue, step
<1> DEFINE T == {k \in Nat : k <= CtrLen =>
                   v[CtrLen + 1 - k] \in Nat /\ v[CtrLen + 1 - k] < Weight[k]}
<1>7. 0 \in T
  BY <1>6, Weights
<1>8. ASSUME NEW k \in Nat, k \in T
      PROVE  k + 1 \in T
  <2> SUFFICES ASSUME k + 1 <= CtrLen
               PROVE  /\ v[CtrLen + 1 - (k + 1)] \in Nat
                      /\ v[CtrLen + 1 - (k + 1)] < Weight[k + 1]
    OBVIOUS
  <2>1. /\ CtrLen + 1 - (k + 1) = CtrLen - k /\ CtrLen - k \in 1 .. CtrLen
        /\ CtrLen - (CtrLen - k) = k /\ CtrLen - k + 1 = CtrLen + 1 - k
        /\ k \in 0 .. CtrLen /\ k + 1 \in 1 .. CtrLen /\ k + 1 - 1 = k
    OBVIOUS
  <2>2. /\ v[CtrLen + 1 - k] \in Nat /\ v[CtrLen + 1 - k] < Weight[k]
        /\ Weight[k] \in Nat /\ Weight[k + 1] = Base * Weight[k]
    BY <1>8, <2>1, Weights, SMTT(30)
  <2>3. c[CtrLen - k] \in Nat /\ c[CtrLen - k] < Base
    BY <2>1 DEF Octets
  <2>4. v[CtrLen - k] = c[CtrLen - k] * Weight[k] + v[CtrLen + 1 - k]
    BY <1>6, <2>1
  <2>5. /\ c[CtrLen - k] * Weight[k] + v[CtrLen + 1 - k] \in Nat
        /\ c[CtrLen - k] * Weight[k] + v[CtrLen + 1 - k] < Base * Weight[k]
    <3>1. Base \in Nat
      OBVIOUS
    <3>2. QED
      BY <2>2, <2>3, <3>1, DigitAdded
  <2>6. QED
    BY <2>1, <2>2, <2>4, <2>5
<1> HIDE DEF T
<1>9. Nat \subseteq T
  BY <1>7, <1>8, SetInduction
<1>10. ASSUME NEW i \in 1 .. CtrLen + 1
       PROVE  v[i] \in Nat /\ v[i] < Weight[CtrLen + 1 - i]
  <2>1. /\ CtrLen + 1 - i \in Nat /\ CtrLen + 1 - i <= CtrLen
        /\ CtrLen + 1 - (CtrLen + 1 - i) = i
    OBVIOUS
  <2>2. QED
    BY <1>9, <2>1 DEF T
<1>11. v \in [1 .. CtrLen + 1 -> Nat]
  BY <1>6, <1>10
<1>12. QED
  BY <1>5, <1>6, <1>10, <1>11

(* The carries of botpCtrNext().                                           *)
LEMMA Carries ==
  ASSUME NEW c \in Octets
  PROVE  \E carry \in [1 .. CtrLen + 1 -> {0, 1}] :
           /\ carry[CtrLen + 1] = 1
           /\ \A i \in 1 .. CtrLen :
                carry[i] = IF (c[i] + carry[i + 1]) % Base < carry[i + 1]
                           THEN 1 ELSE 0
           /\ CtrNext(c) = [i \in 1 .. CtrLen |-> (c[i] + carry[i + 1]) % Base]
<1> USE BotpAssumption
<1> DEFINE Bit == {0, 1}
           step ==
             [k \in Nat |-> [x \in Bit |->
                IF (c[CtrLen - k] + x) % Base < x THEN 1 ELSE 0]]
           IsCarry(h) ==
             h = [i \in 1 .. CtrLen + 1 |->
                    IF i = CtrLen + 1 THEN 1
                    ELSE IF (c[i] + h[i + 1]) % Base < h[i + 1] THEN 1 ELSE 0]
<1>1. step \in [Nat -> [Bit -> Bit]] /\ 1 \in Bit
  OBVIOUS
<1>2. PICK g \in [0 .. CtrLen -> Bit] : Made(g, CtrLen, 1, step)
  <2> HIDE DEF step, Bit
  <2>1. QED
    BY <1>1, Iterated
<1>3. IsCarry([i \in 1 .. CtrLen + 1 |-> g[CtrLen + 1 - i]])
  <2> DEFINE f == [i \in 1 .. CtrLen + 1 |-> g[CtrLen + 1 - i]]
  <2>1. ASSUME NEW i \in 1 .. CtrLen
        PROVE  f[i] = IF (c[i] + f[i + 1]) % Base < f[i + 1] THEN 1 ELSE 0
    <3>1. /\ CtrLen + 1 - i \in 1 .. CtrLen /\ CtrLen + 1 - i - 1 = CtrLen - i
          /\ CtrLen - i \in 0 .. CtrLen
          /\ CtrLen - (CtrLen - i) = i /\ CtrLen + 1 - (i + 1) = CtrLen - i
          /\ i \in 1 .. CtrLen + 1 /\ i + 1 \in 1 .. CtrLen + 1
      OBVIOUS
    <3>2. g[CtrLen + 1 - i] = step[CtrLen - i][g[CtrLen - i]]
      <4> HIDE DEF step
      <4>1. QED
        BY <1>2, <3>1 DEF Made
    <3>3. CtrLen - i \in Nat /\ g[CtrLen - i] \in Bit
      BY <3>1
    <3>4. step[CtrLen - i][g[CtrLen - i]]
            = IF (c[i] + g[CtrLen - i]) % Base < g[CtrLen - i] THEN 1 ELSE 0
      BY <3>1, <3>3
    <3>5. f[i] = g[CtrLen + 1 - i] /\ f[i + 1] = g[CtrLen - i]
      BY <3>1
    <3>6. QED
      BY <3>2, <3>4, <3>5
  <2>2. f[CtrLen + 1] = 1
    BY <1>2 DEF Made
  <2>3. f = [i \in 1 .. CtrLen + 1 |-> f[i]]
    OBVIOUS
  <2> HIDE DEF f
  <2>4. ASSUME NEW i \in 1 .. CtrLen + 1
        PROVE  f[i] = IF i = CtrLen + 1 THEN 1
                      ELSE IF (c[i] + f[i + 1]) % Base < f[i + 1] THEN 1 ELSE 0
    BY <2>1, <2>2
  <2>5. IsCarry(f)
    BY <2>3, <2>4
  <2>6. QED
    BY <2>5 DEF f
<1> DEFINE carry == CHOOSE h : IsCarry(h)
<1>4. IsCarry(carry)
  BY <1>3
<1>5. CtrNext(c) = [i \in 1 .. CtrLen |-> (c[i] + carry[i + 1]) % Base]
  BY DEF CtrNext
<1> HIDE DEF carry, step
<1>6. carry \in [1 .. CtrLen + 1 -> {0, 1}]
  BY <1>4
<1>7. /\ carry[CtrLen + 1] = 1
      /\ \A i \in 1 .. CtrLen :
           carry[i] = IF (c[i] + carry[i + 1]) % Base < carry[i + 1]
                      THEN 1 ELSE 0
  BY <1>4
<1>8. QED
  BY <1>5, <1>6, <1>7

(* Quotient and remainder.                                                 *)
Split(p, x, q, r) == x = p * q + r /\ r < p

LEMMA Divided ==
  ASSUME NEW p \in Nat \ {0}
  PROVE  \A x \in Nat : \E q \in Nat, r \in Nat : Split(p, x, q, r)
<1> DEFINE T == {x \in Nat : \E q \in Nat, r \in Nat : Split(p, x, q, r)}
<1>1. 0 \in T
  <2>1. Split(p, 0, 0, 0)
    BY DEF Split
  <2>2. QED
    BY <2>1
<1>2. ASSUME NEW x \in Nat, x \in T
      PROVE  x + 1 \in T
  <2>1. PICK q \in Nat, r \in Nat : Split(p, x, q, r)
    BY <1>2
  <2>2. CASE r + 1 < p
    <3>1. Split(p, x + 1, q, r + 1) /\ r + 1 \in Nat
      BY <2>1, <2>2 DEF Split
    <3>2. QED
      BY <3>1
  <2>3. CASE r + 1 = p
    <3>1. Split(p, x + 1, q + 1, 0) /\ q + 1 \in Nat
      BY <2>1, <2>3 DEF Split
    <3>2. QED
      BY <3>1
  <2>4. r + 1 < p \/ r + 1 = p
    BY <2>1 DEF Split
  <2>5. QED
    BY <2>2, <2>3, <2>4
<1> HIDE DEF T
<1>3. Nat \subseteq T
  BY <1>1, <1>2, SetInduction
<1>4. QED
  BY <1>3 DEF T

LEMMA Remainder ==
  ASSUME NEW p \in Nat \ {0}, NEW x \in Nat, NEW q \in Nat, NEW r \in Nat,
         Split(p, x, q, r)
  PROVE  x % p = r /\ x \div p = q
BY DEF Split

LEMMA Small ==
  ASSUME NEW p \in Nat \ {0}, NEW r \in 0 .. p - 1
  PROVE  r % p = r
OBVIOUS

(* Numbers less than p apart are equal when p divides their difference.    *)
LEMMA Apart ==
  ASSUME NEW p \in Nat, NEW a \in Nat, NEW b \in Nat, NEW q \in Int,
         NEW s \in Int, a < p, b < p, a - b = p * (q - s)
  PROVE  a = b
<1>1. CASE q = s
  BY <1>1
<1>2. CASE q - s >= 1
  <2>1. p * (q - s) >= p
    BY <1>2
  <2>2. QED
    BY <2>1
<1>3. CASE s - q >= 1
  <2>1. p * (s - q) >= p
    BY <1>3
  <2>2. p * (s - q) = b - a
    OBVIOUS
  <2>3. QED
    BY <2>1, <2>2
<1>4. QED
  BY <1>1, <1>2, <1>3

(* Remainders of numbers that follow one another, and of numbers less than *)
(* the modulus apart.                                                      *)
LEMMA ModNext ==
  ASSUME NEW p \in Nat \ {0}, NEW x \in Nat
  PROVE  ((x % p) + 1) % p = (x + 1) % p
<1>1. PICK q \in Nat, r \in Nat : Split(p, x, q, r)
  BY Divided
<1>2. x % p = r /\ r < p
  BY <1>1, Remainder DEF Split
<1>3. CASE r + 1 < p
  <2>1. Split(p, x + 1, q, r + 1)
    BY <1>1, <1>3 DEF Split
  <2>2. (x + 1) % p = r + 1
    BY <2>1, Remainder
  <2>3. (r + 1) % p = r + 1
    BY <1>3, Small
  <2>4. QED
    BY <1>2, <2>2, <2>3
<1>4. CASE r + 1 = p
  <2>1. Split(p, x + 1, q + 1, 0)
    BY <1>1, <1>4 DEF Split
  <2>2. (x + 1) % p = 0
    BY <2>1, Remainder
  <2>3. (r + 1) % p = 0
    BY <1>4
  <2>4. QED
    BY <1>2, <2>2, <2>3
<1>5. QED
  BY <1>2, <1>3, <1>4

LEMMA ModApart ==
  ASSUME NEW p \in Nat \ {0}, NEW x \in Nat, NEW a \in Nat, NEW b \in Nat,
         a < p, b < p, (x + a) % p = (x + b) % p
  PROVE  a = b
<1>1. x + a \in Nat /\ x + b \in Nat
  OBVIOUS
<1>2. PICK q \in Nat, r \in Nat : Split(p, x + a, q, r)
  BY <1>1, Divided
<1>3. PICK s \in Nat, t \in Nat : Split(p, x + b, s, t)
  BY <1>1, Divided
<1>4. (x + a) % p = r /\ (x + b) % p = t
  BY <1>1, <1>2, <1>3, Remainder
<1>5. a - b = p * q - p * s
  BY <1>2, <1>3, <1>4 DEF Split
<1>6. p * q - p * s = p * (q - s)
  OBVIOUS
<1>7. QED
  BY <1>5, <1>6, Apart

(* One is added to an octet, or to nothing, and carried.                   *)
Carried(b, o, k, d, h) == d = (o + k) % b /\ h = IF d < k THEN 1 ELSE 0

LEMMA OctetNext ==
  ASSUME NEW b \in Nat \ {0, 1}, NEW o \in 0 .. b - 1, NEW k \in {0, 1},
         NEW d, NEW h, Carried(b, o, k, d, h)
  PROVE  d \in 0 .. b - 1 /\ d + h * b = o + k
<1> USE DEF Carried
<1>1. CASE o + k < b
  <2>1. (o + k) % b = o + k
    BY <1>1
  <2>2. h = 0
    BY <2>1
  <2>3. QED
    BY <1>1, <2>1, <2>2
<1>2. CASE o + k >= b
  <2>1. o + k = b /\ k = 1
    BY <1>2
  <2>2. (o + k) % b = 0
    BY <2>1
  <2>3. QED
    BY <2>1, <2>2
<1>3. QED
  BY <1>1, <1>2

(* What that does to the number the octet and those after it stand for.    *)
Added(b, w, d, k, c, j, u, v, x, y, z) ==
  /\ {b, w, d, k, c, j, u, v, x, y, z} \subseteq Nat
  /\ d + k * b = c + j /\ u + j * w = v + 1
  /\ x = b * w /\ y = d * w + u /\ z = c * w + v

OneMore(y, k, x, z) == y + k * x = z + 1

LEMMA DigitCarried ==
  ASSUME NEW b, NEW w, NEW d, NEW k, NEW c, NEW j, NEW u, NEW v,
         NEW x, NEW y, NEW z, Added(b, w, d, k, c, j, u, v, x, y, z)
  PROVE  OneMore(y, k, x, z)
<1> USE DEF Added, OneMore
<1>1. (d + k * b) * w = (c + j) * w
  OBVIOUS
<1>2. (d + k * b) * w = d * w + k * (b * w) /\ (c + j) * w = c * w + j * w
  OBVIOUS
<1>3. d * w + u + k * (b * w) = c * w + v + 1
  BY <1>1, <1>2
<1>4. QED
  BY <1>3

(* botpCtrNext() adds one, and begins again after the highest value.       *)
LEMMA CtrNextCounts ==
  ASSUME NEW c \in Octets
  PROVE  /\ CtrNext(c) \in Octets
         /\ Value(c) \in Nat
         /\ Value(CtrNext(c)) = (Value(c) + 1) % Weight[CtrLen]
<1>0. Base \in Nat \ {0, 1} /\ CtrLen \in Nat \ {0}
  BY BotpAssumption
<1> USE <1>0
<1>1. PICK carry \in [1 .. CtrLen + 1 -> {0, 1}] :
        /\ carry[CtrLen + 1] = 1
        /\ \A i \in 1 .. CtrLen :
             carry[i] = IF (c[i] + carry[i + 1]) % Base < carry[i + 1]
                        THEN 1 ELSE 0
        /\ CtrNext(c) = [i \in 1 .. CtrLen |-> (c[i] + carry[i + 1]) % Base]
  BY Carries
<1> DEFINE d == CtrNext(c)
<1>2. ASSUME NEW i \in 1 .. CtrLen
      PROVE  /\ d[i] \in 0 .. Base - 1 /\ c[i] \in 0 .. Base - 1
             /\ carry[i] \in {0, 1} /\ carry[i + 1] \in {0, 1}
             /\ d[i] + carry[i] * Base = c[i] + carry[i + 1]
  <2>1. /\ c[i] \in 0 .. Base - 1
        /\ carry[i] \in {0, 1} /\ carry[i + 1] \in {0, 1}
    <3>1. i \in 1 .. CtrLen + 1 /\ i + 1 \in 1 .. CtrLen + 1
      OBVIOUS
    <3>2. QED
      BY <3>1 DEF Octets
  <2>2. /\ d[i] = (c[i] + carry[i + 1]) % Base
        /\ carry[i] = IF d[i] < carry[i + 1] THEN 1 ELSE 0
    BY <1>1
  <2>3. Base \in Nat \ {0, 1}
    OBVIOUS
  <2> HIDE DEF d
  <2>4. Carried(Base, c[i], carry[i + 1], d[i], carry[i])
    BY <2>2 DEF Carried
  <2>5. d[i] \in 0 .. Base - 1 /\ d[i] + carry[i] * Base = c[i] + carry[i + 1]
    BY <2>1, <2>3, <2>4, OctetNext
  <2>6. QED
    BY <2>1, <2>5
<1>3. d \in Octets
  BY <1>1, <1>2 DEF Octets
<1> HIDE DEF d
<1>4. PICK v \in [1 .. CtrLen + 1 -> Nat] :
        /\ v[CtrLen + 1] = 0
        /\ \A i \in 1 .. CtrLen : v[i] = c[i] * Weight[CtrLen - i] + v[i + 1]
        /\ \A i \in 1 .. CtrLen + 1 : v[i] < Weight[CtrLen + 1 - i]
        /\ Value(c) = v[1]
  BY Values
<1>5. PICK u \in [1 .. CtrLen + 1 -> Nat] :
        /\ u[CtrLen + 1] = 0
        /\ \A i \in 1 .. CtrLen : u[i] = d[i] * Weight[CtrLen - i] + u[i + 1]
        /\ \A i \in 1 .. CtrLen + 1 : u[i] < Weight[CtrLen + 1 - i]
        /\ Value(d) = u[1]
  BY <1>3, Values
<1> DEFINE T == {k \in Nat : k <= CtrLen =>
                   u[CtrLen + 1 - k] + carry[CtrLen + 1 - k] * Weight[k]
                     = v[CtrLen + 1 - k] + 1}
<1>6. 0 \in T
  BY <1>1, <1>4, <1>5, Weights
<1>7. ASSUME NEW k \in Nat, k \in T
      PROVE  k + 1 \in T
  <2> SUFFICES ASSUME k + 1 <= CtrLen
               PROVE  u[CtrLen - k] + carry[CtrLen - k] * Weight[k + 1]
                        = v[CtrLen - k] + 1
    <3>1. CtrLen + 1 - (k + 1) = CtrLen - k
      OBVIOUS
    <3>2. QED
      BY <3>1
  <2> DEFINE i == CtrLen - k
  <2>1. /\ i \in 1 .. CtrLen /\ CtrLen - i = k /\ i + 1 = CtrLen + 1 - k
        /\ k \in 0 .. CtrLen /\ k + 1 \in 1 .. CtrLen /\ k + 1 - 1 = k
        /\ i + 1 \in 1 .. CtrLen + 1
    OBVIOUS
  <2>2. u[i + 1] + carry[i + 1] * Weight[k] = v[i + 1] + 1
    BY <1>7, <2>1
  <2> HIDE DEF i
  <2>3. Weight[k] \in Nat /\ Weight[k + 1] = Base * Weight[k]
    BY <2>1, Weights
  <2>4. /\ u[i] = d[i] * Weight[k] + u[i + 1] /\ u[i + 1] \in Nat
        /\ v[i] = c[i] * Weight[k] + v[i + 1] /\ v[i + 1] \in Nat
    BY <1>4, <1>5, <2>1
  <2>5. /\ d[i] \in 0 .. Base - 1 /\ c[i] \in 0 .. Base - 1
        /\ carry[i] \in {0, 1} /\ carry[i + 1] \in {0, 1}
    BY <1>2, <2>1
  <2>6. /\ d[i] \in Nat /\ c[i] \in Nat /\ carry[i] \in Nat
        /\ carry[i + 1] \in Nat /\ Base \in Nat
    BY <2>5
  <2>7. d[i] + carry[i] * Base = c[i] + carry[i + 1]
    BY <1>2, <2>1
  <2>8. /\ Weight[k] \in Nat /\ Weight[k + 1] \in Nat
        /\ u[i] \in Nat /\ v[i] \in Nat /\ u[i + 1] \in Nat /\ v[i + 1] \in Nat
    <3>1. k \in 0 .. CtrLen /\ k + 1 \in 0 .. CtrLen /\ i \in 1 .. CtrLen + 1
      BY <2>1
    <3>2. Weight[k] \in Nat /\ Weight[k + 1] \in Nat
      BY <3>1, Weights
    <3>3. QED
      BY <2>1, <3>1, <3>2
  <2>9. Added(Base, Weight[k], d[i], carry[i], c[i], carry[i + 1],
              u[i + 1], v[i + 1], Weight[k + 1], u[i], v[i])
    BY <2>2, <2>3, <2>4, <2>6, <2>7, <2>8 DEF Added
  <2>10. OneMore(u[i], carry[i], Weight[k + 1], v[i])
    BY <2>9, DigitCarried
  <2>11. QED
    BY <2>10 DEF i, OneMore
<1> HIDE DEF T
<1>8. Nat \subseteq T
  BY <1>6, <1>7, SetInduction
<1>9. u[1] + carry[1] * Weight[CtrLen] = v[1] + 1
  <2>1. CtrLen + 1 - CtrLen = 1 /\ CtrLen \in T
    BY <1>8
  <2>2. QED
    BY <2>1 DEF T
<1>10. /\ u[1] \in Nat /\ v[1] \in Nat /\ carry[1] \in {0, 1}
       /\ Weight[CtrLen] \in Nat \ {0}
       /\ u[1] < Weight[CtrLen] /\ v[1] < Weight[CtrLen]
  <2>1. 1 \in 1 .. CtrLen + 1 /\ CtrLen + 1 - 1 = CtrLen /\ CtrLen \in 0 .. CtrLen
    OBVIOUS
  <2>2. QED
    BY <1>1, <1>4, <1>5, <2>1, Weights
<1>11. u[1] = (v[1] + 1) % Weight[CtrLen]
  <2>1. CASE carry[1] = 0
    <3>1. u[1] = v[1] + 1 /\ v[1] + 1 \in 0 .. Weight[CtrLen] - 1
      BY <1>9, <1>10, <2>1
    <3>2. (v[1] + 1) % Weight[CtrLen] = v[1] + 1
      BY <1>10, <3>1, Small
    <3>3. QED
      BY <3>1, <3>2
  <2>2. CASE carry[1] = 1
    <3>1. v[1] + 1 = Weight[CtrLen] /\ u[1] = 0
      BY <1>9, <1>10, <2>2
    <3>2. Weight[CtrLen] % Weight[CtrLen] = 0
      BY <1>10
    <3>3. QED
      BY <3>1, <3>2
  <2>3. QED
    BY <1>10, <2>1, <2>2
<1>12. QED
  BY <1>3, <1>4, <1>5, <1>10, <1>11 DEF d

(* The quotient and the remainder are those of the division.               *)
LEMMA Quotient ==
  ASSUME NEW p \in Nat \ {0}, NEW x \in Nat
  PROVE  /\ x \div p \in Nat /\ x % p \in Nat
         /\ Split(p, x, x \div p, x % p)
<1>1. PICK q \in Nat, r \in Nat : Split(p, x, q, r)
  BY Divided
<1>2. x % p = r /\ x \div p = q
  BY <1>1, Remainder
<1>3. QED
  BY <1>1, <1>2

(* The octets of a mark of time, from the lowest.                          *)
IsTime(t, rest) ==
  /\ rest[0] = t
  /\ \A k \in 1 .. CtrLen : rest[k] = rest[k - 1] \div Base
  /\ TimeToCtr(t) = [i \in 1 .. CtrLen |-> rest[CtrLen - i] % Base]

LEMMA TimeOctets ==
  ASSUME NEW t \in Nat
  PROVE  \E rest \in [0 .. CtrLen -> Nat] : IsTime(t, rest)
<1>0. Base \in Nat \ {0, 1} /\ CtrLen \in Nat \ {0}
  BY BotpAssumption
<1> USE <1>0
<1> DEFINE step == [i \in Nat |-> [x \in Nat |-> x \div Base]]
           IsRest(f) ==
             f = [k \in 0 .. CtrLen |-> IF k = 0 THEN t ELSE f[k - 1] \div Base]
<1>1. step \in [Nat -> [Nat -> Nat]]
  <2>1. \A x \in Nat : x \div Base \in Nat
    BY Quotient
  <2>2. QED
    BY <2>1
<1>2. PICK f \in [0 .. CtrLen -> Nat] : Made(f, CtrLen, t, step)
  <2> HIDE DEF step
  <2>1. QED
    BY <1>1, Iterated
<1>3. IsRest(f)
  <2>1. ASSUME NEW k \in 0 .. CtrLen
        PROVE  f[k] = IF k = 0 THEN t ELSE f[k - 1] \div Base
    <3>1. CASE k = 0
      BY <1>2, <3>1 DEF Made
    <3>2. CASE k # 0
      <4>1. k \in 1 .. CtrLen /\ k - 1 \in 0 .. CtrLen
        BY <3>2
      <4>2. f[k - 1] \in Nat /\ k - 1 \in Nat
        BY <4>1
      <4>3. f[k] = step[k - 1][f[k - 1]]
        <5> HIDE DEF step
        <5>1. QED
          BY <1>2, <4>1 DEF Made
      <4>4. QED
        BY <3>2, <4>2, <4>3
    <3>3. QED
      BY <3>1, <3>2
  <2>2. QED
    BY <2>1
<1> DEFINE rest == CHOOSE f_1 : IsRest(f_1)
<1>4. IsRest(rest)
  BY <1>3
<1>5. TimeToCtr(t) = [i \in 1 .. CtrLen |-> rest[CtrLen - i] % Base]
  BY DEF TimeToCtr
<1> HIDE DEF rest, step
<1>6. \A k \in 0 .. CtrLen :
        rest[k] = IF k = 0 THEN t ELSE rest[k - 1] \div Base
  BY <1>4
<1>7. rest = [k \in 0 .. CtrLen |-> rest[k]]
  BY <1>4
<1> HIDE DEF IsRest
<1> DEFINE T == {k \in Nat : k <= CtrLen => rest[k] \in Nat}
<1>8. 0 \in T
  BY <1>6
<1>9. ASSUME NEW k \in Nat, k \in T
      PROVE  k + 1 \in T
  <2>1. ASSUME k + 1 <= CtrLen
        PROVE  rest[k + 1] \in Nat
    <3>1. rest[k] \in Nat /\ k + 1 \in 0 .. CtrLen /\ k + 1 # 0 /\ k + 1 - 1 = k
      BY <1>9, <2>1
    <3>2. rest[k + 1] = rest[k] \div Base
      BY <1>6, <3>1
    <3>3. QED
      BY <3>1, <3>2, Quotient
  <2>2. QED
    BY <2>1
<1> HIDE DEF T
<1>10. Nat \subseteq T
  BY <1>8, <1>9, SetInduction
<1>11. \A k \in 0 .. CtrLen : rest[k] \in Nat
  BY <1>10 DEF T
<1>12. rest \in [0 .. CtrLen -> Nat]
  BY <1>7, <1>11
<1>13. \A k \in 1 .. CtrLen : rest[k] = rest[k - 1] \div Base
  BY <1>6
<1>14. IsTime(t, rest)
  BY <1>5, <1>6, <1>13 DEF IsTime
<1>15. QED
  BY <1>12, <1>14

(* botpTimeToCtr() takes different marks of time to different octets, as   *)
(* long as they have room.                                                 *)
LEMMA DigitsBelow ==
  ASSUME NEW b \in Nat \ {0}, NEW w \in Nat, NEW x \in Nat, NEW q \in Nat,
         NEW r \in Nat, Split(b, x, q, r), x < b * w
  PROVE  q < w
<1>1. x = b * q + r
  BY DEF Split
<1>2. CASE q >= w
  <2>1. b * (q - w) >= 0 /\ b * (q - w) = b * q - b * w
    BY <1>2
  <2>2. QED
    BY <1>1, <2>1
<1>3. QED
  BY <1>2

LEMMA TimeBelow ==
  ASSUME NEW t \in Nat, t < Weight[CtrLen],
         NEW rest \in [0 .. CtrLen -> Nat], IsTime(t, rest)
  PROVE  rest[CtrLen] = 0
<1>0. Base \in Nat \ {0, 1} /\ CtrLen \in Nat \ {0}
  BY BotpAssumption
<1> USE <1>0
<1> DEFINE T == {k \in Nat : k <= CtrLen => rest[k] < Weight[CtrLen - k]}
<1>1. 0 \in T
  BY DEF IsTime
<1>2. ASSUME NEW k \in Nat, k \in T
      PROVE  k + 1 \in T
  <2> SUFFICES ASSUME k + 1 <= CtrLen
               PROVE  rest[k + 1] < Weight[CtrLen - (k + 1)]
    OBVIOUS
  <2> DEFINE j == CtrLen - (k + 1)
  <2>1. /\ j \in 0 .. CtrLen /\ j + 1 \in 1 .. CtrLen /\ j + 1 - 1 = j
        /\ CtrLen - k = j + 1 /\ k \in 0 .. CtrLen /\ k + 1 \in 0 .. CtrLen
        /\ k + 1 \in 1 .. CtrLen /\ k + 1 - 1 = k
    OBVIOUS
  <2>2. rest[k] < Weight[j + 1]
    BY <1>2, <2>1
  <2> HIDE DEF j
  <2>3. Weight[j] \in Nat /\ Weight[j + 1] = Base * Weight[j]
    BY <2>1, Weights
  <2>4. rest[k + 1] = rest[k] \div Base
    BY <2>1 DEF IsTime
  <2>5. rest[k] \in Nat /\ rest[k + 1] \in Nat
    BY <2>1
  <2>6. rest[k] % Base \in Nat /\ Split(Base, rest[k], rest[k + 1], rest[k] % Base)
    BY <2>4, <2>5, Quotient
  <2>7. rest[k] < Base * Weight[j]
    BY <2>2, <2>3
  <2>8. rest[k + 1] < Weight[j]
    BY <2>3, <2>5, <2>6, <2>7, DigitsBelow
  <2>9. QED
    BY <2>8 DEF j
<1> HIDE DEF T
<1>3. Nat \subseteq T
  BY <1>1, <1>2, SetInduction
<1>4. rest[CtrLen] < Weight[0]
  <2>1. CtrLen - CtrLen = 0 /\ CtrLen \in T
    BY <1>3
  <2>2. QED
    BY <2>1 DEF T
<1>5. rest[CtrLen] \in Nat
  OBVIOUS
<1>6. QED
  BY <1>4, <1>5, Weights

LEMMA TimeApart ==
  ASSUME NEW t \in Nat, NEW u \in Nat, t < Weight[CtrLen], u < Weight[CtrLen],
         TimeToCtr(t) = TimeToCtr(u)
  PROVE  t = u
<1>0. Base \in Nat \ {0, 1} /\ CtrLen \in Nat \ {0}
  BY BotpAssumption
<1> USE <1>0
<1>1. PICK f \in [0 .. CtrLen -> Nat] : IsTime(t, f)
  BY TimeOctets
<1>2. PICK g \in [0 .. CtrLen -> Nat] : IsTime(u, g)
  BY TimeOctets
<1> DEFINE T == {j \in Nat : j <= CtrLen => f[CtrLen - j] = g[CtrLen - j]}
<1>3. 0 \in T
  <2>1. f[CtrLen] = 0 /\ g[CtrLen] = 0
    BY <1>1, <1>2, TimeBelow
  <2>2. QED
    BY <2>1
<1>4. ASSUME NEW j \in Nat, j \in T
      PROVE  j + 1 \in T
  <2> SUFFICES ASSUME j + 1 <= CtrLen
               PROVE  f[CtrLen - (j + 1)] = g[CtrLen - (j + 1)]
    OBVIOUS
  <2> DEFINE k == CtrLen - (j + 1)
  <2>1. /\ k \in 0 .. CtrLen /\ k + 1 \in 1 .. CtrLen /\ k + 1 - 1 = k
        /\ CtrLen - j = k + 1 /\ CtrLen - k \in 1 .. CtrLen
        /\ CtrLen - (CtrLen - k) = k
    OBVIOUS
  <2>2. f[k + 1] = g[k + 1]
    BY <1>4, <2>1
  <2> HIDE DEF k, T
  <2>3. f[k + 1] = f[k] \div Base /\ g[k + 1] = g[k] \div Base
    <3>1. /\ \A i \in 1 .. CtrLen : f[i] = f[i - 1] \div Base
          /\ \A i \in 1 .. CtrLen : g[i] = g[i - 1] \div Base
      BY <1>1, <1>2 DEF IsTime
    <3>2. PICK i \in 1 .. CtrLen : i = k + 1
      BY <2>1
    <3>3. i - 1 = k
      BY <2>1, <3>2
    <3>4. f[i] = f[i - 1] \div Base /\ g[i] = g[i - 1] \div Base
      BY <3>1, Zenon
    <3>5. QED
      BY <3>2, <3>3, <3>4, Zenon
  <2>4. f[k] % Base = g[k] % Base
    <3>1. /\ TimeToCtr(t)[CtrLen - k] = f[k] % Base
          /\ TimeToCtr(u)[CtrLen - k] = g[k] % Base
      BY <1>1, <1>2, <2>1 DEF IsTime
    <3>2. QED
      BY <3>1
  <2>5. f[k] \in Nat /\ g[k] \in Nat
    BY <2>1
  <2>6. /\ Split(Base, f[k], f[k] \div Base, f[k] % Base)
        /\ Split(Base, g[k], g[k] \div Base, g[k] % Base)
    BY <2>5, Quotient
  <2>7. f[k] = g[k]
    BY <2>2, <2>3, <2>4, <2>6 DEF Split
  <2>8. QED
    BY <2>7 DEF k
<1> HIDE DEF T
<1>5. Nat \subseteq T
  BY <1>3, <1>4, SetInduction
<1>6. f[0] = g[0]
  <2>1. CtrLen - CtrLen = 0 /\ CtrLen \in T
    BY <1>5
  <2>2. QED
    BY <2>1 DEF T
<1>7. QED
  BY <1>1, <1>2, <1>6 DEF IsTime

-----------------------------------------------------------------------------
(* One-time passwords.                                                     *)

(* What a password was made of, and the tuple a party makes of its parts.  *)
Of == [nth : Nat, q : Nat, p : Statics, s : Sessions, t : 0 .. MaxTime]

Otp(c, q, p, s, t) ==
  <<suite,
    IF suite.ctr_len # 0 THEN c ELSE <<>>,
    IF suite.q_max # 0 THEN q ELSE <<>>,
    IF suite.p_len # 0 THEN p ELSE <<>>,
    IF suite.s_len # 0 THEN s ELSE <<>>,
    IF suite.ts # 0 THEN TimeToCtr(t) ELSE <<>> >>

(* m was made of what it says, with the counter that was due.              *)
MadeOf(m) ==
  /\ m.of \in Of /\ m.of.nth < MaxMade
  /\ \E c \in Octets :
       /\ m.otp = Otp(c, m.of.q, m.of.p, m.of.s, m.of.t)
       /\ suite.ctr_len # 0 => Value(c) = Ahead(m.of.nth)

OtpTypes ==
  /\ TypeOK
  /\ taken \in Seq([of : Of, q : Nat, t : Nat])
  /\ server.p = TheStatic /\ server.s = TheSession

WireTells == \A m \in wire : MadeOf(m)

(* Between steps: the parties' states, the counters, the passwords on the  *)
(* wire.                                                                   *)
OtpInv == OtpTypes /\ CtrCounts /\ WireTells

LEMMA ValueBelow ==
  ASSUME NEW c \in Octets
  PROVE  Value(c) \in Nat /\ Value(c) < Weight[CtrLen]
<1>0. CtrLen \in Nat \ {0}
  BY BotpAssumption
<1>1. PICK v \in [1 .. CtrLen + 1 -> Nat] :
        /\ v[CtrLen + 1] = 0
        /\ \A i \in 1 .. CtrLen : v[i] = c[i] * Weight[CtrLen - i] + v[i + 1]
        /\ \A i \in 1 .. CtrLen + 1 : v[i] < Weight[CtrLen + 1 - i]
        /\ Value(c) = v[1]
  BY Values
<1>2. 1 \in 1 .. CtrLen + 1 /\ CtrLen + 1 - 1 = CtrLen
  BY <1>0
<1>3. v[1] < Weight[CtrLen] /\ v[1] \in Nat
  BY <1>1, <1>2
<1>4. QED
  BY <1>1, <1>3

(* The counter that is due after n passwords.                              *)
LEMMA AheadNext ==
  ASSUME first \in Octets, NEW n \in Nat
  PROVE  /\ Ahead(0) = Value(first)
         /\ Ahead(n + 1) = (Ahead(n) + 1) % Weight[CtrLen]
<1> DEFINE p == Weight[CtrLen]
           x == Value(first)
<1>1. p \in Nat \ {0}
  BY Weights, BotpAssumption
<1>2. x \in Nat /\ x < p
  BY ValueBelow
<1>3. Ahead(0) = (x + 0) % p /\ Ahead(n) = (x + n) % p /\ Ahead(n + 1) = (x + (n + 1)) % p
  BY DEF Ahead
<1> HIDE DEF p, x
<1>4. x + 0 = x /\ x + (n + 1) = x + n + 1 /\ x + n \in Nat
  BY <1>2
<1>5. x % p = x
  BY <1>1, <1>2, Small
<1>6. (((x + n) % p) + 1) % p = (x + n + 1) % p
  BY <1>1, <1>4, ModNext
<1>7. QED
  BY <1>3, <1>4, <1>5, <1>6 DEF p, x

(* Fewer passwords than values of a counter: no two have the same.         *)
LEMMA AheadApart ==
  ASSUME first \in Octets, NEW n \in Nat, NEW k \in Nat,
         n < Weight[CtrLen], k < Weight[CtrLen], Ahead(n) = Ahead(k)
  PROVE  n = k
<1>1. Weight[CtrLen] \in Nat \ {0}
  BY Weights, BotpAssumption
<1>2. Value(first) \in Nat
  BY ValueBelow
<1>3. (Value(first) + n) % Weight[CtrLen] = (Value(first) + k) % Weight[CtrLen]
  BY DEF Ahead
<1>4. QED
  BY <1>1, <1>2, <1>3, ModApart

LEMMA OtpStarts == Init => OtpInv
<1> SUFFICES ASSUME Init
             PROVE  OtpInv
  OBVIOUS
<1>1. suite \in Suites /\ first \in Octets
  BY DEF Init
<1>2. Empty \in State /\ Empty.p = TheStatic /\ Empty.s = TheSession
  BY BotpAssumption DEF Empty, State, Octets
<1>3. /\ token = Loaded(Empty, first, TheStatic, TheSession)
      /\ server = Loaded(Empty, first, TheStatic, TheSession)
      /\ asked = 1 /\ now = 0 /\ wire = {} /\ taken = <<>> /\ made = 0
  BY DEF Init
<1>4. /\ Loaded(Empty, first, TheStatic, TheSession) \in State
      /\ Loaded(Empty, first, TheStatic, TheSession).p = TheStatic
      /\ Loaded(Empty, first, TheStatic, TheSession).s = TheSession
      /\ suite.ctr_len # 0 =>
           Loaded(Empty, first, TheStatic, TheSession).ctr = first
  BY <1>1, <1>2, BotpAssumption DEF Loaded, State
<1>5. OtpTypes
  BY <1>1, <1>3, <1>4, BotpAssumption DEF OtpTypes, TypeOK
<1>6. CtrCounts
  <2>1. Ahead(0) = Value(first)
    BY <1>1, AheadNext
  <2>2. Len(taken) = 0
    BY <1>3
  <2>3. QED
    BY <1>3, <1>4, <2>1, <2>2 DEF CtrCounts
<1>7. WireTells
  BY <1>3 DEF WireTells
<1>8. QED
  BY <1>5, <1>6, <1>7 DEF OtpInv

(* The wire keeps telling as long as nothing is put on it.                 *)
LEMMA WireStays ==
  ASSUME WireTells, suite' = suite, first' = first, wire' = wire
  PROVE  WireTells'
BY DEF WireTells, MadeOf, Otp, Ahead

(* The state after a password: its counter counts on.                      *)
LEMMA SteppedRight ==
  ASSUME NEW st \in State
  PROVE  /\ Stepped(st) \in State
         /\ Stepped(st).p = st.p /\ Stepped(st).s = st.s
         /\ suite.ctr_len # 0 =>
              Value(Stepped(st).ctr) = (Value(st.ctr) + 1) % Weight[CtrLen]
<1>1. st.ctr \in Octets
  BY DEF State
<1>2. /\ CtrNext(st.ctr) \in Octets
      /\ Value(CtrNext(st.ctr)) = (Value(st.ctr) + 1) % Weight[CtrLen]
  BY <1>1, CtrNextCounts
<1>3. CASE suite.ctr_len # 0
  <2>1. Stepped(st) = [st EXCEPT !.ctr = CtrNext(st.ctr)]
    BY <1>3 DEF Stepped
  <2>2. Stepped(st).ctr = CtrNext(st.ctr)
    BY <2>1 DEF State
  <2>3. QED
    BY <1>2, <2>1, <2>2 DEF State
<1>4. CASE suite.ctr_len = 0
  BY <1>4 DEF Stepped
<1>5. QED
  BY <1>3, <1>4

LEMMA TokenStepSStep ==
  ASSUME OtpInv, NEW p \in Statics, NEW s \in Sessions, TokenStepS(p, s)
  PROVE  OtpInv'
<1>1. /\ token' = Loaded(token, token.ctr, p, s)
      /\ UNCHANGED <<suite, server, asked, now, wire, taken, first, made>>
  BY DEF TokenStepS
<1>2. token \in State
  BY DEF OtpInv, OtpTypes, TypeOK
<1>3. /\ Loaded(token, token.ctr, p, s) \in State
      /\ Loaded(token, token.ctr, p, s).ctr = token.ctr
  BY <1>2 DEF Loaded, State
<1>4. OtpTypes'
  BY <1>1, <1>3 DEF OtpInv, OtpTypes, TypeOK
<1>5. CtrCounts'
  BY <1>1, <1>3 DEF OtpInv, CtrCounts, Ahead
<1>6. WireTells'
  BY <1>1, WireStays DEF OtpInv
<1>7. QED
  BY <1>4, <1>5, <1>6 DEF OtpInv

LEMMA TokenStepRStep ==
  ASSUME OtpInv, NEW q \in 1 .. asked, TokenStepR(q)
  PROVE  OtpInv'
<1> DEFINE m == [otp |-> Hmac(token, q, now),
                 of |-> [nth |-> made, q |-> q, p |-> token.p, s |-> token.s,
                         t |-> now]]
<1>1. /\ made < MaxMade /\ made' = made + 1
      /\ wire' = wire \cup {m} /\ token' = Stepped(token)
      /\ UNCHANGED <<suite, server, asked, now, taken, first>>
  BY DEF TokenStepR
<1>2. /\ token \in State /\ made \in Nat /\ now \in 0 .. MaxTime
      /\ first \in Octets /\ asked \in Nat /\ q \in Nat /\ MaxMade \in Nat
  BY BotpAssumption DEF OtpInv, OtpTypes, TypeOK
<1>3. OtpTypes'
  <2>1. Stepped(token) \in State
    BY <1>2, SteppedRight
  <2>2. made + 1 \in 0 .. MaxMade
    BY <1>1, <1>2
  <2>3. QED
    BY <1>1, <2>1, <2>2 DEF OtpInv, OtpTypes, TypeOK
<1>4. CtrCounts'
  <2>1. Ahead(made + 1) = (Ahead(made) + 1) % Weight[CtrLen]
    BY <1>2, AheadNext
  <2>2. suite.ctr_len # 0 =>
          Value(Stepped(token).ctr) = (Value(token.ctr) + 1) % Weight[CtrLen]
    BY <1>2, SteppedRight
  <2>3. suite.ctr_len # 0 => /\ Value(Stepped(token).ctr) = Ahead(made + 1)
                             /\ Value(server.ctr) = Ahead(Len(taken))
    BY <2>1, <2>2 DEF OtpInv, CtrCounts
  <2>4. QED
    BY <1>1, <2>3 DEF CtrCounts, Ahead
<1>5. WireTells'
  <2>1. m.of \in Of /\ m.of.nth < MaxMade
    BY <1>1, <1>2 DEF Of, State
  <2>2. m.otp = Otp(token.ctr, m.of.q, m.of.p, m.of.s, m.of.t)
    BY DEF Hmac, Otp
  <2>3. suite.ctr_len # 0 => Value(token.ctr) = Ahead(m.of.nth)
    BY DEF OtpInv, CtrCounts
  <2>4. token.ctr \in Octets
    BY <1>2 DEF State
  <2> HIDE DEF m
  <2>5. MadeOf(m)
    BY <2>1, <2>2, <2>3, <2>4 DEF MadeOf
  <2>6. \A x : MadeOf(x) => MadeOf(x)'
    BY <1>1 DEF MadeOf, Otp, Ahead
  <2>7. ASSUME NEW x \in wire \cup {m}
        PROVE  MadeOf(x)'
    BY <2>5, <2>6 DEF OtpInv, WireTells
  <2>8. QED
    BY <1>1, <2>7 DEF WireTells
<1>6. QED
  BY <1>3, <1>4, <1>5 DEF OtpInv

(* What the server is given was made by the token, or is no password.      *)
Given(otp, of) ==
  otp = <<>> \/ \E m \in wire : otp = m.otp /\ of = m.of

(* A password the server accepts is one on the wire.                       *)
LEMMA AcceptedGiven ==
  ASSUME WireTells, NEW otp, NEW of, Given(otp, of),
         NEW st, NEW q, NEW t, otp = Hmac(st, q, t)
  PROVE  MadeOf([otp |-> otp, of |-> of])
<1>1. otp # <<>>
  BY DEF Hmac
<1>2. PICK m \in wire : otp = m.otp /\ of = m.of
  BY <1>1 DEF Given
<1>3. MadeOf(m)
  BY <1>2 DEF WireTells
<1>4. QED
  BY <1>2, <1>3 DEF MadeOf

LEMMA ServerStepVStep ==
  ASSUME OtpInv, NEW otp, NEW of, Given(otp, of), ServerStepV(otp, of)
  PROVE  OtpInv'
<1> DEFINE st == [server EXCEPT !.ctr1 = server.ctr]
<1>1. /\ Len(taken) < MaxTaken
      /\ UNCHANGED <<suite, token, asked, now, wire, first, made>>
  BY DEF ServerStepV
<1>2. /\ server \in State /\ first \in Octets /\ asked \in Nat /\ now \in Nat
      /\ taken \in Seq([of : Of, q : Nat, t : Nat]) /\ MaxTaken \in Nat
      /\ server.p = TheStatic /\ server.s = TheSession
  BY BotpAssumption DEF OtpInv, OtpTypes, TypeOK
<1>3. st \in State /\ st.ctr = server.ctr /\ st.ctr1 = server.ctr
      /\ st.p = TheStatic /\ st.s = TheSession
  BY <1>2 DEF State
<1>4. Stepped(st) \in State /\ Stepped(st).p = TheStatic /\ Stepped(st).s = TheSession
  BY <1>3, SteppedRight
<1>5. WireTells'
  BY <1>1, WireStays DEF OtpInv
<1>6. CASE otp = Hmac(st, asked, now)
  <2>1. /\ server' = Stepped(st)
        /\ taken' = Append(taken, [of |-> of, q |-> asked, t |-> now])
    BY <1>6 DEF ServerStepV
  <2>2. of \in Of
    <3>1. MadeOf([otp |-> otp, of |-> of])
      BY <1>6, AcceptedGiven DEF OtpInv
    <3>2. QED
      BY <3>1 DEF MadeOf
  <2>3. /\ taken' \in Seq([of : Of, q : Nat, t : Nat])
        /\ Len(taken') = Len(taken) + 1
    BY <1>2, <2>1, <2>2
  <2>4. OtpTypes'
    BY <1>1, <1>2, <1>4, <2>1, <2>3 DEF OtpInv, OtpTypes, TypeOK
  <2>5. CtrCounts'
    <3>1. Len(taken) \in Nat
      BY <1>2
    <3>2. Ahead(Len(taken) + 1) = (Ahead(Len(taken)) + 1) % Weight[CtrLen]
      BY <1>2, <3>1, AheadNext
    <3>3. suite.ctr_len # 0 =>
            Value(Stepped(st).ctr) = (Value(server.ctr) + 1) % Weight[CtrLen]
      BY <1>3, SteppedRight
    <3>4. suite.ctr_len # 0 =>
            /\ Value(Stepped(st).ctr) = Ahead(Len(taken) + 1)
            /\ Value(token.ctr) = Ahead(made)
      BY <3>2, <3>3 DEF OtpInv, CtrCounts
    <3>5. QED
      BY <1>1, <2>1, <2>3, <3>4 DEF CtrCounts, Ahead
  <2>6. QED
    BY <1>5, <2>4, <2>5 DEF OtpInv
<1>7. CASE otp # Hmac(st, asked, now)
  <2>1. /\ server' = [Stepped(st) EXCEPT !.ctr = st.ctr1]
        /\ taken' = taken
    BY <1>7 DEF ServerStepV
  <2>2. /\ server' \in State /\ server'.ctr = server.ctr
        /\ server'.p = TheStatic /\ server'.s = TheSession
    <3> HIDE DEF st
    <3>1. server.ctr \in Octets
      BY <1>2 DEF State
    <3>2. QED
      BY <1>3, <1>4, <2>1, <3>1 DEF State
  <2>3. OtpTypes'
    BY <1>1, <2>1, <2>2 DEF OtpInv, OtpTypes, TypeOK
  <2>4. CtrCounts'
    BY <1>1, <2>1, <2>2 DEF OtpInv, CtrCounts, Ahead
  <2>5. QED
    BY <1>5, <2>3, <2>4 DEF OtpInv
<1>8. QED
  BY <1>6, <1>7

(* The counters of both parties count, whatever is lost, late or refused,  *)
(* past every carry and the highest value.                                 *)
THEOREM OtpInductive == MCSpec => []OtpInv
<1>1. MCInit => OtpInv
  BY OtpStarts DEF MCInit
<1>2. OtpInv /\ [MCNext]_all => OtpInv'
  <2> SUFFICES ASSUME OtpInv, [MCNext]_all
               PROVE  OtpInv'
    OBVIOUS
  <2>1. CASE UNCHANGED vars
    <3>1. UNCHANGED <<suite, token, server, asked, now, wire, taken, first, made>>
      BY <2>1 DEF vars
    <3>2. WireTells'
      BY <3>1, WireStays DEF OtpInv
    <3>3. QED
      BY <3>1, <3>2 DEF OtpInv, OtpTypes, TypeOK, CtrCounts, Ahead
  <2>2. CASE Next
    <3>1. ASSUME NEW p \in Statics, NEW s \in Sessions, TokenStepS(p, s)
          PROVE  OtpInv'
      BY <3>1, TokenStepSStep
    <3>2. ASSUME NEW q \in 1 .. asked, TokenStepR(q)
          PROVE  OtpInv'
      BY <3>2, TokenStepRStep
    <3>3. CASE ServerVerifies
      <4>1. PICK m \in wire : ServerStepV(m.otp, m.of)
        BY <3>3 DEF ServerVerifies
      <4>2. Given(m.otp, m.of)
        BY DEF Given
      <4>3. QED
        BY <4>1, <4>2, ServerStepVStep
    <3>4. CASE ServerRefuses
      <4>1. Given(<<>>, <<>>)
        BY DEF Given
      <4>2. QED
        BY <3>4, <4>1, ServerStepVStep DEF ServerRefuses
    <3>5. CASE Ask
      <4>1. /\ asked < MaxAsked /\ asked' = asked + 1
            /\ UNCHANGED <<suite, token, server, now, wire, taken, first, made>>
        BY <3>5 DEF Ask
      <4>2. WireTells'
        BY <4>1, WireStays DEF OtpInv
      <4>3. asked' \in 1 .. MaxAsked
        BY <4>1, BotpAssumption DEF OtpInv, OtpTypes, TypeOK
      <4>4. QED
        BY <4>1, <4>2, <4>3 DEF OtpInv, OtpTypes, TypeOK, CtrCounts, Ahead
    <3>6. CASE Tick
      <4>1. /\ now < MaxTime /\ now' = now + 1
            /\ UNCHANGED <<suite, token, server, asked, wire, taken, first, made>>
        BY <3>6 DEF Tick
      <4>2. WireTells'
        BY <4>1, WireStays DEF OtpInv
      <4>3. now' \in 0 .. MaxTime
        BY <4>1, BotpAssumption DEF OtpInv, OtpTypes, TypeOK
      <4>4. QED
        BY <4>1, <4>2, <4>3 DEF OtpInv, OtpTypes, TypeOK, CtrCounts, Ahead
    <3>7. QED
      BY <2>2, <3>1, <3>2, <3>3, <3>4, <3>5, <3>6 DEF Next
  <2>3. UNCHANGED vars \/ Next
    BY DEF MCNext, all
  <2>4. QED
    BY <2>1, <2>2, <2>3
<1>3. QED
  BY <1>1, <1>2, PTL DEF MCSpec

(* A counter and a mark of time have room for what is counted: they are 8  *)
(* octets in botp.c, and do not begin again.                               *)
NoWrap ==
  /\ MaxMade <= Weight[CtrLen] /\ MaxTaken <= Weight[CtrLen]
  /\ MaxTime < Weight[CtrLen]

LEMMA AcceptedStep ==
  ASSUME NoWrap, OtpInv, Accepted, NEW otp, NEW of, Given(otp, of),
         ServerStepV(otp, of)
  PROVE  Accepted'
<1> DEFINE st == [server EXCEPT !.ctr1 = server.ctr]
           a == [of |-> of, q |-> asked, t |-> now]
<1>1. suite' = suite /\ Len(taken) < MaxTaken
  BY DEF ServerStepV
<1>2. /\ server \in State /\ first \in Octets /\ now \in 0 .. MaxTime
      /\ taken \in Seq([of : Of, q : Nat, t : Nat])
      /\ server.p = TheStatic /\ server.s = TheSession
      /\ MaxTaken \in Nat /\ MaxMade \in Nat /\ MaxTime \in Nat
  BY BotpAssumption DEF OtpInv, OtpTypes, TypeOK
<1>3. st.ctr = server.ctr /\ st.p = TheStatic /\ st.s = TheSession
  BY <1>2 DEF State
<1>4. Weight[CtrLen] \in Nat
  BY Weights, BotpAssumption
<1>5. CASE otp = Hmac(st, asked, now)
  <2>1. taken' = Append(taken, a)
    BY <1>5 DEF ServerStepV
  <2>2. otp = Otp(server.ctr, asked, TheStatic, TheSession, now)
    BY <1>3, <1>5 DEF Hmac, Otp
  <2>3. MadeOf([otp |-> otp, of |-> of])
    BY <1>5, AcceptedGiven DEF OtpInv
  <2>4. PICK c \in Octets :
          /\ otp = Otp(c, of.q, of.p, of.s, of.t)
          /\ suite.ctr_len # 0 => Value(c) = Ahead(of.nth)
    BY <2>3 DEF MadeOf
  <2>5. of.nth \in Nat /\ of.nth < MaxMade /\ of.t \in 0 .. MaxTime
    BY <2>3 DEF MadeOf, Of
  <2>6. /\ suite.ctr_len # 0 => c = server.ctr
        /\ suite.q_max # 0 => of.q = asked
        /\ suite.p_len # 0 => of.p = TheStatic
        /\ suite.s_len # 0 => of.s = TheSession
        /\ suite.ts # 0 => TimeToCtr(of.t) = TimeToCtr(now)
    <3>1. Otp(c, of.q, of.p, of.s, of.t)
            = Otp(server.ctr, asked, TheStatic, TheSession, now)
      BY <2>2, <2>4
    <3>2. QED
      BY <3>1 DEF Otp
  <2>7. suite.ctr_len # 0 => of.nth = Len(taken)
    <3>1. ASSUME suite.ctr_len # 0
          PROVE  of.nth = Len(taken)
      <4>1. Ahead(of.nth) = Ahead(Len(taken))
        BY <2>4, <2>6, <3>1 DEF OtpInv, CtrCounts
      <4>2. /\ Len(taken) \in Nat /\ Len(taken) < Weight[CtrLen]
            /\ of.nth < Weight[CtrLen]
        BY <1>1, <1>2, <1>4, <2>5 DEF NoWrap
      <4>3. QED
        BY <1>2, <2>5, <4>1, <4>2, AheadApart
    <3>2. QED
      BY <3>1
  <2>8. suite.ts # 0 => of.t = now
    <3>1. ASSUME suite.ts # 0
          PROVE  of.t = now
      <4>1. /\ of.t \in Nat /\ now \in Nat
            /\ of.t < Weight[CtrLen] /\ now < Weight[CtrLen]
        BY <1>2, <1>4, <2>5 DEF NoWrap
      <4>2. QED
        BY <2>6, <3>1, <4>1, TimeApart
    <3>2. QED
      BY <3>1
  <2>9. Len(taken') = Len(taken) + 1 /\ Len(taken) \in Nat
    BY <1>2, <2>1
  <2>10. ASSUME NEW i \in 1 .. Len(taken')
         PROVE  LET b == taken'[i]
                IN /\ suite.ctr_len # 0 => b.of.nth = i - 1
                   /\ suite.q_max # 0 => b.of.q = b.q
                   /\ suite.ts # 0 => b.of.t = b.t
                   /\ suite.p_len # 0 => b.of.p = TheStatic
                   /\ suite.s_len # 0 => b.of.s = TheSession
    <3>1. CASE i \in 1 .. Len(taken)
      <4>1. taken'[i] = taken[i]
        BY <1>2, <2>1, <3>1
      <4>2. QED
        BY <3>1, <4>1 DEF Accepted
    <3>2. CASE i = Len(taken) + 1
      <4>1. taken'[i] = a /\ i - 1 = Len(taken)
        BY <1>2, <2>1, <2>9, <3>2
      <4>2. a.of = of /\ a.q = asked /\ a.t = now
        OBVIOUS
      <4> HIDE DEF a
      <4>3. QED
        BY <2>6, <2>7, <2>8, <4>1, <4>2
    <3>3. QED
      BY <2>9, <3>1, <3>2
  <2>11. QED
    BY <1>1, <2>10 DEF Accepted
<1>6. CASE otp # Hmac(st, asked, now)
  <2>1. taken' = taken
    BY <1>6 DEF ServerStepV
  <2>2. QED
    BY <1>1, <2>1 DEF Accepted
<1>7. QED
  BY <1>5, <1>6

(* The server accepts the password that is due, for what it was made for.  *)
THEOREM OtpRightCorrect ==
  ASSUME NoWrap
  PROVE  MCSpec => []OtpRight
<1>1. MCInit => Accepted
  <2>1. MCInit => taken = <<>>
    BY DEF MCInit, Init
  <2>2. QED
    BY <2>1 DEF Accepted
<1>2. OtpInv /\ Accepted /\ [MCNext]_all => Accepted'
  <2> SUFFICES ASSUME OtpInv, Accepted, [MCNext]_all
               PROVE  Accepted'
    OBVIOUS
  <2>1. CASE suite' = suite /\ taken' = taken
    BY <2>1 DEF Accepted
  <2>2. CASE ServerVerifies
    <3>1. PICK m \in wire : ServerStepV(m.otp, m.of)
      BY <2>2 DEF ServerVerifies
    <3>2. Given(m.otp, m.of)
      BY DEF Given
    <3>3. QED
      BY <3>1, <3>2, AcceptedStep
  <2>3. CASE ServerRefuses
    <3>1. Given(<<>>, <<>>)
      BY DEF Given
    <3>2. QED
      BY <2>3, <3>1, AcceptedStep DEF ServerRefuses
  <2>4. (suite' = suite /\ taken' = taken) \/ ServerVerifies \/ ServerRefuses
    <3>1. UNCHANGED vars \/ Next
      BY DEF MCNext, all
    <3>2. QED
      BY <3>1 DEF Next, vars, TokenStepS, TokenStepR, Ask, Tick
  <2>5. QED
    BY <2>1, <2>2, <2>3, <2>4
<1>3. MCSpec => []OtpInv
  BY OtpInductive
<1>4. OtpInv /\ Accepted => OtpRight
  BY DEF OtpInv, OtpTypes, OtpRight
<1>5. QED
  BY <1>1, <1>2, <1>3, <1>4, PTL DEF MCSpec

-----------------------------------------------------------------------------
(* Secure messaging: the counters as numbers.                              *)

SmWeight[k \in 0 .. CtrDigits] == IF k = 0 THEN 1 ELSE CtrBase * SmWeight[k - 1]

Num(c) ==
  LET s[k \in 0 .. CtrDigits] ==
        IF k = 0 THEN 0 ELSE s[k - 1] + c[k - 1] * SmWeight[k - 1]
  IN s[CtrDigits]

LEMMA SmConstants ==
  /\ CtrBase \in Nat \ {0, 1} /\ CtrDigits \in Nat \ {0} /\ MaxSends \in Nat
  /\ \E h \in Nat : CtrBase = 2 * h
<1>1. CtrBase \in Nat \ {0} /\ CtrBase % 2 = 0
  BY SmAssumption
<1>2. Split(2, CtrBase, CtrBase \div 2, CtrBase % 2) /\ CtrBase \div 2 \in Nat
  BY <1>1, Quotient
<1>3. CtrBase = 2 * (CtrBase \div 2)
  BY <1>1, <1>2 DEF Split
<1>4. QED
  BY <1>1, <1>2, <1>3, SmAssumption

LEMMA SmWeights ==
  /\ SmWeight[0] = 1
  /\ \A k \in 1 .. CtrDigits : SmWeight[k] = CtrBase * SmWeight[k - 1]
  /\ \A k \in 0 .. CtrDigits : SmWeight[k] \in Nat \ {0}
<1>0. CtrBase \in Nat \ {0, 1} /\ CtrDigits \in Nat \ {0}
  BY SmConstants
<1> USE <1>0
<1> DEFINE step == [i \in Nat |-> [x \in Nat |-> CtrBase * x]]
           IsWeight(f) ==
             f = [k \in 0 .. CtrDigits |-> IF k = 0 THEN 1 ELSE CtrBase * f[k - 1]]
<1>1. step \in [Nat -> [Nat -> Nat]]
  OBVIOUS
<1>2. PICK f \in [0 .. CtrDigits -> Nat] : Made(f, CtrDigits, 1, step)
  <2> HIDE DEF step
  <2>1. QED
    BY <1>1, Iterated
<1>3. IsWeight(f)
  <2>1. ASSUME NEW k \in 0 .. CtrDigits
        PROVE  f[k] = IF k = 0 THEN 1 ELSE CtrBase * f[k - 1]
    <3>1. CASE k = 0
      BY <1>2, <3>1 DEF Made
    <3>2. CASE k # 0
      <4>1. k \in 1 .. CtrDigits /\ k - 1 \in 0 .. CtrDigits
        BY <3>2
      <4>2. f[k - 1] \in Nat /\ k - 1 \in Nat
        BY <4>1
      <4>3. f[k] = step[k - 1][f[k - 1]]
        <5> HIDE DEF step
        <5>1. QED
          BY <1>2, <4>1 DEF Made
      <4>4. QED
        BY <3>2, <4>2, <4>3
    <3>3. QED
      BY <3>1, <3>2
  <2>2. QED
    BY <2>1
<1>4. IsWeight(SmWeight)
  BY <1>3 DEF SmWeight
<1>5. /\ SmWeight[0] = 1
      /\ \A k \in 1 .. CtrDigits : SmWeight[k] = CtrBase * SmWeight[k - 1]
  BY <1>4
<1> HIDE DEF step, IsWeight
<1> DEFINE T == {k \in Nat : k <= CtrDigits => SmWeight[k] \in Nat \ {0}}
<1>6. 0 \in T
  BY <1>5
<1>7. ASSUME NEW k \in Nat, k \in T
      PROVE  k + 1 \in T
  <2>1. CASE k + 1 <= CtrDigits
    <3>1. SmWeight[k] \in Nat \ {0} /\ SmWeight[k + 1] = CtrBase * SmWeight[k]
      BY <1>5, <1>7, <2>1
    <3>2. QED
      BY <3>1
  <2>2. QED
    BY <2>1
<1> HIDE DEF T
<1>8. Nat \subseteq T
  BY <1>6, <1>7, SetInduction
<1>9. QED
  BY <1>5, <1>8 DEF T

(* The number of a counter is summed up from its first digit.              *)
IsNum(c, s) ==
  /\ s[0] = 0
  /\ \A k \in 1 .. CtrDigits : s[k] = s[k - 1] + c[k - 1] * SmWeight[k - 1]
  /\ Num(c) = s[CtrDigits]

LEMMA SmNums ==
  ASSUME NEW c \in SM!Ctrs
  PROVE  \E s \in [0 .. CtrDigits -> Nat] : IsNum(c, s)
<1>0. CtrBase \in Nat \ {0, 1} /\ CtrDigits \in Nat \ {0}
  BY SmConstants
<1> USE <1>0
<1> DEFINE step ==
             [k \in Nat |-> [x \in Nat |->
                IF k < CtrDigits THEN x + c[k] * SmWeight[k] ELSE 0]]
           IsSum(f) ==
             f = [k \in 0 .. CtrDigits |->
                    IF k = 0 THEN 0 ELSE f[k - 1] + c[k - 1] * SmWeight[k - 1]]
<1>1. step \in [Nat -> [Nat -> Nat]]
  <2>1. ASSUME NEW k \in Nat, NEW x \in Nat, k < CtrDigits
        PROVE  x + c[k] * SmWeight[k] \in Nat
    <3>1. c[k] \in Nat
      BY <2>1 DEF SM!Ctrs, SM!Digits
    <3>2. SmWeight[k] \in Nat
      BY <2>1, SmWeights
    <3>3. QED
      BY <3>1, <3>2
  <2>2. QED
    BY <2>1
<1>2. PICK f \in [0 .. CtrDigits -> Nat] : Made(f, CtrDigits, 0, step)
  <2> HIDE DEF step
  <2>1. QED
    BY <1>1, Iterated
<1>3. IsSum(f)
  <2>1. ASSUME NEW k \in 0 .. CtrDigits
        PROVE  f[k] = IF k = 0 THEN 0
                      ELSE f[k - 1] + c[k - 1] * SmWeight[k - 1]
    <3>1. CASE k = 0
      BY <1>2, <3>1 DEF Made
    <3>2. CASE k # 0
      <4>1. k \in 1 .. CtrDigits /\ k - 1 \in 0 .. CtrDigits /\ k - 1 < CtrDigits
        BY <3>2
      <4>2. f[k - 1] \in Nat /\ k - 1 \in Nat
        BY <4>1
      <4>3. f[k] = step[k - 1][f[k - 1]]
        <5> HIDE DEF step
        <5>1. QED
          BY <1>2, <4>1 DEF Made
      <4>4. step[k - 1][f[k - 1]] = f[k - 1] + c[k - 1] * SmWeight[k - 1]
        BY <4>1, <4>2
      <4> HIDE DEF step
      <4>5. QED
        BY <3>2, <4>3, <4>4
    <3>3. QED
      BY <3>1, <3>2
  <2>2. QED
    BY <2>1
<1> DEFINE s == CHOOSE g : IsSum(g)
<1>4. IsSum(s)
  BY <1>3
<1>5. Num(c) = s[CtrDigits]
  BY DEF Num
<1> HIDE DEF s, step
<1>6. s = [k \in 0 .. CtrDigits |-> s[k]]
  BY <1>4
<1>7. /\ s[0] = 0
      /\ \A k \in 1 .. CtrDigits : s[k] = s[k - 1] + c[k - 1] * SmWeight[k - 1]
  BY <1>4
<1> HIDE DEF IsSum
<1>8. IsNum(c, s)
  BY <1>5, <1>7 DEF IsNum
<1> DEFINE T == {k \in Nat : k <= CtrDigits => s[k] \in Nat}
<1>9. 0 \in T
  BY <1>7
<1>10. ASSUME NEW k \in Nat, k \in T
       PROVE  k + 1 \in T
  <2>1. ASSUME k + 1 <= CtrDigits
        PROVE  s[k + 1] \in Nat
    <3>1. s[k] \in Nat /\ k + 1 \in 1 .. CtrDigits /\ k + 1 - 1 = k /\ k < CtrDigits
      BY <1>10, <2>1
    <3>2. c[k] \in Nat
      BY <3>1 DEF SM!Ctrs, SM!Digits
    <3>3. SmWeight[k] \in Nat
      BY <3>1, SmWeights
    <3>4. s[k + 1] = s[k] + c[k] * SmWeight[k]
      BY <1>7, <3>1
    <3>5. c[k] * SmWeight[k] \in Nat
      BY <3>2, <3>3
    <3>6. QED
      BY <3>1, <3>4, <3>5
  <2>2. QED
    BY <2>1
<1> HIDE DEF T
<1>11. Nat \subseteq T
  BY <1>9, <1>10, SetInduction
<1>12. \A k \in 0 .. CtrDigits : s[k] \in Nat
  BY <1>11 DEF T
<1>13. QED
  BY <1>6, <1>8, <1>12

(* What one more does to the sum of the first digits: x and y are the sums *)
(* before and after it, p and q what the digit was and is, w its weight.   *)
Grown(b, x, y, p, q, w, x1, y1) ==
  /\ {b, x, y, p, q, w} \subseteq Nat
  /\ x1 = x + p * w /\ y1 = y + q * w

Carry(b, x, y, p, q, w, x1, y1) ==
  /\ p = q /\ y = x + 1 => y1 = x1 + 1
  /\ x = w - 1 /\ y = 0 /\ q = p + 1 => y1 = x1 + 1
  /\ x = w - 1 /\ y = 0 /\ p = b - 1 /\ q = 0 => x1 = b * w - 1 /\ y1 = 0

LEMMA SmDigit ==
  ASSUME NEW b, NEW x, NEW y, NEW p, NEW q, NEW w, NEW x1, NEW y1,
         Grown(b, x, y, p, q, w, x1, y1)
  PROVE  Carry(b, x, y, p, q, w, x1, y1)
<1> USE DEF Grown, Carry
<1>1. /\ b \in Nat /\ x \in Nat /\ y \in Nat /\ p \in Nat /\ q \in Nat
      /\ w \in Nat
  OBVIOUS
<1>2. ASSUME p = q, y = x + 1
      PROVE  y1 = x1 + 1
  BY <1>1, <1>2
<1>3. ASSUME x = w - 1, y = 0, q = p + 1
      PROVE  y1 = x1 + 1
  <2>1. (p + 1) * w = p * w + w
    BY <1>1
  <2>2. QED
    BY <1>1, <1>3, <2>1
<1>4. ASSUME x = w - 1, y = 0, p = b - 1, q = 0
      PROVE  x1 = b * w - 1 /\ y1 = 0
  <2>1. (b - 1) * w = b * w - w
    BY <1>1
  <2>2. QED
    BY <1>1, <1>4, <2>1
<1>5. QED
  BY <1>2, <1>3, <1>4

(* btokSMCtrInc() makes a counter of a counter, odd ones of even ones and  *)
(* even ones of odd ones, and adds one as long as there is room.           *)
LEMMA CtrIncCounts ==
  ASSUME NEW c \in SM!Ctrs
  PROVE  /\ SM!CtrInc(c) \in SM!Ctrs
         /\ Num(c) \in Nat
         /\ Num(c) + 1 < SmWeight[CtrDigits] => Num(SM!CtrInc(c)) = Num(c) + 1
<1>0. CtrBase \in Nat \ {0, 1} /\ CtrDigits \in Nat \ {0}
  BY SmConstants
<1> USE <1>0
<1> DEFINE d == SM!CtrInc(c)
           Filled(k) == \A j \in 0 .. k - 1 : c[j] = CtrBase - 1
<1>1. \A i \in 0 .. CtrDigits - 1 :
        /\ c[i] \in 0 .. CtrBase - 1
        /\ d[i] = IF Filled(i) THEN (c[i] + 1) % CtrBase ELSE c[i]
  BY DEF SM!Ctrs, SM!Digits, SM!CtrInc
<1>2. ASSUME NEW i \in 0 .. CtrDigits - 1
      PROVE  /\ d[i] \in 0 .. CtrBase - 1
             /\ Filled(i) /\ c[i] = CtrBase - 1 => d[i] = 0
             /\ Filled(i) /\ c[i] # CtrBase - 1 => d[i] = c[i] + 1
             /\ ~ Filled(i) => d[i] = c[i]
  <2>1. c[i] = CtrBase - 1 => (c[i] + 1) % CtrBase = 0
    OBVIOUS
  <2>2. c[i] # CtrBase - 1 => (c[i] + 1) % CtrBase = c[i] + 1
    <3>1. ASSUME c[i] # CtrBase - 1
          PROVE  c[i] + 1 \in 0 .. CtrBase - 1
      BY <1>1, <3>1
    <3>2. QED
      BY <3>1, Small
  <2> HIDE DEF d, Filled
  <2>3. QED
    BY <1>1, <2>1, <2>2
<1>3. d = [i \in 0 .. CtrDigits - 1 |-> d[i]]
  BY DEF SM!CtrInc, SM!Digits
<1> HIDE DEF d
<1>4. d \in SM!Ctrs
  BY <1>2, <1>3 DEF SM!Ctrs, SM!Digits
<1>5. PICK s \in [0 .. CtrDigits -> Nat] : IsNum(c, s)
  BY SmNums
<1>6. PICK t \in [0 .. CtrDigits -> Nat] : IsNum(d, t)
  BY <1>4, SmNums
<1> DEFINE T == {k \in Nat : k <= CtrDigits =>
                   IF Filled(k) THEN s[k] = SmWeight[k] - 1 /\ t[k] = 0
                   ELSE t[k] = s[k] + 1}
<1>7. 0 \in T
  <2>1. Filled(0) /\ s[0] = 0 /\ t[0] = 0 /\ SmWeight[0] = 1
    BY <1>5, <1>6, SmWeights DEF IsNum
  <2>2. QED
    BY <2>1
<1>8. ASSUME NEW k \in Nat, k \in T
      PROVE  k + 1 \in T
  <2> SUFFICES ASSUME k + 1 <= CtrDigits
               PROVE  IF Filled(k + 1)
                      THEN s[k + 1] = SmWeight[k + 1] - 1 /\ t[k + 1] = 0
                      ELSE t[k + 1] = s[k + 1] + 1
    OBVIOUS
  <2>1. /\ k \in 0 .. CtrDigits /\ k + 1 \in 1 .. CtrDigits /\ k + 1 - 1 = k
        /\ k \in 0 .. CtrDigits - 1 /\ k + 1 \in 0 .. CtrDigits
    OBVIOUS
  <2>2. IF Filled(k) THEN s[k] = SmWeight[k] - 1 /\ t[k] = 0 ELSE t[k] = s[k] + 1
    BY <1>8, <2>1
  <2>3. Filled(k + 1) <=> Filled(k) /\ c[k] = CtrBase - 1
    <3>1. 0 .. k + 1 - 1 = (0 .. k - 1) \cup {k}
      OBVIOUS
    <3>2. QED
      BY <3>1
  <2> HIDE DEF Filled, T
  <2>4. Grown(CtrBase, s[k], t[k], c[k], d[k], SmWeight[k], s[k + 1], t[k + 1])
    <3>1. /\ s[k] \in Nat /\ t[k] \in Nat /\ c[k] \in Nat /\ d[k] \in Nat
          /\ SmWeight[k] \in Nat
      BY <1>1, <1>2, <2>1, SmWeights
    <3>2. /\ s[k + 1] = s[k] + c[k] * SmWeight[k]
          /\ t[k + 1] = t[k] + d[k] * SmWeight[k]
      BY <1>5, <1>6, <2>1 DEF IsNum
    <3>3. QED
      BY <3>1, <3>2 DEF Grown
  <2>5. Carry(CtrBase, s[k], t[k], c[k], d[k], SmWeight[k], s[k + 1], t[k + 1])
    BY <2>4, SmDigit
  <2>6. SmWeight[k + 1] = CtrBase * SmWeight[k]
    BY <2>1, SmWeights
  <2>7. /\ Filled(k) /\ c[k] = CtrBase - 1 => d[k] = 0
        /\ Filled(k) /\ c[k] # CtrBase - 1 => d[k] = c[k] + 1
        /\ ~ Filled(k) => d[k] = c[k]
    BY <1>2, <2>1
  <2>8. CASE Filled(k) /\ c[k] = CtrBase - 1
    BY <2>2, <2>3, <2>5, <2>6, <2>7, <2>8 DEF Carry
  <2>9. CASE Filled(k) /\ c[k] # CtrBase - 1
    BY <2>2, <2>3, <2>5, <2>7, <2>9 DEF Carry
  <2>10. CASE ~ Filled(k)
    BY <2>2, <2>3, <2>5, <2>7, <2>10 DEF Carry
  <2>11. QED
    BY <2>8, <2>9, <2>10
<1> HIDE DEF T
<1>9. Nat \subseteq T
  BY <1>7, <1>8, SetInduction
<1>10. IF Filled(CtrDigits)
       THEN s[CtrDigits] = SmWeight[CtrDigits] - 1 /\ t[CtrDigits] = 0
       ELSE t[CtrDigits] = s[CtrDigits] + 1
  <2>1. CtrDigits \in T
    BY <1>9
  <2>2. QED
    BY <2>1 DEF T
<1> HIDE DEF Full
<1>11. Num(c) = s[CtrDigits] /\ Num(d) = t[CtrDigits] /\ s[CtrDigits] \in Nat
  BY <1>5, <1>6 DEF IsNum
<1>12. SmWeight[CtrDigits] \in Nat
  BY SmWeights
<1>13. Num(c) + 1 < SmWeight[CtrDigits] => Num(d) = Num(c) + 1
  BY <1>10, <1>11, <1>12
<1>14. QED
  BY <1>4, <1>11, <1>13 DEF d

LEMMA CtrIncParity ==
  ASSUME NEW c \in SM!Ctrs
  PROVE  /\ c[0] \in Nat /\ c[0] % 2 \in {0, 1}
         /\ c[0] % 2 = 0 => SM!CtrInc(c)[0] % 2 = 1
         /\ c[0] % 2 = 1 => SM!CtrInc(c)[0] % 2 = 0
<1>0. CtrBase \in Nat \ {0, 1} /\ CtrDigits \in Nat \ {0}
  BY SmConstants
<1>1. PICK h \in Nat : CtrBase = 2 * h
  BY SmConstants
<1>2. /\ 0 \in 0 .. CtrDigits - 1 /\ c[0] \in 0 .. CtrBase - 1
      /\ SM!CtrInc(c)[0] = (c[0] + 1) % CtrBase
  BY <1>0 DEF SM!Ctrs, SM!Digits, SM!CtrInc
<1> DEFINE x == c[0]
<1>3. x \in Nat /\ x < 2 * h /\ SM!CtrInc(c)[0] = (x + 1) % CtrBase
  BY <1>0, <1>1, <1>2
<1> HIDE DEF x
<1>4. x % 2 \in {0, 1} /\ (x % 2 = 0 => (x + 1) % 2 = 1) /\ (x % 2 = 1 => (x + 1) % 2 = 0)
  BY <1>3
<1>5. CASE x + 1 < CtrBase
  <2>1. (x + 1) % CtrBase = x + 1
    BY <1>0, <1>3, <1>5, Small
  <2>2. QED
    BY <1>3, <1>4, <2>1 DEF x
<1>6. CASE x + 1 = CtrBase
  <2>1. (x + 1) % CtrBase = 0
    BY <1>0, <1>6
  <2>2. x % 2 = 1
    BY <1>1, <1>3, <1>6
  <2>3. QED
    BY <1>3, <1>4, <2>1, <2>2 DEF x
<1>7. x + 1 < CtrBase \/ x + 1 = CtrBase
  BY <1>0, <1>1, <1>3
<1>8. QED
  BY <1>5, <1>6, <1>7

-----------------------------------------------------------------------------
(* Secure messaging: no counter encrypts twice.                            *)

SmCodes == {SM!CmdCode(i, lens.n, lens.r, c) : i \in Nat, c \in SM!Ctrs}

SmTypes ==
  /\ smCtr \in [SM!Parties -> SM!Ctrs]
  /\ at \in [SM!Parties -> {"idle", "waiting", "busy"}]
  /\ toCard \in Seq(SmCodes)
  /\ ids \in Nat /\ sends \in 0 .. MaxSends

Odd(c) == c[0] % 2 = 1

(* The counters move twice for a command at most.                          *)
Bounded ==
  /\ Num(smCtr["terminal"]) <= IF Odd(smCtr["terminal"]) THEN 2 * sends - 1
                               ELSE 2 * sends
  /\ Num(smCtr["card"]) + 2 * Len(toCard)
       + (IF at["card"] = "busy" THEN 1 ELSE 0) <= 2 * sends
  /\ at["terminal"] = "waiting" => Odd(smCtr["terminal"])

(* What was used lies behind: odd counters behind the terminal's, even     *)
(* ones behind the card's.                                                 *)
UsedUp ==
  \A e \in used :
    /\ e.ctr \in SM!Ctrs
    /\ Num(e.ctr) <= Num(smCtr[IF Odd(e.ctr) THEN "terminal" ELSE "card"])

SmInv == SmTypes /\ Bounded /\ UsedUp /\ CtrFresh

(* The counters of all commands are different: they have 16 octets in      *)
(* btok_sm.c.                                                              *)
SmNoWrap == 2 * MaxSends < SmWeight[CtrDigits]

(* A counter that moves within its room, next to what it was.              *)
LEMMA CtrMoves ==
  ASSUME NEW c \in SM!Ctrs, Num(c) + 1 < SmWeight[CtrDigits]
  PROVE  /\ SM!CtrInc(c) \in SM!Ctrs
         /\ Num(c) \in Nat /\ Num(SM!CtrInc(c)) = Num(c) + 1
         /\ Odd(SM!CtrInc(c)) <=> ~ Odd(c)
<1>1. CtrDigits \in Nat
  BY SmConstants
<1>2. c[0] % 2 \in {0, 1}
  BY CtrIncParity
<1>3. /\ c[0] % 2 = 0 => SM!CtrInc(c)[0] % 2 = 1
      /\ c[0] % 2 = 1 => SM!CtrInc(c)[0] % 2 = 0
  BY CtrIncParity
<1>4. Odd(SM!CtrInc(c)) <=> ~ Odd(c)
  BY <1>2, <1>3 DEF Odd
<1>5. QED
  BY <1>4, CtrIncCounts

(* A party moves its counter to c: what was used stays behind.             *)
LEMMA UsedStays ==
  ASSUME UsedUp, NEW p \in SM!Parties, NEW c,
         smCtr \in [SM!Parties -> SM!Ctrs], smCtr' = [smCtr EXCEPT ![p] = c],
         Num(c) = Num(smCtr[p]) + 1,
         NEW e \in used
  PROVE  /\ e.ctr \in SM!Ctrs
         /\ Num(e.ctr) <= Num(smCtr'[IF Odd(e.ctr) THEN "terminal" ELSE "card"])
<1>1. /\ e.ctr \in SM!Ctrs
      /\ Num(e.ctr) <= Num(smCtr[IF Odd(e.ctr) THEN "terminal" ELSE "card"])
  BY DEF UsedUp
<1>2. smCtr["terminal"] \in SM!Ctrs /\ smCtr["card"] \in SM!Ctrs
  BY DEF SM!Parties
<1>3. /\ Num(e.ctr) \in Nat /\ Num(smCtr["terminal"]) \in Nat
      /\ Num(smCtr["card"]) \in Nat
  BY <1>1, <1>2, CtrIncCounts
<1>4. CASE p = "terminal"
  <2>1. smCtr'["terminal"] = c /\ smCtr'["card"] = smCtr["card"]
    BY <1>4 DEF SM!Parties
  <2>2. QED
    BY <1>1, <1>3, <1>4, <2>1
<1>5. CASE p = "card"
  <2>1. smCtr'["card"] = c /\ smCtr'["terminal"] = smCtr["terminal"]
    BY <1>5 DEF SM!Parties
  <2>2. QED
    BY <1>1, <1>3, <1>5, <2>1
<1>6. QED
  BY <1>4, <1>5 DEF SM!Parties

(* And encrypts under c, which has its own parity: c is fresh.             *)
LEMMA UsedGrows ==
  ASSUME UsedUp, CtrFresh, NEW p \in SM!Parties, NEW c \in SM!Ctrs,
         smCtr \in [SM!Parties -> SM!Ctrs], smCtr' = [smCtr EXCEPT ![p] = c],
         Num(c) = Num(smCtr[p]) + 1, Odd(c) <=> p = "terminal",
         NEW i, NEW n, used' = used \cup SM!Encrypts(i, n, c)
  PROVE  UsedUp' /\ CtrFresh'
<1> DEFINE new == [ctr |-> c, id |-> i]
<1>1. used' \subseteq used \cup {new}
  BY DEF SM!Encrypts
<1>2. Num(smCtr[p]) \in Nat
  BY CtrIncCounts
<1>3. smCtr'[IF Odd(c) THEN "terminal" ELSE "card"] = c
  BY DEF SM!Parties
<1>4. UsedUp'
  <2>1. ASSUME NEW e \in used
        PROVE  /\ e.ctr \in SM!Ctrs
               /\ Num(e.ctr)
                    <= Num(smCtr'[IF Odd(e.ctr) THEN "terminal" ELSE "card"])
    BY UsedStays
  <2>2. /\ new.ctr \in SM!Ctrs
        /\ Num(new.ctr)
             <= Num(smCtr'[IF Odd(new.ctr) THEN "terminal" ELSE "card"])
    <3>1. Num(c) \in Nat
      BY <1>2
    <3>2. new.ctr = c
      OBVIOUS
    <3>3. QED
      BY <1>3, <3>1, <3>2
  <2> HIDE DEF new
  <2>3. QED
    BY <1>1, <2>1, <2>2 DEF UsedUp
<1>5. ASSUME NEW e \in used
      PROVE  e.ctr # c
  <2>1. Num(e.ctr) <= Num(smCtr[IF Odd(e.ctr) THEN "terminal" ELSE "card"])
    BY DEF UsedUp
  <2>2. ASSUME e.ctr = c
        PROVE  FALSE
    <3>1. Num(c) <= Num(smCtr[p])
      BY <2>1, <2>2 DEF SM!Parties
    <3>2. QED
      BY <1>2, <3>1
  <2>3. QED
    BY <2>2
<1>6. CtrFresh'
  <2>1. \A e, f \in used : e.ctr = f.ctr => e = f
    BY DEF CtrFresh, SM!CtrFresh
  <2>2. new.ctr = c
    OBVIOUS
  <2> HIDE DEF new
  <2>3. \A e, f \in used' : e.ctr = f.ctr => e = f
    BY <1>1, <1>5, <2>1, <2>2
  <2>4. QED
    BY <2>3 DEF CtrFresh, SM!CtrFresh
<1>7. QED
  BY <1>4, <1>6

(* The facts of a state the steps start from.                              *)
LEMMA SmState ==
  ASSUME SmInv
  PROVE  /\ smCtr \in [SM!Parties -> SM!Ctrs]
         /\ smCtr["terminal"] \in SM!Ctrs /\ smCtr["card"] \in SM!Ctrs
         /\ Num(smCtr["terminal"]) \in Nat /\ Num(smCtr["card"]) \in Nat
         /\ at \in [SM!Parties -> {"idle", "waiting", "busy"}]
         /\ toCard \in Seq(SmCodes) /\ Len(toCard) \in Nat
         /\ ids \in Nat /\ sends \in Nat /\ sends <= MaxSends /\ MaxSends \in Nat
         /\ Bounded /\ UsedUp /\ CtrFresh
<1>1. /\ smCtr \in [SM!Parties -> SM!Ctrs]
      /\ at \in [SM!Parties -> {"idle", "waiting", "busy"}]
      /\ toCard \in Seq(SmCodes) /\ ids \in Nat /\ sends \in 0 .. MaxSends
      /\ Bounded /\ UsedUp /\ CtrFresh
  BY DEF SmInv, SmTypes
<1>2. smCtr["terminal"] \in SM!Ctrs /\ smCtr["card"] \in SM!Ctrs
  BY <1>1 DEF SM!Parties
<1>3. Num(smCtr["terminal"]) \in Nat /\ Num(smCtr["card"]) \in Nat
  BY <1>2, CtrIncCounts
<1>4. MaxSends \in Nat
  BY SmConstants
<1>5. QED
  BY <1>1, <1>2, <1>3, <1>4

LEMMA TerminalSendsStep ==
  ASSUME SmNoWrap, SmInv, SM!TerminalSends
  PROVE  SmInv'
<1> DEFINE c == SM!CtrInc(smCtr["terminal"])
           code1 == SM!CmdCode(ids + 1, lens.n, lens.r, c)
<1>1. /\ at["terminal"] = "idle" /\ sends < MaxSends
      /\ smCtr' = [smCtr EXCEPT !["terminal"] = c]
      /\ UNCHANGED lens
  BY DEF SM!TerminalSends
<1>2. SmWeight[CtrDigits] \in Nat
  BY SmWeights, SmConstants
<1>3. /\ c \in SM!Ctrs /\ Num(c) = Num(smCtr["terminal"]) + 1
      /\ Odd(c) <=> ~ Odd(smCtr["terminal"])
  <2>1. Num(smCtr["terminal"]) + 1 < SmWeight[CtrDigits]
    BY <1>1, <1>2, SmState DEF SmNoWrap, Bounded
  <2>2. QED
    BY <2>1, SmState, CtrMoves
<1>4. /\ smCtr' \in [SM!Parties -> SM!Ctrs]
      /\ smCtr'["terminal"] = c /\ smCtr'["card"] = smCtr["card"]
  BY <1>1, <1>3, SmState DEF SM!Parties
<1>5. SmCodes' = SmCodes
  BY <1>1 DEF SmCodes
<1> HIDE DEF c
<1>6. CASE SM!Parity(c, 1)
  <2>1. /\ ids' = ids + 1 /\ toCard' = Append(toCard, code1)
        /\ used' = used \cup SM!Encrypts(ids + 1, lens.n, c)
        /\ at' = [at EXCEPT !["terminal"] = "waiting"] /\ sends' = sends + 1
    BY <1>6 DEF SM!TerminalSends, c
  <2>2. Odd(c) /\ ~ Odd(smCtr["terminal"])
    BY <1>3, <1>6 DEF SM!Parity, Odd
  <2>3. code1 \in SmCodes
    <3>1. ids + 1 \in Nat /\ c \in SM!Ctrs
      BY <1>3, SmState
    <3>2. \E i \in Nat, d \in SM!Ctrs : code1 = SM!CmdCode(i, lens.n, lens.r, d)
      BY <3>1
    <3> HIDE DEF code1
    <3>3. QED
      BY <3>2 DEF SmCodes
  <2> HIDE DEF code1
  <2>4. toCard' \in Seq(SmCodes) /\ Len(toCard') = Len(toCard) + 1
    BY <2>1, <2>3, SmState
  <2>5. /\ at' \in [SM!Parties -> {"idle", "waiting", "busy"}]
        /\ at'["card"] = at["card"]
    BY <2>1, SmState DEF SM!Parties
  <2>6. SmTypes'
    BY <1>1, <1>4, <1>5, <2>1, <2>4, <2>5, SmState DEF SmTypes
  <2>7. Bounded'
    <3>1. /\ Num(smCtr["terminal"]) \in Nat /\ Num(smCtr["card"]) \in Nat
          /\ Len(toCard) \in Nat /\ sends \in Nat /\ Bounded
      BY SmState
    <3>2. /\ Num(smCtr'["terminal"]) = Num(smCtr["terminal"]) + 1
          /\ Num(smCtr'["card"]) = Num(smCtr["card"])
          /\ Odd(smCtr'["terminal"]) /\ ~ Odd(smCtr["terminal"])
      BY <1>3, <1>4, <2>2
    <3>3. /\ Num(smCtr'["terminal"]) <= 2 * sends' - 1
          /\ Num(smCtr'["card"]) + 2 * Len(toCard')
             + (IF at["card"] = "busy" THEN 1 ELSE 0) <= 2 * sends'
      BY <2>1, <2>2, <2>4, <3>1, <3>2, SMTT(30) DEF Bounded
    <3>4. QED
      BY <2>5, <3>2, <3>3 DEF Bounded
  <2>8. UsedUp' /\ CtrFresh'
    BY <1>1, <1>3, <2>1, <2>2, SmState, UsedGrows DEF SM!Parties
  <2>9. QED
    BY <2>6, <2>7, <2>8 DEF SmInv
<1>7. CASE ~ SM!Parity(c, 1)
  <2>1. UNCHANGED <<ids, toCard, used, at, sends>>
    BY <1>7 DEF SM!TerminalSends, c
  <2>2. ~ Odd(c) /\ Odd(smCtr["terminal"])
    BY <1>3, <1>7 DEF SM!Parity, Odd
  <2>3. SmTypes'
    BY <1>4, <1>5, <2>1, SmState DEF SmTypes
  <2>4. Bounded'
    BY <1>1, <1>3, <1>4, <2>1, <2>2, SmState DEF Bounded
  <2>5. UsedUp' /\ CtrFresh'
    <3>1. \A e \in used :
            /\ e.ctr \in SM!Ctrs
            /\ Num(e.ctr) <= Num(smCtr'[IF Odd(e.ctr) THEN "terminal" ELSE "card"])
      BY <1>1, <1>3, SmState, UsedStays DEF SM!Parties
    <3>2. UsedUp'
      BY <2>1, <3>1 DEF UsedUp
    <3>3. CtrFresh'
      BY <2>1, SmState DEF CtrFresh, SM!CtrFresh
    <3>4. QED
      BY <3>2, <3>3
  <2>6. QED
    BY <2>3, <2>4, <2>5 DEF SmInv
<1>8. QED
  BY <1>6, <1>7

LEMMA CardReceivesStep ==
  ASSUME SmNoWrap, SmInv, SM!CardReceives
  PROVE  SmInv'
<1> DEFINE c == SM!CtrInc(smCtr["card"])
<1>1. /\ toCard # <<>> /\ at["card"] = "idle"
      /\ smCtr' = [smCtr EXCEPT !["card"] = c] /\ toCard' = Tail(toCard)
      /\ at' = [at EXCEPT !["card"] = "busy"] \/ at' = at
      /\ UNCHANGED <<lens, used, ids, sends>>
  BY DEF SM!CardReceives
<1>2. /\ Len(toCard) >= 1 /\ toCard' \in Seq(SmCodes)
      /\ Len(toCard') = Len(toCard) - 1
  BY <1>1, SmState
<1>3. SmWeight[CtrDigits] \in Nat
  BY SmWeights, SmConstants
<1>4. c \in SM!Ctrs /\ Num(c) = Num(smCtr["card"]) + 1
  <2>1. Num(smCtr["card"]) + 1 < SmWeight[CtrDigits]
    BY <1>1, <1>2, <1>3, SmState DEF SmNoWrap, Bounded
  <2>2. QED
    BY <2>1, SmState, CtrMoves
<1> HIDE DEF c
<1>5. /\ smCtr' \in [SM!Parties -> SM!Ctrs]
      /\ smCtr'["card"] = c /\ smCtr'["terminal"] = smCtr["terminal"]
  BY <1>1, <1>4, SmState DEF SM!Parties
<1>6. /\ at' \in [SM!Parties -> {"idle", "waiting", "busy"}]
      /\ at'["terminal"] = at["terminal"]
  BY <1>1, SmState DEF SM!Parties
<1>7. SmTypes'
  <2>1. SmCodes' = SmCodes
    BY <1>1 DEF SmCodes
  <2>2. QED
    BY <1>1, <1>2, <1>5, <1>6, <2>1, SmState DEF SmTypes
<1>8. Bounded'
  BY <1>1, <1>2, <1>4, <1>5, <1>6, SmState DEF Bounded
<1>9. UsedUp' /\ CtrFresh'
  <2>1. \A e \in used :
          /\ e.ctr \in SM!Ctrs
          /\ Num(e.ctr) <= Num(smCtr'[IF Odd(e.ctr) THEN "terminal" ELSE "card"])
    BY <1>1, <1>4, SmState, UsedStays DEF SM!Parties
  <2>2. UsedUp'
    BY <1>1, <2>1 DEF UsedUp
  <2>3. CtrFresh'
    BY <1>1, SmState DEF CtrFresh, SM!CtrFresh
  <2>4. QED
    BY <2>2, <2>3
<1>10. QED
  BY <1>7, <1>8, <1>9 DEF SmInv

LEMMA CardSendsStep ==
  ASSUME SmNoWrap, SmInv, SM!CardSends
  PROVE  SmInv'
<1> DEFINE c == SM!CtrInc(smCtr["card"])
<1>1. /\ at["card"] = "busy" /\ at' = [at EXCEPT !["card"] = "idle"]
      /\ smCtr' = [smCtr EXCEPT !["card"] = c]
      /\ UNCHANGED <<lens, toCard, sends>>
  BY DEF SM!CardSends
<1>2. SmWeight[CtrDigits] \in Nat
  BY SmWeights, SmConstants
<1>3. c \in SM!Ctrs /\ Num(c) = Num(smCtr["card"]) + 1
  <2>1. Num(smCtr["card"]) + 1 < SmWeight[CtrDigits]
    BY <1>1, <1>2, SmState DEF SmNoWrap, Bounded
  <2>2. QED
    BY <2>1, SmState, CtrMoves
<1>4. /\ smCtr' \in [SM!Parties -> SM!Ctrs]
      /\ smCtr'["card"] = c /\ smCtr'["terminal"] = smCtr["terminal"]
  BY <1>1, <1>3, SmState DEF SM!Parties
<1>5. /\ at' \in [SM!Parties -> {"idle", "waiting", "busy"}]
      /\ at'["terminal"] = at["terminal"] /\ at'["card"] = "idle"
  BY <1>1, SmState DEF SM!Parties
<1>6. SmCodes' = SmCodes
  BY <1>1 DEF SmCodes
<1>7. Bounded'
  BY <1>1, <1>3, <1>4, <1>5, SmState DEF Bounded
<1>8. CASE SM!Parity(c, 0)
  <2>1. ids' = ids + 1 /\ used' = used \cup SM!Encrypts(ids + 1, lens.r, c)
    BY <1>8 DEF SM!CardSends
  <2>2. ~ Odd(c)
    BY <1>8 DEF SM!Parity, Odd
  <2> HIDE DEF c
  <2>3. SmTypes'
    BY <1>1, <1>4, <1>5, <1>6, <2>1, SmState DEF SmTypes
  <2>4. UsedUp' /\ CtrFresh'
    BY <1>1, <1>3, <2>1, <2>2, SmState, UsedGrows DEF SM!Parties
  <2>5. QED
    BY <1>7, <2>3, <2>4 DEF SmInv
<1>9. CASE ~ SM!Parity(c, 0)
  <2>1. UNCHANGED <<ids, used>>
    BY <1>9 DEF SM!CardSends
  <2> HIDE DEF c
  <2>2. SmTypes'
    BY <1>1, <1>4, <1>5, <1>6, <2>1, SmState DEF SmTypes
  <2>3. \A e \in used :
          /\ e.ctr \in SM!Ctrs
          /\ Num(e.ctr) <= Num(smCtr'[IF Odd(e.ctr) THEN "terminal" ELSE "card"])
    BY <1>1, <1>3, SmState, UsedStays DEF SM!Parties
  <2>4. UsedUp'
    BY <2>1, <2>3 DEF UsedUp
  <2>5. CtrFresh'
    BY <2>1, SmState DEF CtrFresh, SM!CtrFresh
  <2>6. QED
    BY <1>7, <2>2, <2>4, <2>5 DEF SmInv
<1>10. QED
  BY <1>8, <1>9

LEMMA TerminalReceivesStep ==
  ASSUME SmNoWrap, SmInv, SM!TerminalReceives
  PROVE  SmInv'
<1> DEFINE c == SM!CtrInc(smCtr["terminal"])
<1>1. /\ at["terminal"] = "waiting" /\ at' = [at EXCEPT !["terminal"] = "idle"]
      /\ smCtr' = [smCtr EXCEPT !["terminal"] = c]
      /\ UNCHANGED <<lens, toCard, used, ids, sends>>
  BY DEF SM!TerminalReceives
<1>2. SmWeight[CtrDigits] \in Nat
  BY SmWeights, SmConstants
<1>3. /\ c \in SM!Ctrs /\ Num(c) = Num(smCtr["terminal"]) + 1 /\ ~ Odd(c)
      /\ Odd(smCtr["terminal"])
  <2>1. Odd(smCtr["terminal"])
    BY <1>1, SmState DEF Bounded
  <2>2. Num(smCtr["terminal"]) + 1 < SmWeight[CtrDigits]
    BY <1>2, <2>1, SmState DEF SmNoWrap, Bounded
  <2>3. QED
    BY <2>1, <2>2, SmState, CtrMoves
<1> HIDE DEF c
<1>4. /\ smCtr' \in [SM!Parties -> SM!Ctrs]
      /\ smCtr'["terminal"] = c /\ smCtr'["card"] = smCtr["card"]
  BY <1>1, <1>3, SmState DEF SM!Parties
<1>5. /\ at' \in [SM!Parties -> {"idle", "waiting", "busy"}]
      /\ at'["terminal"] = "idle" /\ at'["card"] = at["card"]
  BY <1>1, SmState DEF SM!Parties
<1>6. SmTypes'
  <2>1. SmCodes' = SmCodes
    BY <1>1 DEF SmCodes
  <2>2. QED
    BY <1>1, <1>4, <1>5, <2>1, SmState DEF SmTypes
<1>7. Bounded'
  BY <1>1, <1>3, <1>4, <1>5, SmState DEF Bounded
<1>8. UsedUp' /\ CtrFresh'
  <2>1. \A e \in used :
          /\ e.ctr \in SM!Ctrs
          /\ Num(e.ctr) <= Num(smCtr'[IF Odd(e.ctr) THEN "terminal" ELSE "card"])
    BY <1>1, <1>3, SmState, UsedStays DEF SM!Parties
  <2>2. UsedUp'
    BY <1>1, <2>1 DEF UsedUp
  <2>3. CtrFresh'
    BY <1>1, SmState DEF CtrFresh, SM!CtrFresh
  <2>4. QED
    BY <2>2, <2>3
<1>9. QED
  BY <1>6, <1>7, <1>8 DEF SmInv

(* Nobody moves a counter: the line loses a message, the terminal gives up.*)
LEMMA SmRests ==
  ASSUME SmInv, UNCHANGED <<lens, smCtr, used, ids, sends>>,
         toCard' \in {toCard, Tail(toCard)}, toCard' # toCard => toCard # <<>>,
         at' = at \/ at' = [at EXCEPT !["terminal"] = "idle"]
  PROVE  SmInv'
<1>1. SmCodes' = SmCodes
  BY DEF SmCodes
<1>2. toCard' \in Seq(SmCodes) /\ Len(toCard') <= Len(toCard) /\ Len(toCard') \in Nat
  <2>1. toCard \in Seq(SmCodes) /\ Len(toCard) \in Nat
    BY SmState
  <2>2. CASE toCard' = toCard
    BY <2>1, <2>2
  <2>3. CASE toCard' = Tail(toCard) /\ toCard # <<>>
    BY <2>1, <2>3
  <2>4. QED
    BY <2>2, <2>3
<1>3. /\ at' \in [SM!Parties -> {"idle", "waiting", "busy"}]
      /\ at'["card"] = at["card"]
      /\ at'["terminal"] = "waiting" => at["terminal"] = "waiting"
  BY SmState DEF SM!Parties
<1>4. SmTypes'
  BY <1>1, <1>2, <1>3, SmState DEF SmTypes
<1>5. Bounded'
  <2>1. Len(toCard) \in Nat /\ smCtr' = smCtr /\ sends' = sends
    BY SmState
  <2>2. QED
    BY <1>2, <1>3, <2>1, SmState, SMTT(30) DEF Bounded
<1>6. UsedUp' /\ CtrFresh'
  BY SmState DEF UsedUp, CtrFresh, SM!CtrFresh
<1>7. QED
  BY <1>4, <1>5, <1>6 DEF SmInv

(* The counter a party encrypts under has not been used, by either party,  *)
(* whatever is lost, late or given up.                                     *)
THEOREM CtrFreshCorrect ==
  ASSUME SmNoWrap
  PROVE  MCSpec => []CtrFresh
<1>1. MCInit => SmInv
  <2> SUFFICES ASSUME SM!Init
               PROVE  SmInv
    BY DEF MCInit
  <2>1. /\ smCtr = [p \in SM!Parties |-> SM!Zero]
        /\ at = [p \in SM!Parties |-> "idle"]
        /\ toCard = <<>> /\ used = {} /\ ids = 0 /\ sends = 0
    BY DEF SM!Init
  <2>2. CtrDigits \in Nat \ {0} /\ CtrBase \in Nat \ {0, 1} /\ MaxSends \in Nat
    BY SmConstants
  <2>3. SM!Zero \in SM!Ctrs /\ ~ Odd(SM!Zero)
    BY <2>2 DEF SM!Zero, SM!Ctrs, SM!Digits, Odd
  <2>4. Num(SM!Zero) = 0
    <3>1. PICK s \in [0 .. CtrDigits -> Nat] : IsNum(SM!Zero, s)
      BY <2>3, SmNums
    <3> DEFINE T == {k \in Nat : k <= CtrDigits => s[k] = 0}
    <3>2. 0 \in T
      BY <3>1 DEF IsNum
    <3>3. ASSUME NEW k \in Nat, k \in T
          PROVE  k + 1 \in T
      <4>1. ASSUME k + 1 <= CtrDigits
            PROVE  s[k + 1] = 0
        <5>1. s[k] = 0 /\ k + 1 \in 1 .. CtrDigits /\ k + 1 - 1 = k
          BY <2>2, <3>3, <4>1
        <5>2. SM!Zero[k] = 0 /\ SmWeight[k] \in Nat
          BY <2>2, <4>1, SmWeights DEF SM!Zero, SM!Digits
        <5>3. s[k + 1] = s[k] + SM!Zero[k] * SmWeight[k]
          BY <3>1, <5>1 DEF IsNum
        <5>4. QED
          BY <5>1, <5>2, <5>3
      <4>2. QED
        BY <4>1
    <3> HIDE DEF T
    <3>4. Nat \subseteq T
      BY <3>2, <3>3, SetInduction
    <3>5. s[CtrDigits] = 0
      BY <2>2, <3>4 DEF T
    <3>6. QED
      BY <3>1, <3>5 DEF IsNum
  <2>5. SmTypes
    BY <2>1, <2>2, <2>3 DEF SmTypes
  <2>6. Bounded
    <3>1. smCtr["terminal"] = SM!Zero /\ smCtr["card"] = SM!Zero
      BY <2>1 DEF SM!Parties
    <3>2. at["terminal"] = "idle" /\ at["card"] = "idle" /\ Len(toCard) = 0
      BY <2>1 DEF SM!Parties
    <3>3. QED
      BY <2>1, <2>3, <2>4, <3>1, <3>2 DEF Bounded
  <2>7. UsedUp /\ CtrFresh
    BY <2>1 DEF UsedUp, CtrFresh, SM!CtrFresh
  <2>8. QED
    BY <2>5, <2>6, <2>7 DEF SmInv
<1>2. SmInv /\ [MCNext]_all => SmInv'
  <2> SUFFICES ASSUME SmInv, [MCNext]_all
               PROVE  SmInv'
    OBVIOUS
  <2>1. CASE UNCHANGED smVars
    <3>1. /\ UNCHANGED <<lens, smCtr, used, ids, sends>>
          /\ toCard' = toCard /\ at' = at
      BY <2>1 DEF smVars
    <3>2. QED
      BY <3>1, SmRests
  <2>2. CASE SM!TimesOut
    <3>1. /\ UNCHANGED <<lens, smCtr, used, ids, sends>>
          /\ toCard' = toCard /\ at' = [at EXCEPT !["terminal"] = "idle"]
      BY <2>2 DEF SM!TimesOut
    <3>2. QED
      BY <3>1, SmRests
  <2>3. CASE SM!Loses
    <3>1. /\ UNCHANGED <<lens, smCtr, used, ids, sends>> /\ at' = at
          /\ toCard' = toCard \/ (toCard # <<>> /\ toCard' = Tail(toCard))
      BY <2>3 DEF SM!Loses
    <3>2. QED
      BY <3>1, SmRests
  <2>4. UNCHANGED smVars \/ SM!Next
    BY DEF MCNext, all
  <2>5. QED
    BY <2>1, <2>2, <2>3, <2>4, TerminalSendsStep, CardReceivesStep,
       CardSendsStep, TerminalReceivesStep
    DEF SM!Next
<1>3. SmInv => CtrFresh
  BY DEF SmInv
<1>4. QED
  BY <1>1, <1>2, <1>3, PTL DEF MCSpec

-----------------------------------------------------------------------------
(* Secure messaging: what is accepted is what was protected.               *)

(* The data of a command and its protection fit an extended Lc.            *)
Fits(n, r) == n \in Nat /\ n <= 65516 /\ r \in Nat /\ r <= 65536

(* Octets of a number.                                                     *)
LEMMA TwoOctets ==
  ASSUME NEW x \in Nat, x <= 65536
  PROVE  /\ x % 256 \in Nat /\ (x \div 256) % 256 \in Nat
         /\ x < 65536 => 256 * ((x \div 256) % 256) + (x % 256) = x
         /\ x = 65536 => 256 * ((x \div 256) % 256) + (x % 256) = 0
         /\ x < 256 => x % 256 = x
         /\ x = 256 => x % 256 = 0
OBVIOUS

LEMMA ThreeOctets ==
  ASSUME NEW a \in Nat, NEW b \in Nat
  PROVE  /\ <<0>> \o <<a, b>> = <<0, a, b>>
         /\ Len(<<0, a, b>>) = 3 /\ Tail(<<0, a, b>>) = <<a, b>>
<1> DEFINE s == <<0>> \o <<a, b>>
           t == <<0, a, b>>
<1>1. Len(s) = 3 /\ s[1] = 0 /\ s[2] = a /\ s[3] = b
  OBVIOUS
<1>2. s \in Seq(Nat) /\ t \in Seq(Nat)
  OBVIOUS
<1>3. Len(t) = 3 /\ t[1] = 0 /\ t[2] = a /\ t[3] = b /\ Tail(t) = <<a, b>>
  OBVIOUS
<1> HIDE DEF s, t
<1>4. s = [i \in 1 .. 3 |-> s[i]] /\ t = [i \in 1 .. 3 |-> t[i]]
  BY <1>1, <1>2, <1>3
<1>5. \A i \in 1 .. 3 : s[i] = t[i]
  BY <1>1, <1>3
<1>6. s = t
  BY <1>4, <1>5
<1>7. QED
  BY <1>3, <1>6 DEF s, t

(* Le: none, one octet, two after an Lc, or three.                         *)
LEMMA LeForms ==
  ASSUME NEW n, NEW r, Fits(n, r)
  PROVE  /\ r = 0 => SM!Codec!Le(n, r) = <<>>
         /\ r # 0 /\ n < 256 /\ r <= 256 => SM!Codec!Le(n, r) = <<r % 256>>
         /\ r # 0 /\ ~ (n < 256 /\ r <= 256) /\ n # 0 =>
              SM!Codec!Le(n, r) = <<(r \div 256) % 256, r % 256>>
         /\ r > 256 /\ n = 0 =>
              SM!Codec!Le(n, r) = <<0, (r \div 256) % 256, r % 256>>
<1> USE DEF Fits, SM!Codec!Le, SM!Codec!Short, SM!Codec!One, SM!Codec!Two
<1>1. r % 256 \in Nat /\ (r \div 256) % 256 \in Nat
  BY TwoOctets
<1>2. ASSUME r > 256, n = 0
      PROVE  SM!Codec!Le(n, r) = <<0, (r \div 256) % 256, r % 256>>
  <2>1. SM!Codec!Le(n, r) = <<0>> \o <<(r \div 256) % 256, r % 256>>
    BY <1>2
  <2>2. QED
    BY <1>1, <2>1, ThreeOctets
<1>3. QED
  BY <1>2

(* What two octets are read to: zeros stand for the largest number.        *)
Longest(x) == IF x = 0 THEN 65536 ELSE x

LEMMA LongestRead ==
  ASSUME NEW r \in Nat, r # 0, r <= 65536
  PROVE  Longest(256 * ((r \div 256) % 256) + (r % 256)) = r
BY TwoOctets DEF Longest

(* The value btokSMCmdUnwrap() reads of Le is the value that was written.  *)
LEMMA LeRead ==
  ASSUME NEW n, NEW r, Fits(n, r), NEW m,
         m.y.n = n, m.le = SM!Codec!Le(n, r)
  PROVE  /\ SM!ReadLe(m) = r
         /\ m.le = <<>> <=> r = 0
         /\ Len(m.le) \in Nat /\ Len(m.le) <= 3
         /\ n # 0 => Len(m.le) <= 2
<1> DEFINE a == (r \div 256) % 256
           b == r % 256
<1>1. n \in Nat /\ r \in Nat /\ r <= 65536
  BY DEF Fits
<1>2. a \in Nat /\ b \in Nat
  BY <1>1, TwoOctets
<1>3. CASE r = 0
  <2>1. m.le = <<>> /\ Len(m.le) = 0
    BY <1>3, LeForms
  <2>2. SM!ReadLe(m) = 0
    BY <2>1 DEF SM!ReadLe
  <2>3. QED
    BY <1>3, <2>1, <2>2
<1>4. CASE r # 0 /\ n < 256 /\ r <= 256
  <2>1. m.le = <<b>>
    BY <1>4, LeForms
  <2>2. /\ r < 256 => b = r
        /\ r = 256 => b = 0
    BY <1>1, TwoOctets
  <2> HIDE DEF a, b
  <2>3. Len(m.le) = 1 /\ m.le[1] = b
    BY <2>1
  <2>4. m.le # <<>>
    BY <2>3
  <2>5. SM!ReadLe(m) = r
    BY <1>1, <1>4, <2>2, <2>3 DEF SM!ReadLe
  <2>6. QED
    BY <1>4, <2>3, <2>4, <2>5
<1>5. CASE r # 0 /\ ~ (n < 256 /\ r <= 256) /\ n # 0
  <2>1. m.le = <<a, b>>
    BY <1>5, LeForms
  <2>2. Longest(256 * a + b) = r
    BY <1>1, <1>5, LongestRead
  <2> HIDE DEF a, b
  <2>3. Len(m.le) = 2 /\ m.le[1] = a /\ m.le[2] = b
    BY <2>1
  <2>4. m.le # <<>>
    BY <2>3
  <2>5. SM!ReadLe(m) = r
    BY <1>1, <1>5, <2>2, <2>3 DEF SM!ReadLe, Longest
  <2>6. QED
    BY <1>5, <2>3, <2>4, <2>5
<1>6. CASE r > 256 /\ n = 0
  <2>1. m.le = <<0, a, b>>
    BY <1>6, LeForms
  <2>2. Longest(256 * a + b) = r
    BY <1>1, <1>6, LongestRead
  <2> HIDE DEF a, b
  <2>3. Len(m.le) = 3 /\ m.le[1] = 0 /\ Tail(m.le) = <<a, b>>
    BY <1>2, <2>1, ThreeOctets
  <2> DEFINE t == Tail(m.le)
  <2>4. t[1] = a /\ t[2] = b
    <3>1. t = <<a, b>>
      BY <2>3
    <3> HIDE DEF t
    <3>2. QED
      BY <3>1
  <2>5. m.le # <<>>
    BY <2>3
  <2>6. SM!ReadLe(m) = Longest(256 * a + b)
    <3>1. SM!ReadLe(m) = IF Longest(256 * t[1] + t[2]) <= 256 THEN SM!NoLe
                         ELSE Longest(256 * t[1] + t[2])
      BY <1>6, <2>3 DEF SM!ReadLe, Longest
    <3> HIDE DEF t
    <3>2. QED
      BY <1>1, <1>6, <2>2, <2>4, <3>1
  <2>7. r # 0
    BY <1>1, <1>6
  <2> HIDE DEF t
  <2>8. SM!ReadLe(m) = r
    BY <2>2, <2>6
  <2>9. Len(m.le) \in Nat /\ Len(m.le) <= 3
    BY <2>3
  <2>10. QED
    BY <1>6, <2>5, <2>7, <2>8, <2>9
<1>7. QED
  BY <1>1, <1>3, <1>4, <1>5, <1>6

(* The fields of a protected command fit 65535 octets.                     *)
LEMMA Fields1 ==
  ASSUME NEW n, NEW r, Fits(n, r)
  PROVE  /\ SM!DataLen(n) \in Nat /\ n <= SM!DataLen(n)
         /\ SM!LeLen(n, r) =
              IF r = 0 THEN 0 ELSE SM!DerLen(Len(SM!Codec!Le(n, r)))
         /\ SM!LeLen(n, r) \in Nat /\ SM!MacLen = 10
         /\ SM!CdfStar(n, r) = SM!DataLen(n) + SM!LeLen(n, r) + 10
         /\ SM!CdfStar(n, r) <= 65535
<1> DEFINE m == [y |-> [n |-> n], le |-> SM!Codec!Le(n, r)]
           k == Len(m.le)
<1>1. n \in Nat /\ n <= 65516 /\ r \in Nat
  BY DEF Fits
<1>2. m.y.n = n /\ m.le = SM!Codec!Le(n, r)
  OBVIOUS
<1>3. k \in Nat /\ k <= 3 /\ (n # 0 => k <= 2)
  <2> HIDE DEF m
  <2>1. QED
    BY <1>2, LeRead
<1>4. SM!DataLen(n) \in Nat /\ n <= SM!DataLen(n)
      /\ SM!DataLen(n) <= n + 5 /\ (n = 0 => SM!DataLen(n) = 0)
  BY <1>1 DEF SM!DataLen, SM!DerLen, SM!DerTLLen, SM!DerLLen
<1>5. SM!MacLen = 10
  BY DEF SM!MacLen, SM!DerLen, SM!DerTLLen, SM!DerLLen
<1>6. SM!LeLen(n, r) = IF r = 0 THEN 0 ELSE SM!DerLen(k)
  BY DEF SM!LeLen
<1> HIDE DEF k, m
<1>7. SM!DerLen(k) = k + 2
  BY <1>3 DEF SM!DerLen, SM!DerTLLen, SM!DerLLen
<1>8. SM!LeLen(n, r) \in Nat /\ SM!LeLen(n, r) <= k + 2
  BY <1>3, <1>6, <1>7
<1>9. SM!CdfStar(n, r) = SM!DataLen(n) + SM!LeLen(n, r) + 10
  BY <1>5 DEF SM!CdfStar
<1>10. SM!CdfStar(n, r) <= 65535
  BY <1>1, <1>3, <1>4, <1>8, <1>9
<1>11. SM!LeLen(n, r) = IF r = 0 THEN 0 ELSE SM!DerLen(Len(SM!Codec!Le(n, r)))
  BY DEF SM!LeLen
<1>12. QED
  BY <1>4, <1>5, <1>8, <1>9, <1>10, <1>11

(* Lc* is read to the length of CDF*, one octet or three.                  *)
LEMMA LcRead ==
  ASSUME NEW n, NEW r, Fits(n, r), NEW m, m.lc = SM!LcStar(n, r)
  PROVE  /\ SM!ReadLen(m) = SM!CdfStar(n, r)
         /\ SM!ReadLenLen(m) = SM!LcStarLen(n, r)
         /\ Len(m.lc) = SM!LcStarLen(n, r)
<1> DEFINE l == SM!CdfStar(n, r)
           a == (l \div 256) % 256
           b == l % 256
<1>1. l \in Nat /\ 10 <= l /\ l <= 65535
  BY Fields1
<1>2. /\ a \in Nat /\ b \in Nat /\ 256 * a + b = l
      /\ l < 256 => b = l
  <2> HIDE DEF l
  <2>1. QED
    BY <1>1, TwoOctets
<1>3. CASE SM!LcStarLen(n, r) = 1
  <2>1. m.lc = <<b>>
    BY <1>3 DEF SM!LcStar
  <2>2. l < 256
    <3>1. ~ (l >= 256)
      BY <1>3 DEF SM!LcStarLen
    <3> HIDE DEF l
    <3>2. QED
      BY <1>1, <3>1
  <2> HIDE DEF l, a, b
  <2>3. Len(m.lc) = 1 /\ m.lc[1] = b
    BY <2>1
  <2>4. SM!ReadLen(m) = l /\ SM!ReadLenLen(m) = 1
    BY <1>1, <1>2, <2>2, <2>3 DEF SM!ReadLen, SM!ReadLenLen
  <2>5. QED
    BY <1>3, <2>3, <2>4 DEF l
<1>4. CASE SM!LcStarLen(n, r) = 3
  <2>1. m.lc = <<0, a, b>>
    BY <1>4 DEF SM!LcStar
  <2> HIDE DEF l, a, b
  <2>2. Len(m.lc) = 3 /\ m.lc[1] = 0 /\ m.lc[2] = a /\ m.lc[3] = b
    BY <2>1
  <2>3. SM!ReadLen(m) = l /\ SM!ReadLenLen(m) = 3
    BY <1>2, <2>2 DEF SM!ReadLen, SM!ReadLenLen
  <2>4. QED
    BY <1>4, <2>2, <2>3 DEF l
<1>5. SM!LcStarLen(n, r) \in {1, 3}
  BY DEF SM!LcStarLen
<1>6. QED
  BY <1>3, <1>4, <1>5

(* The protected code has room for the code itself.                        *)
HasRoom(n, r) ==
  4 + Len(SM!Codec!Lc(n, r)) + n + Len(SM!Codec!Le(n, r)) <= SM!CmdCount(n, r)

(* btokSMCmdUnwrap() finds the format of a protected command right and     *)
(* reads what btokSMCmdWrap() was given; the length told for a null apdu   *)
(* is the length of what is written, with room for the command itself.     *)
LEMMA CmdRead ==
  ASSUME NEW i, NEW n, NEW r, Fits(n, r), NEW c, NEW m,
         m = SM!CmdCode(i, n, r, c)
  PROVE  /\ SM!CmdFormat(m) /\ m.mac = <<m.y, m.le>>
         /\ m.y = SM!Y(i, n, c) /\ SM!ReadLe(m) = r
         /\ m.count = SM!CmdCount(n, r)
         /\ HasRoom(n, r)
<1> DEFINE l == SM!CdfStar(n, r)
           d == SM!DataLen(n)
           k == Len(m.le)
           z == SM!LeStar(n, r)
           w == SM!LcStarLen(n, r)
<1>1. /\ m.lc = SM!LcStar(n, r) /\ m.y = SM!Y(i, n, c)
      /\ m.le = SM!Codec!Le(n, r) /\ m.mac = <<m.y, m.le>> /\ m.zeros = z
      /\ m.count = 4 + Len(m.lc) + d
                   + (IF r = 0 THEN 0 ELSE SM!DerTLLen(k) + k)
                   + SM!DerTLLen(8) + 8 + z
  BY DEF SM!CmdCode
<1>2. m.y.n = n
  BY <1>1 DEF SM!Y
<1>3. /\ SM!ReadLe(m) = r /\ (m.le = <<>> <=> r = 0)
      /\ k \in Nat /\ k <= 3 /\ (n # 0 => k <= 2)
  BY <1>1, <1>2, LeRead
<1>4. SM!ReadLen(m) = l /\ SM!ReadLenLen(m) = w /\ Len(m.lc) = w
  BY <1>1, LcRead
<1>5. /\ d \in Nat /\ n <= d /\ SM!MacLen = 10 /\ l <= 65535
      /\ SM!LeLen(n, r) = IF r = 0 THEN 0 ELSE SM!DerLen(k)
      /\ SM!LeLen(n, r) \in Nat
      /\ l = d + SM!LeLen(n, r) + 10
  BY <1>1, Fields1
<1>6. /\ n \in Nat /\ r \in Nat /\ r <= 65536
  BY DEF Fits
<1>7. /\ z = (IF r = 0 THEN 0 ELSE IF r <= 256 /\ l < 256 THEN 1 ELSE 2)
      /\ w \in {1, 3}
  BY DEF SM!LeStar, SM!LcStarLen
<1>8. SM!CmdCount(n, r) = 4 + w + l + z
  BY DEF SM!CmdCount
<1>9. /\ SM!DerLen(k) = SM!DerTLLen(k) + k /\ SM!DerTLLen(k) \in Nat
      /\ SM!DerTLLen(8) = 2
  BY <1>3 DEF SM!DerLen, SM!DerTLLen, SM!DerLLen
<1> DEFINE f == IF m.le = <<>> THEN 0 ELSE SM!DerLen(Len(m.le))
<1>10. SM!LeLen(n, r) = f
  BY <1>3, <1>5
<1>11. SM!CmdFormat(m) <=>
         /\ m.count >= 15 /\ 4 + w + l <= m.count /\ 4 + w + l + 2 >= m.count
         /\ r # SM!NoLe /\ m.zeros = z /\ m.count = 4 + w + l + z
         /\ l = d + f + SM!MacLen
  <2>1. z = (IF r = 0 THEN 0 ELSE IF l < 256 /\ r <= 256 THEN 1 ELSE 2)
    BY <1>7
  <2> HIDE DEF l, z, w
  <2>2. QED
    BY <1>2, <1>3, <1>4, <2>1, SMTT(30) DEF SM!CmdFormat
<1>12. Len(SM!Codec!Lc(n, r)) \in Nat /\ Len(SM!Codec!Lc(n, r)) <= 3
       /\ (n = 0 => Len(SM!Codec!Lc(n, r)) = 0)
  BY DEF SM!Codec!Lc, SM!Codec!One, SM!Codec!Two
<1>13. Len(SM!Codec!Le(n, r)) = k
  BY <1>1
<1> HIDE DEF l, d, k, z, w, f
<1>14. z \in Nat /\ z <= 2 /\ w \in Nat /\ l \in Nat /\ 1 <= w
  BY <1>5, <1>7
<1>15. m.count = 4 + w + l + z
  BY <1>1, <1>3, <1>4, <1>5, <1>9, <1>14, SMTT(30)
<1>16. SM!CmdFormat(m)
  <2>1. r # SM!NoLe
    BY <1>6 DEF SM!NoLe
  <2>2. m.count >= 15 /\ 4 + w + l <= m.count /\ 4 + w + l + 2 >= m.count
    BY <1>5, <1>14, <1>15
  <2>3. QED
    BY <1>1, <1>5, <1>10, <1>11, <1>15, <2>1, <2>2
<1>17. HasRoom(n, r)
  <2>1. Len(SM!Codec!Lc(n, r)) + Len(SM!Codec!Le(n, r)) <= 6
    BY <1>3, <1>12, <1>13
  <2>2. n + 11 <= w + l /\ w + l \in Nat
    BY <1>5, <1>6, <1>14
  <2>3. Len(SM!Codec!Lc(n, r)) \in Nat /\ Len(SM!Codec!Le(n, r)) \in Nat
    BY <1>3, <1>12, <1>13
  <2>4. QED
    BY <1>6, <1>8, <1>14, <2>1, <2>2, <2>3 DEF HasRoom
<1>18. QED
  BY <1>1, <1>3, <1>8, <1>15, <1>16, <1>17

(* So are protected answers, whatever their length.                        *)
LEMMA RespRead ==
  ASSUME NEW i, NEW n \in Nat, NEW c, NEW m, m = SM!RespCode(i, n, c)
  PROVE  /\ SM!RespFormat(m) /\ m.mac = <<m.y>> /\ m.y = SM!Y(i, n, c)
         /\ m.count = SM!RespCount(n)
<1>1. /\ m.mac = <<m.y>> /\ m.y = SM!Y(i, n, c)
      /\ m.count = (IF n = 0 THEN 0 ELSE SM!DerTLLen(n + 1) + 1 + n)
                   + SM!DerTLLen(8) + 8 + 2
  BY DEF SM!RespCode
<1>2. m.y.n = n
  BY <1>1 DEF SM!Y
<1>3. SM!DerTLLen(8) = 2 /\ SM!DerLen(8) = 10 /\ SM!DerTLLen(n + 1) \in Nat
      /\ SM!DerLen(n + 1) = SM!DerTLLen(n + 1) + (n + 1)
  BY DEF SM!DerLen, SM!DerTLLen, SM!DerLLen
<1>4. /\ SM!DataLen(n) = IF n = 0 THEN 0 ELSE SM!DerTLLen(n + 1) + 1 + n
      /\ SM!MacLen = 10 /\ SM!DataLen(n) \in Nat
  BY <1>3 DEF SM!DataLen, SM!MacLen
<1>5. m.count = SM!DataLen(n) + 12
  BY <1>1, <1>3, <1>4
<1>6. SM!RespFormat(m) /\ m.count = SM!RespCount(n)
  BY <1>2, <1>4, <1>5 DEF SM!RespFormat, SM!RespCount
<1>7. QED
  BY <1>1, <1>6

(* The terminal protects a command, the card opens it and answers, the     *)
(* terminal opens the answer.  As long as no command is lost and the       *)
(* terminal does not give up too early, the two are in one of these        *)
(* places.                                                                 *)
TermCtr == smCtr["terminal"]
CardCtr == smCtr["card"]
At(t, c) == at["terminal"] = t /\ at["card"] = c

LastAsked == [id |-> smAsked.id, n |-> lens.n, r |-> lens.r]
LastAnswered == [id |-> answered.id, n |-> lens.r, r |-> 0]
Command == SM!CmdCode(smAsked.id, lens.n, lens.r, TermCtr)
Answer == SM!RespCode(answered.id, lens.r, CardCtr)

Resting ==
  /\ At("idle", "idle") /\ toCard = <<>> /\ toTerm = <<>>
  /\ IF Odd(TermCtr) THEN CardCtr = SM!CtrInc(TermCtr) ELSE CardCtr = TermCtr
Asking ==
  /\ At("waiting", "idle") /\ toCard = <<Command>> /\ toTerm = <<>>
  /\ Odd(TermCtr) /\ TermCtr = SM!CtrInc(CardCtr) /\ smAsked = LastAsked
Working ==
  /\ At("waiting", "busy") /\ toCard = <<>> /\ toTerm = <<>>
  /\ Odd(TermCtr) /\ CardCtr = TermCtr
Answering ==
  /\ At("waiting", "idle") /\ toCard = <<>> /\ toTerm = <<Answer>>
  /\ Odd(TermCtr) /\ CardCtr = SM!CtrInc(TermCtr) /\ answered = LastAnswered
Unanswered ==
  /\ At("waiting", "idle") /\ toCard = <<>> /\ toTerm = <<>>
  /\ Odd(TermCtr) /\ CardCtr = SM!CtrInc(TermCtr)

InPlace == Resting \/ Asking \/ Working \/ Answering \/ Unanswered

Exchange ==
  /\ lens \in [n : CdfLens, r : RdfLens]
  /\ smCtr \in [SM!Parties -> SM!Ctrs]
  /\ at \in [SM!Parties -> {"idle", "waiting", "busy"}]
  /\ smAsked # SM!NoData => smAsked = LastAsked
  /\ answered # SM!NoData => answered = LastAnswered

ExchangeInv == Exchange /\ (~ slip => opened /\ InPlace)

(* Every command and every answer fits its protected code.                 *)
LengthsFit == \A n \in CdfLens, r \in RdfLens : Fits(n, r)

LEMMA CtrFlips ==
  ASSUME NEW c \in SM!Ctrs
  PROVE  /\ SM!CtrInc(c) \in SM!Ctrs /\ (Odd(SM!CtrInc(c)) <=> ~ Odd(c))
         /\ SM!Parity(c, 1) <=> Odd(c)
         /\ SM!Parity(c, 0) <=> ~ Odd(c)
<1>1. SM!CtrInc(c) \in SM!Ctrs
  BY CtrIncCounts
<1>2. c[0] % 2 \in {0, 1} /\ (c[0] % 2 = 0 => SM!CtrInc(c)[0] % 2 = 1)
      /\ (c[0] % 2 = 1 => SM!CtrInc(c)[0] % 2 = 0)
  BY CtrIncParity
<1>3. QED
  BY <1>1, <1>2 DEF Odd, SM!Parity

LEMMA ExchangeState ==
  ASSUME ExchangeInv
  PROVE  /\ TermCtr \in SM!Ctrs /\ CardCtr \in SM!Ctrs
         /\ smCtr \in [{"terminal", "card"} -> SM!Ctrs]
         /\ at \in [{"terminal", "card"} -> {"idle", "waiting", "busy"}]
         /\ lens.n \in CdfLens /\ lens.r \in RdfLens
BY DEF ExchangeInv, Exchange, SM!Parties, TermCtr, CardCtr

(* A party moves its counter.                                              *)
LEMMA TermMoves ==
  ASSUME ExchangeInv, smCtr' = [smCtr EXCEPT !["terminal"] = SM!CtrInc(TermCtr)]
  PROVE  /\ TermCtr' = SM!CtrInc(TermCtr) /\ CardCtr' = CardCtr
         /\ smCtr' \in [SM!Parties -> SM!Ctrs]
<1>1. SM!CtrInc(TermCtr) \in SM!Ctrs
  BY ExchangeState, CtrFlips
<1>2. QED
  BY <1>1, ExchangeState DEF TermCtr, CardCtr, SM!Parties

LEMMA CardMoves ==
  ASSUME ExchangeInv, smCtr' = [smCtr EXCEPT !["card"] = SM!CtrInc(CardCtr)]
  PROVE  /\ CardCtr' = SM!CtrInc(CardCtr) /\ TermCtr' = TermCtr
         /\ smCtr' \in [SM!Parties -> SM!Ctrs]
<1>1. SM!CtrInc(CardCtr) \in SM!Ctrs
  BY ExchangeState, CtrFlips
<1>2. QED
  BY <1>1, ExchangeState DEF TermCtr, CardCtr, SM!Parties

LEMMA TermGoes ==
  ASSUME ExchangeInv, NEW t \in {"idle", "waiting"},
         at' = [at EXCEPT !["terminal"] = t]
  PROVE  /\ at' \in [SM!Parties -> {"idle", "waiting", "busy"}]
         /\ at'["terminal"] = t /\ at'["card"] = at["card"]
BY ExchangeState DEF SM!Parties

LEMMA CardGoes ==
  ASSUME ExchangeInv, NEW c \in {"idle", "busy"}, at' = [at EXCEPT !["card"] = c]
  PROVE  /\ at' \in [SM!Parties -> {"idle", "waiting", "busy"}]
         /\ at'["card"] = c /\ at'["terminal"] = at["terminal"]
BY ExchangeState DEF SM!Parties

LEMMA TerminalAsks ==
  ASSUME ExchangeInv, SM!TerminalSends
  PROVE  ExchangeInv'
<1> DEFINE c == SM!CtrInc(TermCtr)
           sent == SM!CmdCode(ids + 1, lens.n, lens.r, c)
           filed == [id |-> ids + 1, n |-> lens.n, r |-> lens.r]
<1>1. /\ at["terminal"] = "idle"
      /\ smCtr' = [smCtr EXCEPT !["terminal"] = c]
      /\ UNCHANGED <<lens, toTerm, answered, opened, slip>>
  BY DEF SM!TerminalSends, TermCtr
<1>2. /\ TermCtr' = c /\ CardCtr' = CardCtr
      /\ smCtr' \in [SM!Parties -> SM!Ctrs]
      /\ Odd(c) <=> ~ Odd(TermCtr)
      /\ SM!Parity(c, 1) <=> Odd(c)
  BY <1>1, TermMoves, ExchangeState, CtrFlips
<1>3. ~ slip => opened /\ Resting
  BY <1>1 DEF ExchangeInv, InPlace, Asking, Working, Answering, Unanswered, At
<1>4. /\ lens' \in [n : CdfLens, r : RdfLens]
      /\ answered' # SM!NoData => answered' = LastAnswered'
  BY <1>1 DEF ExchangeInv, Exchange, LastAnswered
<1>5. CASE Odd(c)
  <2>1. /\ toCard' = Append(toCard, sent) /\ smAsked' = filed
        /\ at' = [at EXCEPT !["terminal"] = "waiting"]
    BY <1>2, <1>5 DEF SM!TerminalSends, TermCtr
  <2>2. smAsked' = LastAsked' /\ smAsked'.id = ids + 1
    BY <1>1, <2>1 DEF LastAsked
  <2>3. /\ at' \in [SM!Parties -> {"idle", "waiting", "busy"}]
        /\ at'["terminal"] = "waiting" /\ at'["card"] = at["card"]
    BY <2>1, TermGoes
  <2>4. Exchange'
    BY <1>2, <1>4, <2>2, <2>3 DEF Exchange
  <2>5. Command' = sent
    BY <1>1, <1>2, <2>2 DEF Command
  <2> HIDE DEF sent, filed, c
  <2>6. ASSUME ~ slip
        PROVE  Asking'
    <3>1. Resting
      BY <1>3, <2>6
    <3>2. toCard' = <<sent>> /\ toTerm' = <<>> /\ at["card"] = "idle"
      BY <1>1, <2>1, <3>1 DEF Resting, At
    <3>3. c = SM!CtrInc(TermCtr) /\ CardCtr = TermCtr
      BY <1>2, <1>5, <3>1 DEF Resting, c
    <3>4. Odd(TermCtr') /\ TermCtr' = SM!CtrInc(CardCtr')
      BY <1>2, <1>5, <3>3
    <3>5. Odd(TermCtr)' /\ (TermCtr = SM!CtrInc(CardCtr))'
      BY <3>4 DEF Odd, SM!CtrInc, SM!Digits
    <3>6. QED
      BY <2>2, <2>3, <2>5, <3>2, <3>5 DEF Asking, At
  <2>7. QED
    BY <1>1, <1>3, <2>4, <2>6 DEF ExchangeInv, InPlace
<1>6. CASE ~ Odd(c)
  <2>1. UNCHANGED <<toCard, smAsked, at>>
    BY <1>2, <1>6 DEF SM!TerminalSends, TermCtr
  <2>2. Exchange'
    BY <1>1, <1>2, <1>4, <2>1 DEF Exchange, ExchangeInv, LastAsked
  <2>3. ASSUME ~ slip
        PROVE  Resting'
    <3>1. Resting
      BY <1>3, <2>3
    <3>2. CardCtr' = TermCtr' /\ ~ Odd(TermCtr')
      BY <1>2, <1>6, <3>1 DEF Resting
    <3>3. (CardCtr = TermCtr)' /\ ~ Odd(TermCtr)'
      BY <3>2 DEF Odd
    <3>4. QED
      BY <1>1, <2>1, <3>1, <3>3 DEF Resting, At
  <2>4. QED
    BY <1>1, <1>3, <2>2, <2>3 DEF ExchangeInv, InPlace
<1>7. QED
  BY <1>5, <1>6

LEMMA CardOpens ==
  ASSUME LengthsFit, ExchangeInv, SM!CardReceives
  PROVE  ExchangeInv'
<1> DEFINE c == SM!CtrInc(CardCtr)
           m == Head(toCard)
           ok == SM!CmdFormat(m) /\ SM!Parity(c, 1) /\ m.mac = <<m.y, m.le>>
           read == [id |-> SM!Opened(m.y, c), n |-> m.y.n, r |-> SM!ReadLe(m)]
<1>1. /\ toCard # <<>> /\ at["card"] = "idle"
      /\ smCtr' = [smCtr EXCEPT !["card"] = c] /\ toCard' = Tail(toCard)
      /\ UNCHANGED <<lens, toTerm, smAsked, answered, slip>>
      /\ at' = [at EXCEPT !["card"] = "busy"] \/ at' = at
      /\ ok => /\ at' = [at EXCEPT !["card"] = "busy"]
               /\ opened' = (opened /\ smAsked = read)
  BY DEF SM!CardReceives, CardCtr
<1>2. /\ CardCtr' = c /\ TermCtr' = TermCtr
      /\ smCtr' \in [SM!Parties -> SM!Ctrs]
  BY <1>1, CardMoves
<1>3. /\ at' \in [SM!Parties -> {"idle", "waiting", "busy"}]
      /\ at' = [at EXCEPT !["card"] = "busy"] =>
           at'["card"] = "busy" /\ at'["terminal"] = at["terminal"]
  <2>1. at \in [SM!Parties -> {"idle", "waiting", "busy"}]
    BY DEF ExchangeInv, Exchange
  <2>2. QED
    BY <1>1, <2>1, CardGoes
<1>4. Exchange'
  BY <1>1, <1>2, <1>3 DEF Exchange, ExchangeInv, LastAsked, LastAnswered
<1>5. ASSUME ~ slip
      PROVE  opened' /\ Working'
  <2>1. opened /\ Asking
    BY <1>1, <1>5
    DEF ExchangeInv, InPlace, Resting, Working, Answering, Unanswered, At
  <2>2. toCard = <<Command>> /\ toTerm = <<>> /\ Odd(TermCtr) /\ c = TermCtr
        /\ at["terminal"] = "waiting" /\ smAsked = LastAsked
    BY <2>1 DEF Asking, At
  <2>3. m = Command /\ toCard' = <<>>
    BY <1>1, <2>2
  <2>4. Fits(lens.n, lens.r)
    BY ExchangeState DEF LengthsFit
  <2>5. /\ SM!CmdFormat(m) /\ m.mac = <<m.y, m.le>> /\ SM!ReadLe(m) = lens.r
        /\ m.y = SM!Y(smAsked.id, lens.n, TermCtr)
    <3> HIDE DEF m
    <3>1. QED
      BY <2>3, <2>4, CmdRead DEF Command
  <2>6. SM!Parity(c, 1)
    BY <2>2, ExchangeState, CtrFlips
  <2>7. ok
    BY <2>5, <2>6
  <2>8. SM!Opened(m.y, c) = smAsked.id /\ m.y.n = lens.n
    <3> HIDE DEF m, c
    <3>1. QED
      BY <2>2, <2>5 DEF SM!Y, SM!Opened
  <2>9. smAsked = read
    BY <2>2, <2>5, <2>8 DEF LastAsked
  <2> HIDE DEF m, c, ok, read
  <2>10. opened' /\ at'["card"] = "busy" /\ at'["terminal"] = "waiting"
    BY <1>1, <1>3, <2>1, <2>2, <2>7, <2>9
  <2>11. (CardCtr = TermCtr)' /\ Odd(TermCtr)'
    BY <1>2, <2>2 DEF Odd
  <2>12. QED
    BY <1>1, <2>2, <2>3, <2>10, <2>11 DEF Working, At
<1>6. QED
  BY <1>1, <1>4, <1>5 DEF ExchangeInv, InPlace

LEMMA CardAnswers ==
  ASSUME ExchangeInv, SM!CardSends
  PROVE  ExchangeInv'
<1> DEFINE c == SM!CtrInc(CardCtr)
           sent == SM!RespCode(ids + 1, lens.r, c)
           filed == [id |-> ids + 1, n |-> lens.r, r |-> 0]
<1>1. /\ at["card"] = "busy" /\ at' = [at EXCEPT !["card"] = "idle"]
      /\ smCtr' = [smCtr EXCEPT !["card"] = c]
      /\ UNCHANGED <<lens, toCard, smAsked, opened, slip>>
      /\ \/ toTerm' = Append(toTerm, sent) /\ answered' = filed
         \/ UNCHANGED <<toTerm, answered>> /\ ~ SM!Parity(c, 0)
  BY DEF SM!CardSends, CardCtr
<1>2. /\ CardCtr' = c /\ TermCtr' = TermCtr
      /\ smCtr' \in [SM!Parties -> SM!Ctrs] /\ c \in SM!Ctrs
      /\ Odd(c) <=> ~ Odd(CardCtr)
      /\ SM!Parity(c, 0) <=> ~ Odd(c)
  BY <1>1, CardMoves, ExchangeState, CtrFlips
<1>3. /\ at' \in [SM!Parties -> {"idle", "waiting", "busy"}]
      /\ at'["card"] = "idle" /\ at'["terminal"] = at["terminal"]
  BY <1>1, CardGoes
<1>4. Exchange'
  <2>1. answered' # SM!NoData => answered' = LastAnswered'
    BY <1>1 DEF ExchangeInv, Exchange, LastAnswered
  <2>2. QED
    BY <1>1, <1>2, <1>3, <2>1 DEF Exchange, ExchangeInv, LastAsked
<1>5. ASSUME ~ slip
      PROVE  opened' /\ Answering'
  <2>1. opened /\ Working
    BY <1>1, <1>5
    DEF ExchangeInv, InPlace, Resting, Asking, Answering, Unanswered, At
  <2>2. toCard = <<>> /\ toTerm = <<>> /\ Odd(TermCtr) /\ CardCtr = TermCtr
        /\ at["terminal"] = "waiting"
    BY <2>1 DEF Working, At
  <2>3. toTerm' = <<sent>> /\ answered' = filed
    BY <1>1, <1>2, <2>2
  <2>4. answered' = LastAnswered' /\ answered'.id = ids + 1
    BY <1>1, <2>3 DEF LastAnswered
  <2>5. Answer' = sent
    BY <1>1, <1>2, <2>4 DEF Answer
  <2>6. (CardCtr = SM!CtrInc(TermCtr))' /\ Odd(TermCtr)'
    BY <1>2, <2>2 DEF Odd, SM!CtrInc, SM!Digits
  <2> HIDE DEF sent, filed, c
  <2>7. QED
    BY <1>1, <1>3, <2>1, <2>2, <2>3, <2>4, <2>5, <2>6 DEF Answering, At
<1>6. QED
  BY <1>1, <1>4, <1>5 DEF ExchangeInv, InPlace

LEMMA TerminalOpens ==
  ASSUME LengthsFit, ExchangeInv, SM!TerminalReceives
  PROVE  ExchangeInv'
<1> DEFINE c == SM!CtrInc(TermCtr)
           m == Head(toTerm)
           ok == SM!RespFormat(m) /\ SM!Parity(c, 0) /\ m.mac = <<m.y>>
           read == [id |-> SM!Opened(m.y, c), n |-> m.y.n, r |-> 0]
<1>1. /\ toTerm # <<>> /\ at["terminal"] = "waiting"
      /\ at' = [at EXCEPT !["terminal"] = "idle"]
      /\ smCtr' = [smCtr EXCEPT !["terminal"] = c] /\ toTerm' = Tail(toTerm)
      /\ UNCHANGED <<lens, toCard, smAsked, answered, slip>>
      /\ opened' = (opened /\ ok /\ answered = read)
  BY DEF SM!TerminalReceives, TermCtr
<1>2. /\ TermCtr' = c /\ CardCtr' = CardCtr
      /\ smCtr' \in [SM!Parties -> SM!Ctrs] /\ c \in SM!Ctrs
      /\ Odd(c) <=> ~ Odd(TermCtr)
      /\ SM!Parity(c, 0) <=> ~ Odd(c)
  BY <1>1, TermMoves, ExchangeState, CtrFlips
<1>3. /\ at' \in [SM!Parties -> {"idle", "waiting", "busy"}]
      /\ at'["terminal"] = "idle" /\ at'["card"] = at["card"]
  BY <1>1, TermGoes
<1>4. Exchange'
  BY <1>1, <1>2, <1>3 DEF Exchange, ExchangeInv, LastAsked, LastAnswered
<1>5. ASSUME ~ slip
      PROVE  opened' /\ Resting'
  <2>1. opened /\ Answering
    BY <1>1, <1>5
    DEF ExchangeInv, InPlace, Resting, Asking, Working, Unanswered, At
  <2>2. toCard = <<>> /\ toTerm = <<Answer>> /\ Odd(TermCtr) /\ CardCtr = c
        /\ at["card"] = "idle" /\ answered = LastAnswered
    BY <2>1 DEF Answering, At
  <2>3. m = Answer /\ toTerm' = <<>>
    BY <1>1, <2>2
  <2>4. lens.r \in Nat
    BY ExchangeState DEF LengthsFit, Fits
  <2>5. /\ SM!RespFormat(m) /\ m.mac = <<m.y>>
        /\ m.y = SM!Y(answered.id, lens.r, CardCtr)
    <3> HIDE DEF m
    <3>1. m = SM!RespCode(answered.id, lens.r, CardCtr)
      BY <2>3 DEF Answer
    <3>2. QED
      BY <2>4, <3>1, RespRead
  <2>6. SM!Parity(c, 0)
    BY <1>2, <2>2
  <2>7. ok
    BY <2>5, <2>6
  <2>8. SM!Opened(m.y, c) = answered.id /\ m.y.n = lens.r
    <3> HIDE DEF m, c
    <3>1. QED
      BY <2>2, <2>5 DEF SM!Y, SM!Opened
  <2>9. answered = read
    BY <2>2, <2>5, <2>8 DEF LastAnswered
  <2> HIDE DEF m, ok, read
  <2>10. opened'
    BY <1>1, <2>1, <2>7, <2>9
  <2>11. (CardCtr = TermCtr)' /\ ~ Odd(TermCtr)'
    BY <1>2, <2>2 DEF Odd
  <2>12. QED
    BY <1>1, <1>3, <2>2, <2>3, <2>10, <2>11 DEF Resting, At
<1>6. QED
  BY <1>1, <1>4, <1>5 DEF ExchangeInv, InPlace

LEMMA TerminalGivesUp ==
  ASSUME ExchangeInv, SM!TimesOut
  PROVE  ExchangeInv'
<1>1. /\ at["terminal"] = "waiting" /\ at' = [at EXCEPT !["terminal"] = "idle"]
      /\ UNCHANGED <<lens, smCtr, toCard, toTerm, smAsked, answered, opened>>
      /\ (SM!Quiet /\ slip' = slip) \/ slip' = TRUE
  BY DEF SM!TimesOut
<1>2. /\ at' \in [SM!Parties -> {"idle", "waiting", "busy"}]
      /\ at'["terminal"] = "idle" /\ at'["card"] = at["card"]
  BY <1>1, TermGoes
<1>3. Exchange'
  BY <1>1, <1>2 DEF Exchange, ExchangeInv, LastAsked, LastAnswered
<1>4. ASSUME ~ slip, SM!Quiet
      PROVE  opened' /\ Resting'
  <2>1. opened /\ Unanswered
    BY <1>1, <1>4
    DEF SM!Quiet, ExchangeInv, InPlace, Resting, Asking, Working, Answering, At
  <2>2. QED
    BY <1>1, <1>2, <2>1 DEF Unanswered, Resting, At, TermCtr, CardCtr, Odd,
       SM!CtrInc, SM!Digits
<1>5. QED
  BY <1>1, <1>3, <1>4 DEF ExchangeInv, InPlace

LEMMA LineLoses ==
  ASSUME ExchangeInv, SM!Loses
  PROVE  ExchangeInv'
<1>1. /\ UNCHANGED <<lens, smCtr, at, smAsked, answered, opened>>
      /\ \/ slip' = TRUE
         \/ toTerm # <<>> /\ toTerm' = Tail(toTerm) /\ UNCHANGED <<toCard, slip>>
  BY DEF SM!Loses
<1>2. Exchange'
  BY <1>1 DEF Exchange, ExchangeInv, LastAsked, LastAnswered
<1>3. ASSUME ~ slip, toTerm # <<>>, toTerm' = Tail(toTerm), toCard' = toCard
      PROVE  opened' /\ Unanswered'
  <2>1. opened /\ Answering
    BY <1>3 DEF ExchangeInv, InPlace, Resting, Asking, Working, Unanswered
  <2>2. toTerm' = <<>>
    <3>1. toTerm = <<Answer>>
      BY <2>1 DEF Answering
    <3>2. QED
      BY <1>3, <3>1
  <2>3. QED
    BY <1>1, <1>3, <2>1, <2>2
    DEF Unanswered, Answering, At, TermCtr, CardCtr, Odd, SM!CtrInc, SM!Digits
<1>4. QED
  BY <1>1, <1>2, <1>3 DEF ExchangeInv, InPlace

(* What is accepted is what was protected last, whatever arrives is        *)
(* accepted, and the counters meet again between exchanges, unless a       *)
(* command was lost or the terminal gave up too early; the lengths told    *)
(* for a null apdu are the lengths written (btok_sm.c).                    *)
THEOREM AsSentCorrect ==
  ASSUME LengthsFit
  PROVE  MCSpec => []AsSent
<1>1. MCInit => ExchangeInv
  <2> SUFFICES ASSUME SM!Init
               PROVE  ExchangeInv
    BY DEF MCInit
  <2>1. /\ lens \in [n : CdfLens, r : RdfLens]
        /\ smCtr = [p \in SM!Parties |-> SM!Zero]
        /\ at = [p \in SM!Parties |-> "idle"]
        /\ toCard = <<>> /\ toTerm = <<>> /\ opened
        /\ smAsked = SM!NoData /\ answered = SM!NoData
    BY DEF SM!Init
  <2>2. SM!Zero \in SM!Ctrs /\ ~ Odd(SM!Zero)
    BY SmConstants DEF SM!Zero, SM!Ctrs, SM!Digits, Odd
  <2>3. Exchange
    BY <2>1, <2>2 DEF Exchange
  <2>4. TermCtr = SM!Zero /\ CardCtr = SM!Zero /\ At("idle", "idle")
    BY <2>1 DEF TermCtr, CardCtr, At, SM!Parties
  <2>5. Resting
    BY <2>1, <2>2, <2>4 DEF Resting
  <2>6. QED
    BY <2>1, <2>3, <2>5 DEF ExchangeInv, InPlace
<1>2. ExchangeInv /\ [MCNext]_all => ExchangeInv'
  <2> SUFFICES ASSUME ExchangeInv, [MCNext]_all
               PROVE  ExchangeInv'
    OBVIOUS
  <2>1. CASE UNCHANGED smVars
    <3>1. UNCHANGED <<lens, smCtr, at, toCard, toTerm, smAsked, answered,
                      opened, slip>>
      BY <2>1 DEF smVars
    <3>2. Exchange' = Exchange /\ InPlace' = InPlace
      BY <3>1 DEF Exchange, InPlace, Resting, Asking, Working, Answering,
         Unanswered, At, TermCtr, CardCtr, LastAsked, LastAnswered, Command,
         Answer, Odd, SM!CtrInc, SM!Digits
    <3>3. QED
      BY <3>1, <3>2 DEF ExchangeInv
  <2>2. UNCHANGED smVars \/ SM!Next
    BY DEF MCNext, all
  <2>3. QED
    BY <2>1, <2>2, TerminalAsks, CardOpens, CardAnswers, TerminalOpens,
       TerminalGivesUp, LineLoses
    DEF SM!Next
<1>3. ExchangeInv => AsSent
  <2> SUFFICES ASSUME ExchangeInv
               PROVE  AsSent
    OBVIOUS
  <2>1. Fits(lens.n, lens.r)
    BY ExchangeState DEF LengthsFit
  <2>2. SM!AsSent
    BY DEF ExchangeInv, SM!AsSent
  <2>3. SM!InStep
    <3> SUFFICES ASSUME ~ slip, at["terminal"] = "idle"
                 PROVE  CardCtr \in {TermCtr, SM!CtrInc(TermCtr)}
      BY DEF SM!InStep, TermCtr, CardCtr
    <3>1. Resting
      BY DEF ExchangeInv, InPlace, Asking, Working, Answering, Unanswered, At
    <3>2. QED
      BY <3>1 DEF Resting
  <2>4. SM!SizeTold
    <3>1. ASSUME smAsked # SM!NoData
          PROVE  /\ SM!CmdCode(smAsked.id, smAsked.n, smAsked.r, SM!Zero).count
                      = SM!CmdCount(smAsked.n, smAsked.r)
                 /\ 4 + Len(SM!Codec!Lc(smAsked.n, smAsked.r)) + smAsked.n
                      + Len(SM!Codec!Le(smAsked.n, smAsked.r))
                      <= SM!CmdCount(smAsked.n, smAsked.r)
      <4>1. smAsked = LastAsked
        BY <3>1 DEF ExchangeInv, Exchange
      <4>2. smAsked.n = lens.n /\ smAsked.r = lens.r
        BY <4>1 DEF LastAsked
      <4>3. Fits(smAsked.n, smAsked.r)
        BY <2>1, <4>2
      <4>4. PICK m : m = SM!CmdCode(smAsked.id, smAsked.n, smAsked.r, SM!Zero)
        OBVIOUS
      <4>5. /\ m.count = SM!CmdCount(smAsked.n, smAsked.r)
            /\ HasRoom(smAsked.n, smAsked.r)
        BY <4>3, <4>4, CmdRead
      <4>6. QED
        BY <4>4, <4>5 DEF HasRoom
    <3>2. ASSUME answered # SM!NoData
          PROVE  SM!RespCode(answered.id, answered.n, SM!Zero).count
                   = SM!RespCount(answered.n)
      <4>1. answered = LastAnswered
        BY <3>2 DEF ExchangeInv, Exchange
      <4>2. answered.n \in Nat
        BY <2>1, <4>1 DEF LastAnswered, Fits
      <4>3. QED
        BY <4>2, RespRead
    <3>3. QED
      BY <3>1, <3>2 DEF SM!SizeTold
  <2>5. QED
    BY <2>2, <2>3, <2>4 DEF AsSent
<1>4. QED
  BY <1>1, <1>2, <1>3, PTL DEF MCSpec

-----------------------------------------------------------------------------
(* Codes of commands and responses.                                        *)

(* The three pieces of a sequence are found again at their places.         *)
LEMMA Pieces ==
  ASSUME NEW S, NEW a \in Seq(S), NEW b \in Seq(S), NEW c \in Seq(S)
  PROVE  /\ a \o b \o c \in Seq(S)
         /\ Len(a \o b \o c) = Len(a) + Len(b) + Len(c)
         /\ SubSeq(a \o b \o c, 1, Len(a)) = a
         /\ SubSeq(a \o b \o c, Len(a) + 1, Len(a) + Len(b)) = b
         /\ SubSeq(a \o b \o c, Len(a) + Len(b) + 1, Len(a) + Len(b) + Len(c)) = c
<1> DEFINE s == a \o b \o c
           x == SubSeq(s, 1, Len(a))
           y == SubSeq(s, Len(a) + 1, Len(a) + Len(b))
           z == SubSeq(s, Len(a) + Len(b) + 1, Len(a) + Len(b) + Len(c))
<1>1. /\ Len(a) \in Nat /\ Len(b) \in Nat /\ Len(c) \in Nat
      /\ \A i \in 1 .. Len(a) : a[i] \in S
      /\ \A i \in 1 .. Len(b) : b[i] \in S
      /\ \A i \in 1 .. Len(c) : c[i] \in S
  OBVIOUS
<1>2. /\ a \o b \in Seq(S) /\ Len(a \o b) = Len(a) + Len(b)
      /\ \A i \in 1 .. Len(a) + Len(b) :
           (a \o b)[i] = IF i <= Len(a) THEN a[i] ELSE b[i - Len(a)]
  BY ConcatProperties
<1>3. /\ s \in Seq(S) /\ Len(s) = Len(a) + Len(b) + Len(c)
      /\ \A i \in 1 .. Len(a) + Len(b) + Len(c) :
           s[i] = IF i <= Len(a) + Len(b) THEN (a \o b)[i]
                  ELSE c[i - (Len(a) + Len(b))]
  BY <1>1, <1>2, ConcatProperties
<1> HIDE DEF s
<1>4. /\ \A i \in 1 .. Len(a) : s[i] = a[i]
      /\ \A i \in 1 .. Len(b) : s[Len(a) + i] = b[i]
      /\ \A i \in 1 .. Len(c) : s[Len(a) + Len(b) + i] = c[i]
  <2>1. \A i \in 1 .. Len(a) : s[i] = a[i]
    BY <1>1, <1>2, <1>3
  <2>2. ASSUME NEW i \in 1 .. Len(b)
        PROVE  s[Len(a) + i] = b[i]
    <3>1. /\ Len(a) + i \in 1 .. Len(a) + Len(b) /\ ~ (Len(a) + i <= Len(a))
          /\ Len(a) + i \in 1 .. Len(a) + Len(b) + Len(c) /\ Len(a) + i - Len(a) = i
      BY <1>1
    <3>2. QED
      BY <1>2, <1>3, <3>1
  <2>3. ASSUME NEW i \in 1 .. Len(c)
        PROVE  s[Len(a) + Len(b) + i] = c[i]
    <3>1. /\ Len(a) + Len(b) + i \in 1 .. Len(a) + Len(b) + Len(c)
          /\ ~ (Len(a) + Len(b) + i <= Len(a) + Len(b))
          /\ Len(a) + Len(b) + i - (Len(a) + Len(b)) = i
      BY <1>1
    <3>2. QED
      BY <1>3, <3>1
  <2>4. QED
    BY <2>1, <2>2, <2>3
<1>5. x = a
  <2>1. \A i \in 1 .. Len(a) : s[i] \in S
    BY <1>1, <1>4
  <2>2. /\ x \in Seq(S) /\ Len(x) = Len(a)
        /\ \A i \in 1 .. Len(a) : x[i] = s[i]
    BY <1>1, <2>1, SubSeqProperties
  <2> HIDE DEF x
  <2>3. QED
    BY <1>1, <1>4, <2>2, SeqEqual
<1>6. y = b
  <2>1. \A i \in Len(a) + 1 .. Len(a) + Len(b) : s[i] \in S
    <3> TAKE i \in Len(a) + 1 .. Len(a) + Len(b)
    <3>1. i - Len(a) \in 1 .. Len(b) /\ i = Len(a) + (i - Len(a))
      BY <1>1
    <3>2. QED
      BY <1>1, <1>4, <3>1
  <2>2. /\ y \in Seq(S) /\ Len(y) = Len(b)
        /\ \A i \in 1 .. Len(b) : y[i] = s[Len(a) + i]
    <3>1. /\ y \in Seq(S)
          /\ Len(y) = IF Len(a) + 1 <= Len(a) + Len(b)
                      THEN Len(a) + Len(b) - (Len(a) + 1) + 1 ELSE 0
          /\ \A i \in 1 .. Len(a) + Len(b) - (Len(a) + 1) + 1 :
               y[i] = s[Len(a) + 1 + i - 1]
      BY <1>1, <2>1, SubSeqProperties
    <3> HIDE DEF y
    <3>2. \A i \in 1 .. Len(b) : Len(a) + 1 + i - 1 = Len(a) + i
      BY <1>1
    <3>3. QED
      BY <1>1, <3>1, <3>2
  <2> HIDE DEF y
  <2>3. QED
    BY <1>1, <1>4, <2>2, SeqEqual
<1>7. z = c
  <2>1. \A i \in Len(a) + Len(b) + 1 .. Len(a) + Len(b) + Len(c) : s[i] \in S
    <3> TAKE i \in Len(a) + Len(b) + 1 .. Len(a) + Len(b) + Len(c)
    <3>1. /\ i - (Len(a) + Len(b)) \in 1 .. Len(c)
          /\ i = Len(a) + Len(b) + (i - (Len(a) + Len(b)))
      BY <1>1
    <3>2. QED
      BY <1>1, <1>4, <3>1
  <2>2. /\ z \in Seq(S) /\ Len(z) = Len(c)
        /\ \A i \in 1 .. Len(c) : z[i] = s[Len(a) + Len(b) + i]
    <3>1. PICK k \in Nat : k = Len(a) + Len(b)
      BY <1>1
    <3>2. /\ z \in Seq(S)
          /\ Len(z) = IF k + 1 <= k + Len(c)
                      THEN k + Len(c) - (k + 1) + 1 ELSE 0
          /\ \A i \in 1 .. k + Len(c) - (k + 1) + 1 : z[i] = s[k + 1 + i - 1]
      BY <1>1, <2>1, <3>1, SubSeqProperties
    <3> HIDE DEF z
    <3>3. \A i \in 1 .. Len(c) : k + 1 + i - 1 = k + i
      BY <1>1
    <3>4. QED
      BY <1>1, <3>1, <3>2, <3>3
  <2> HIDE DEF z
  <2>3. QED
    BY <1>1, <1>4, <2>2, SeqEqual
<1>8. QED
  BY <1>3, <1>5, <1>6, <1>7 DEF s

(* Octets of a number, for octets of any size.                             *)
LEMMA Digits2 ==
  ASSUME NEW k \in Nat, k <= Base * Base
  PROVE  /\ k % Base \in Apdu!Octets /\ (k \div Base) % Base \in Apdu!Octets
         /\ k < Base * Base => ((k \div Base) % Base) * Base + (k % Base) = k
         /\ k = Base * Base => ((k \div Base) % Base) * Base + (k % Base) = 0
         /\ k < Base => k % Base = k
         /\ k = Base => k % Base = 0
<1> DEFINE q == k \div Base
           r == k % Base
<1>1. Base \in Nat /\ Base >= 2
  BY BotpAssumption
<1>2. q \in Nat /\ r \in 0 .. Base - 1 /\ k = Base * q + r
  BY <1>1, SMTT(30)
<1>3. q % Base \in 0 .. Base - 1
  BY <1>1, <1>2, SMTT(30)
<1>4. k < Base * Base => q < Base
  BY <1>1, <1>2, SMTT(30)
<1>5. q < Base => q % Base = q
  BY <1>1, <1>2, SMTT(30)
<1>6. k = Base * Base => q = Base /\ r = 0
  BY <1>1, <1>2, SMTT(30)
<1>7. q = Base => q % Base = 0
  BY <1>1, SMTT(30)
<1>8. k < Base => r = k
  BY <1>1, SMTT(30)
<1>9. k = Base => r = 0
  BY <1>1, SMTT(30)
<1> HIDE DEF q, r
<1>10. q * Base = Base * q /\ 0 * Base = 0
  BY <1>1, <1>2, SMTT(30)
<1>11. k < Base * Base => (q % Base) * Base + r = k
  BY <1>2, <1>4, <1>5, <1>10
<1>12. k = Base * Base => (q % Base) * Base + r = 0
  BY <1>6, <1>7, <1>10
<1>13. QED
  BY <1>2, <1>3, <1>8, <1>9, <1>11, <1>12 DEF q, r, Apdu!Octets

LEMMA Octets2 ==
  ASSUME NEW a \in Apdu!Octets, NEW b \in Apdu!Octets
  PROVE  a * Base + b \in Nat /\ a * Base + b < Base * Base
<1>1. Base \in Nat /\ Base >= 2 /\ a \in Nat /\ b \in Nat /\ a <= Base - 1 /\ b <= Base - 1
  BY BotpAssumption DEF Apdu!Octets
<1>2. a * Base <= (Base - 1) * Base
  BY <1>1, SMTT(30)
<1>3. (Base - 1) * Base = Base * Base - Base
  BY <1>1, SMTT(30)
<1>4. a * Base \in Nat /\ Base * Base \in Nat
  BY <1>1, SMTT(30)
<1>5. QED
  BY <1>1, <1>2, <1>3, <1>4

LEMMA BaseSquared ==
  Base \in Nat /\ Base >= 2 /\ Base * Base \in Nat /\ Base < Base * Base
<1>1. Base \in Nat /\ Base >= 2
  BY BotpAssumption
<1>2. Base * Base \in Nat /\ Base * Base >= 2 * Base
  BY <1>1, SMTT(30)
<1>3. QED
  BY <1>1, <1>2

(* The commands a caller may code.                                         *)
Coded == {c \in [cdf : Seq(Apdu!Octets), rdf_len : Nat] : Apdu!CmdIsValid(c)}

(* What an Lc is: no octet, one or three.                                  *)
LEMMA LcForms ==
  ASSUME NEW n \in Nat, NEW r \in Nat, n < Base * Base
  PROVE  /\ Apdu!Lc(n, r) \in Seq(Apdu!Octets)
         /\ n = 0 => Apdu!Lc(n, r) = <<>> /\ Len(Apdu!Lc(n, r)) = 0
         /\ n # 0 /\ Apdu!Short(n, r) => Apdu!Lc(n, r) = <<n>> /\ Len(Apdu!Lc(n, r)) = 1
         /\ n # 0 /\ ~ Apdu!Short(n, r) =>
              /\ Apdu!Lc(n, r) = <<0, (n \div Base) % Base, n % Base>>
              /\ Len(Apdu!Lc(n, r)) = 3
<1> DEFINE x == (n \div Base) % Base
           y == n % Base
<1>1. x \in Apdu!Octets /\ y \in Apdu!Octets /\ (n < Base => y = n) /\ 0 \in Apdu!Octets
  <2>1. n <= Base * Base
    BY BaseSquared
  <2>2. 0 \in Apdu!Octets
    BY BaseSquared DEF Apdu!Octets
  <2>3. QED
    BY <2>1, <2>2, Digits2
<1>2. x \in Nat /\ y \in Nat
  BY <1>1 DEF Apdu!Octets
<1>3. CASE n = 0
  BY <1>3 DEF Apdu!Lc
<1>4. CASE n # 0 /\ Apdu!Short(n, r)
  <2>1. Apdu!Lc(n, r) = <<y>>
    BY <1>4 DEF Apdu!Lc, Apdu!One
  <2>2. y = n
    BY <1>1, <1>4 DEF Apdu!Short
  <2> HIDE DEF x, y
  <2>3. QED
    BY <1>1, <1>4, <2>1, <2>2
<1>5. CASE n # 0 /\ ~ Apdu!Short(n, r)
  <2>1. Apdu!Lc(n, r) = <<0>> \o <<x, y>>
    BY <1>5 DEF Apdu!Lc, Apdu!Two
  <2> HIDE DEF x, y
  <2>2. Apdu!Lc(n, r) = <<0, x, y>> /\ Len(<<0, x, y>>) = 3
    BY <1>2, <2>1, ThreeOctets
  <2>3. <<0, x, y>> \in Seq(Apdu!Octets)
    BY <1>1
  <2>4. QED
    BY <1>5, <2>2, <2>3 DEF x, y
<1>6. QED
  BY <1>3, <1>4, <1>5

(* What an Le is: no octet, one, two after an Lc, or three.                *)
LEMMA LeFormsOfAny ==
  ASSUME NEW n \in Nat, NEW r \in Nat, r <= Base * Base
  PROVE  /\ Apdu!Le(n, r) \in Seq(Apdu!Octets)
         /\ r = 0 => Apdu!Le(n, r) = <<>> /\ Len(Apdu!Le(n, r)) = 0
         /\ r # 0 /\ Apdu!Short(n, r) =>
              Apdu!Le(n, r) = <<r % Base>> /\ Len(Apdu!Le(n, r)) = 1
         /\ r # 0 /\ ~ Apdu!Short(n, r) /\ n > 0 =>
              /\ Apdu!Le(n, r) = <<(r \div Base) % Base, r % Base>>
              /\ Len(Apdu!Le(n, r)) = 2
         /\ r # 0 /\ ~ Apdu!Short(n, r) /\ n = 0 =>
              /\ Apdu!Le(n, r) = <<0, (r \div Base) % Base, r % Base>>
              /\ Len(Apdu!Le(n, r)) = 3
<1> DEFINE x == (r \div Base) % Base
           y == r % Base
<1>1. x \in Apdu!Octets /\ y \in Apdu!Octets /\ 0 \in Apdu!Octets
  BY BaseSquared, Digits2 DEF Apdu!Octets
<1>2. x \in Nat /\ y \in Nat
  BY <1>1 DEF Apdu!Octets
<1>3. CASE r = 0
  BY <1>3 DEF Apdu!Le
<1>4. CASE r # 0 /\ Apdu!Short(n, r)
  <2>1. Apdu!Le(n, r) = <<y>>
    BY <1>4 DEF Apdu!Le, Apdu!One
  <2> HIDE DEF x, y
  <2>2. <<y>> \in Seq(Apdu!Octets) /\ Len(<<y>>) = 1
    BY <1>1
  <2>3. QED
    BY <1>4, <2>1, <2>2 DEF y
<1>5. CASE r # 0 /\ ~ Apdu!Short(n, r) /\ n > 0
  <2>1. Apdu!Le(n, r) = <<x, y>>
    BY <1>5 DEF Apdu!Le, Apdu!Two
  <2> HIDE DEF x, y
  <2>2. <<x, y>> \in Seq(Apdu!Octets) /\ Len(<<x, y>>) = 2
    BY <1>1
  <2>3. QED
    BY <1>5, <2>1, <2>2 DEF x, y
<1>6. CASE r # 0 /\ ~ Apdu!Short(n, r) /\ n = 0
  <2>1. Apdu!Le(n, r) = <<0>> \o <<x, y>>
    BY <1>6 DEF Apdu!Le, Apdu!Two
  <2> HIDE DEF x, y
  <2>2. Apdu!Le(n, r) = <<0, x, y>> /\ Len(<<0, x, y>>) = 3
    BY <1>2, <2>1, ThreeOctets
  <2>3. <<0, x, y>> \in Seq(Apdu!Octets)
    BY <1>1
  <2>4. ~ (n > 0) /\ r # 0 /\ ~ Apdu!Short(n, r) /\ n = 0
    BY <1>6
  <2>5. Apdu!Le(n, r) \in Seq(Apdu!Octets) /\ Len(Apdu!Le(n, r)) = 3
    BY <2>2, <2>3
  <2>6. Apdu!Le(n, r) = <<0, (r \div Base) % Base, r % Base>>
    BY <2>2 DEF x, y
  <2>7. QED
    BY <2>4, <2>5, <2>6
<1>7. QED
  BY <1>3, <1>4, <1>5, <1>6

(* What LeNumber() makes of the octets of a number.                        *)
LEMMA LeNumberRead ==
  ASSUME NEW r \in Nat, r # 0, r <= Base * Base
  PROVE  /\ Apdu!LeNumber(<<(r \div Base) % Base, r % Base>>) = r
         /\ r <= Base => Apdu!LeNumber(<<r % Base>>) = r
<1> DEFINE x == (r \div Base) % Base
           y == r % Base
<1>1. /\ x \in Apdu!Octets /\ y \in Apdu!Octets
      /\ r < Base * Base => x * Base + y = r
      /\ r = Base * Base => x * Base + y = 0
      /\ r < Base => y = r
      /\ r = Base => y = 0
  BY Digits2
<1>2. r < Base * Base \/ r = Base * Base
  BY BaseSquared
<1>3. r <= Base => r < Base \/ r = Base
  BY BaseSquared
<1> HIDE DEF x, y
<1> DEFINE s == <<x, y>>
           t == <<y>>
<1>4. Len(s) = 2 /\ s[1] = x /\ s[2] = y /\ Len(t) = 1 /\ t[1] = y
  OBVIOUS
<1> HIDE DEF s, t
<1>5. Apdu!Number(s) = x * Base + y /\ Apdu!Number(t) = y
  BY <1>4 DEF Apdu!Number
<1>6. Apdu!LeNumber(s) = IF x * Base + y # 0 THEN x * Base + y ELSE Base * Base
  BY <1>4, <1>5 DEF Apdu!LeNumber
<1>7. Apdu!LeNumber(t) = IF y # 0 THEN y ELSE Base
  BY <1>4, <1>5 DEF Apdu!LeNumber
<1>8. QED
  BY <1>1, <1>2, <1>3, <1>6, <1>7 DEF s, t, x, y

(* apduCmdDec() reads back what apduCmdEnc() wrote: no octets of data are  *)
(* taken for a length, and no short form for an extended one.              *)
LEMMA CmdReadBack ==
  ASSUME NEW c \in Coded
  PROVE  Apdu!CmdDec(Apdu!CmdEnc(c)) = c
<1> DEFINE n == Len(c.cdf)
           r == c.rdf_len
           lc == Apdu!Lc(n, r)
           le == Apdu!Le(n, r)
           enc == lc \o c.cdf \o le
<1>1. /\ c \in [cdf : Seq(Apdu!Octets), rdf_len : Nat]
      /\ n \in Nat /\ r \in Nat /\ c.cdf \in Seq(Apdu!Octets)
      /\ n < Base * Base /\ r <= Base * Base
  BY DEF Coded, Apdu!CmdIsValid
<1>2. Apdu!CmdEnc(c) = enc
  BY DEF Apdu!CmdEnc
<1>3. /\ lc \in Seq(Apdu!Octets)
      /\ n = 0 => lc = <<>> /\ Len(lc) = 0
      /\ n # 0 /\ Apdu!Short(n, r) => lc = <<n>> /\ Len(lc) = 1
      /\ n # 0 /\ ~ Apdu!Short(n, r) =>
           lc = <<0, (n \div Base) % Base, n % Base>> /\ Len(lc) = 3
  BY <1>1, LcForms
<1>4. /\ le \in Seq(Apdu!Octets)
      /\ r = 0 => le = <<>> /\ Len(le) = 0
      /\ r # 0 /\ Apdu!Short(n, r) => le = <<r % Base>> /\ Len(le) = 1
      /\ r # 0 /\ ~ Apdu!Short(n, r) /\ n > 0 =>
           le = <<(r \div Base) % Base, r % Base>> /\ Len(le) = 2
      /\ r # 0 /\ ~ Apdu!Short(n, r) /\ n = 0 =>
           le = <<0, (r \div Base) % Base, r % Base>> /\ Len(le) = 3
  BY <1>1, LeFormsOfAny
<1>5. /\ enc \in Seq(Apdu!Octets)
      /\ Len(enc) = Len(lc) + n + Len(le)
      /\ SubSeq(enc, 1, Len(lc)) = lc
      /\ SubSeq(enc, Len(lc) + 1, Len(lc) + n) = c.cdf
      /\ SubSeq(enc, Len(lc) + n + 1, Len(lc) + n + Len(le)) = le
  <2>1. lc \in Seq(Apdu!Octets) /\ c.cdf \in Seq(Apdu!Octets) /\ le \in Seq(Apdu!Octets)
    BY <1>1, <1>3, <1>4
  <2> HIDE DEF lc, le
  <2>2. enc \in Seq(Apdu!Octets)
    BY <2>1, Pieces
  <2>3. Len(enc) = Len(lc) + n + Len(le)
    BY <2>1, Pieces
  <2>4. SubSeq(enc, 1, Len(lc)) = lc
    BY <2>1, Pieces
  <2>5. SubSeq(enc, Len(lc) + 1, Len(lc) + n) = c.cdf
    <3>1. \A b \in Seq(Apdu!Octets) :
            SubSeq(lc \o b \o le, Len(lc) + 1, Len(lc) + Len(b)) = b
      BY <2>1, Pieces
    <3>2. QED
      BY <2>1, <3>1
  <2>6. SubSeq(enc, Len(lc) + n + 1, Len(lc) + n + Len(le)) = le
    <3>1. \A b \in Seq(Apdu!Octets) :
            SubSeq(lc \o b \o le, Len(lc) + Len(b) + 1, Len(lc) + Len(b) + Len(le)) = le
      BY <2>1, Pieces
    <3>2. QED
      BY <2>1, <3>1
  <2>7. QED
    BY <2>2, <2>3, <2>4, <2>5, <2>6
<1>6. Apdu!Short(n, r) <=> n < Base /\ r <= Base
  BY DEF Apdu!Short
<1>7. c = Apdu!Cmd(c.cdf, r)
  BY <1>1 DEF Apdu!Cmd
<1>8. Apdu!NoCmd.rdf_len = Base * Base + 1 /\ r # Apdu!NoCmd.rdf_len
  BY <1>1, BaseSquared DEF Apdu!NoCmd
<1>9. ASSUME Apdu!LcLen(enc) = Len(lc),
             Len(lc) = 0 => n = 0,
             Len(lc) = 1 => enc[1] = n,
             Len(lc) = 3 => Apdu!Number(SubSeq(enc, 2, 3)) = n,
             Len(lc) \in {0, 1, 3},
             Apdu!DecLe(Len(lc), n, le) = r
      PROVE  Apdu!CmdDec(enc) = c
  <2> DEFINE k == CASE Apdu!LcLen(enc) = 0 -> 0
                    [] Apdu!LcLen(enc) = 1 -> enc[1]
                    [] Apdu!LcLen(enc) = 3 -> Apdu!Number(SubSeq(enc, 2, 3))
                    [] OTHER -> Len(enc)
  <2>1. k = n
    BY <1>9
  <2> HIDE DEF n, r, lc, le, enc, k
  <2>2. Len(lc) \in Nat /\ Len(le) \in Nat /\ n \in Nat
    BY <1>1, <1>3, <1>4
  <2>3. ~ (Len(lc) + n > Len(enc))
    BY <1>5, <2>2
  <2>4. SubSeq(enc, Len(lc) + n + 1, Len(enc)) = le
    BY <1>5
  <2>5. Apdu!CmdDec(enc) =
          IF Apdu!LcLen(enc) + k > Len(enc)
             \/ Apdu!DecLe(Apdu!LcLen(enc), k,
                  SubSeq(enc, Apdu!LcLen(enc) + k + 1, Len(enc))) = Apdu!NoCmd.rdf_len
          THEN Apdu!NoCmd
          ELSE Apdu!Cmd(SubSeq(enc, Apdu!LcLen(enc) + 1, Apdu!LcLen(enc) + k),
                 Apdu!DecLe(Apdu!LcLen(enc), k,
                   SubSeq(enc, Apdu!LcLen(enc) + k + 1, Len(enc))))
    BY DEF Apdu!CmdDec, k
  <2>6. Apdu!CmdDec(enc) =
          IF Len(lc) + n > Len(enc) \/ r = Apdu!NoCmd.rdf_len
          THEN Apdu!NoCmd
          ELSE Apdu!Cmd(SubSeq(enc, Len(lc) + 1, Len(lc) + n), r)
    BY <1>9, <2>1, <2>4, <2>5
  <2>7. QED
    BY <1>5, <1>7, <1>8, <2>3, <2>6
<1>10. Apdu!DecLe(Len(lc), n, le) = r
  <2>1. CASE r = 0
    <3>1. Len(le) = 0
      BY <1>4, <2>1
    <3> HIDE DEF n, r, lc, le, enc
    <3>2. QED
      BY <2>1, <3>1 DEF Apdu!DecLe
  <2>2. CASE r # 0 /\ Apdu!Short(n, r)
    <3>1. Len(le) = 1 /\ Apdu!LeNumber(le) = r
      BY <1>1, <1>4, <1>6, <2>2, LeNumberRead
    <3>2. Len(lc) # 3
      BY <1>3, <2>2
    <3> HIDE DEF n, r, lc, le, enc
    <3>3. QED
      BY <3>1, <3>2 DEF Apdu!DecLe
  <2>3. CASE r # 0 /\ ~ Apdu!Short(n, r) /\ n > 0
    <3>1. Len(le) = 2 /\ Apdu!LeNumber(le) = r
      BY <1>1, <1>4, <2>3, LeNumberRead
    <3>2. Len(lc) = 3
      BY <1>1, <1>3, <2>3
    <3> HIDE DEF n, r, lc, le, enc
    <3>3. QED
      BY <2>3, <3>1, <3>2 DEF Apdu!DecLe
  <2>4. CASE r # 0 /\ ~ Apdu!Short(n, r) /\ n = 0
    <3> DEFINE x == (r \div Base) % Base
               y == r % Base
    <3>1. Len(le) = 3 /\ le = <<0, x, y>>
      BY <1>4, <2>4
    <3>2. Apdu!LeNumber(<<x, y>>) = r
      BY <1>1, <2>4, LeNumberRead
    <3>3. x \in Nat /\ y \in Nat
      BY <1>1, Digits2 DEF Apdu!Octets
    <3>4. Len(lc) = 0
      BY <1>3, <2>4
    <3> HIDE DEF x, y
    <3>5. Tail(le) = <<x, y>> /\ le[1] = 0
      BY <3>1, <3>3, ThreeOctets
    <3>6. ~ (r <= Base)
      BY <1>6, <2>4, BaseSquared
    <3> HIDE DEF n, r, lc, le, enc
    <3>7. QED
      BY <3>1, <3>2, <3>4, <3>5, <3>6 DEF Apdu!DecLe
  <2>5. QED
    BY <1>1, <2>1, <2>2, <2>3, <2>4
<1>11. CASE n = 0
  <2>1. Len(lc) = 0 /\ Len(enc) = Len(le)
    BY <1>1, <1>3, <1>4, <1>5, <1>11
  <2>2. Len(le) \in {0, 1, 3}
    BY <1>1, <1>4, <1>11
  <2>3. Len(le) = 3 => enc[1] = 0
    <3>1. SUFFICES ASSUME Len(le) = 3 PROVE enc[1] = 0
      OBVIOUS
    <3>2. le = <<0, (r \div Base) % Base, r % Base>>
      <4> HIDE DEF n, r, le
      <4>1. r # 0 /\ ~ (r # 0 /\ Apdu!Short(n, r)) /\ ~ (n > 0)
        BY <1>4, <1>11, <3>1
      <4>2. QED
        BY <1>4, <1>11, <4>1
    <3>3. le[1] = 0
      BY <3>2
    <3>4. /\ lc \o c.cdf \in Seq(Apdu!Octets) /\ Len(lc \o c.cdf) = 0
      BY <1>1, <1>3, <1>11
    <3> HIDE DEF n, r, lc, le
    <3>5. enc[1] = le[1]
      <4>1. lc \o c.cdf = <<>>
        BY <3>4, EmptySeq
      <4>2. enc = le
        BY <1>4, <4>1, ConcatEmptySeq
      <4>3. QED
        BY <4>2
    <3>6. QED
      BY <3>3, <3>5
  <2> HIDE DEF n, r, lc, le, enc
  <2>4. Apdu!LcLen(enc) = 0
    BY <2>1, <2>2, <2>3 DEF Apdu!LcLen
  <2>5. QED
    BY <1>2, <1>9, <1>10, <1>11, <2>1, <2>4
<1>12. CASE n # 0 /\ Apdu!Short(n, r)
  <2>1. lc = <<n>> /\ Len(lc) = 1
    BY <1>3, <1>12
  <2>2. lc[1] = n
    BY <2>1
  <2>3. Len(le) \in Nat
    BY <1>4
  <2> HIDE DEF n, r, lc, le, enc
  <2>4. Len(enc) > 1
    BY <1>1, <1>5, <1>12, <2>1, <2>3
  <2>5. SubSeq(enc, 1, 1)[1] = enc[1]
    BY <1>5, <2>4
  <2>6. enc[1] = n
    BY <1>5, <2>1, <2>2, <2>5
  <2>7. Apdu!LcLen(enc) = 1
    BY <1>12, <2>4, <2>6 DEF Apdu!LcLen
  <2>8. QED
    BY <1>2, <1>9, <1>10, <2>1, <2>6, <2>7
<1>13. CASE n # 0 /\ ~ Apdu!Short(n, r)
  <2> DEFINE x == (n \div Base) % Base
             y == n % Base
  <2>1. lc = <<0, x, y>> /\ Len(lc) = 3
    BY <1>3, <1>13
  <2>2. x \in Nat /\ y \in Nat /\ x * Base + y = n
    <3>1. n <= Base * Base
      BY <1>1, BaseSquared
    <3> HIDE DEF n
    <3>2. x \in Apdu!Octets /\ y \in Apdu!Octets /\ x * Base + y = n
      BY <1>1, <3>1, Digits2
    <3>3. QED
      BY <3>2 DEF Apdu!Octets
  <2> HIDE DEF x, y
  <2>3. lc[1] = 0 /\ lc[2] = x /\ lc[3] = y
    BY <2>1
  <2>4. Len(le) \in Nat
    BY <1>4
  <2> HIDE DEF n, r, lc, le, enc
  <2>5. Len(enc) \in Nat /\ Len(enc) > 3
    BY <1>1, <1>5, <1>13, <2>1, <2>4
  <2> DEFINE h == SubSeq(enc, 1, 3)
             t == SubSeq(enc, 2, 3)
  <2>6. h[1] = enc[1] /\ h[2] = enc[2] /\ h[3] = enc[3]
    BY <1>5, <2>5
  <2>7. Len(t) = 2 /\ t[1] = enc[2] /\ t[2] = enc[3]
    BY <1>5, <2>5
  <2>8. h = lc
    BY <1>5, <2>1
  <2> HIDE DEF h, t
  <2>9. enc[1] = 0 /\ enc[2] = x /\ enc[3] = y
    BY <2>3, <2>6, <2>8
  <2>10. Apdu!Number(t) = n
    BY <2>2, <2>7, <2>9 DEF Apdu!Number
  <2>11. Apdu!LcLen(enc) = 3
    <3>1. ~ (Len(enc) <= 1) /\ Len(enc) # 3 /\ ~ (Len(enc) < 3)
      BY <1>5, <2>5
    <3>9. ~ (enc[1] # 0)
      BY <2>9
    <3>2. QED
      BY <3>1, <3>9 DEF Apdu!LcLen
  <2>12. QED
    BY <1>2, <1>9, <1>10, <2>1, <2>10, <2>11 DEF t
<1>14. QED
  BY <1>11, <1>12, <1>13

(* The number one or two octets stand for.                                 *)
LEMMA LeNumberIn ==
  ASSUME NEW o \in Seq(Apdu!Octets), Len(o) \in {1, 2}
  PROVE  /\ Apdu!LeNumber(o) \in Nat /\ Apdu!LeNumber(o) # 0
         /\ Apdu!LeNumber(o) <= Base * Base
         /\ Len(o) = 1 => Apdu!LeNumber(o) <= Base
<1>1. o[1] \in Apdu!Octets /\ (Len(o) = 2 => o[2] \in Apdu!Octets)
  OBVIOUS
<1>2. CASE Len(o) = 1
  <2>1. Apdu!Number(o) = o[1]
    BY <1>2 DEF Apdu!Number
  <2>2. o[1] \in Nat /\ o[1] < Base
    BY <1>1, BaseSquared DEF Apdu!Octets
  <2>3. Apdu!LeNumber(o) = IF o[1] # 0 THEN o[1] ELSE Base
    BY <1>2, <2>1 DEF Apdu!LeNumber
  <2>4. QED
    BY <1>2, <2>2, <2>3, BaseSquared
<1>3. CASE Len(o) = 2
  <2>1. PICK k : k = o[1] * Base + o[2]
    OBVIOUS
  <2>2. Apdu!Number(o) = k
    BY <1>3, <2>1 DEF Apdu!Number
  <2>3. k \in Nat /\ k < Base * Base
    BY <1>1, <1>3, <2>1, Octets2
  <2>4. Apdu!LeNumber(o) = IF k # 0 THEN k ELSE Base * Base
    BY <1>3, <2>2 DEF Apdu!LeNumber
  <2>5. QED
    BY <1>3, <2>3, <2>4, BaseSquared
<1>4. QED
  BY <1>2, <1>3

(* The forms of Le apduCmdDec() accepts after an Lc.                       *)
LEMMA DecLeForms ==
  ASSUME NEW lc \in {0, 1, 3}, NEW n \in Nat, NEW o \in Seq(Apdu!Octets),
         NEW r, r = Apdu!DecLe(lc, n, o), r # Apdu!NoCmd.rdf_len
  PROVE  /\ r \in Nat /\ r <= Base * Base
         /\ \/ Len(o) = 0 /\ r = 0
            \/ Len(o) = 1 /\ lc # 3 /\ r # 0 /\ r <= Base
            \/ Len(o) = 2 /\ lc = 3 /\ r # 0 /\ ~ Apdu!Short(n, r)
            \/ Len(o) = 3 /\ lc = 0 /\ r # 0 /\ r > Base
<1>1. CASE Len(o) = 0
  BY <1>1, BaseSquared DEF Apdu!DecLe
<1>2. CASE Len(o) = 1
  <2>1. lc # 3 /\ r = Apdu!LeNumber(o)
    BY <1>2 DEF Apdu!DecLe
  <2>2. QED
    BY <1>2, <2>1, LeNumberIn
<1>3. CASE Len(o) = 2
  <2>1. lc = 3 /\ r = Apdu!LeNumber(o) /\ ~ Apdu!Short(n, r)
    BY <1>3 DEF Apdu!DecLe
  <2>2. QED
    BY <1>3, <2>1, LeNumberIn
<1>4. CASE Len(o) = 3
  <2> DEFINE t == Tail(o)
  <2>1. t \in Seq(Apdu!Octets) /\ Len(t) = 2
    <3>1. o # <<>>
      BY <1>4, EmptySeq, SMTT(40)
    <3>2. QED
      BY <1>4, <3>1, HeadTailProperties
  <2>2. lc = 0 /\ r = Apdu!LeNumber(t) /\ ~ (r <= Base)
    BY <1>4 DEF Apdu!DecLe
  <2> HIDE DEF t
  <2>3. r \in Nat /\ r # 0 /\ r <= Base * Base
    BY <2>1, <2>2, LeNumberIn
  <2>4. r > Base
    BY <2>2, <2>3, BaseSquared
  <2>5. QED
    BY <1>4, <2>2, <2>3, <2>4
<1>5. CASE Len(o) \notin 0 .. 3
  BY <1>5 DEF Apdu!DecLe
<1>6. QED
  <2>1. Len(o) \in Nat
    OBVIOUS
  <2>2. QED
    BY <1>1, <1>2, <1>3, <1>4, <1>5, <2>1

(* What apduCmdDec() makes of a code it accepts: the length of Lc, the     *)
(* data, the number that is left.                                          *)
LEMMA CmdDecForms ==
  ASSUME NEW s \in Seq(Apdu!Octets), Apdu!CmdDec(s) # Apdu!NoCmd
  PROVE  \E lc \in {0, 1, 3}, n \in Nat, r \in Nat, k \in Nat :
           /\ lc = Apdu!LcLen(s) /\ n < Base * Base /\ r <= Base * Base
           /\ Len(s) = lc + n + k
           /\ Apdu!CmdDec(s) = Apdu!Cmd(SubSeq(s, lc + 1, lc + n), r)
           /\ lc = 0 => n = 0 /\ Len(s) # 2
           /\ lc = 1 => n # 0 /\ n < Base
           /\ lc = 3 => Len(s) # 3
           /\ \/ k = 0 /\ r = 0
              \/ k = 1 /\ lc # 3 /\ r # 0 /\ r <= Base
              \/ k = 2 /\ lc = 3 /\ r # 0 /\ ~ Apdu!Short(n, r)
              \/ k = 3 /\ lc = 0 /\ r # 0 /\ r > Base
<1> DEFINE lc == Apdu!LcLen(s)
           n == CASE lc = 0 -> 0
                  [] lc = 1 -> s[1]
                  [] lc = 3 -> Apdu!Number(SubSeq(s, 2, 3))
                  [] OTHER -> Len(s)
           rest == SubSeq(s, lc + n + 1, Len(s))
           r == Apdu!DecLe(lc, n, rest)
<1>1. /\ Len(s) \in Nat /\ \A i \in 1 .. Len(s) : s[i] \in Apdu!Octets
  OBVIOUS
<1>2. Apdu!CmdDec(s) = IF lc + n > Len(s) \/ r = Apdu!NoCmd.rdf_len
                       THEN Apdu!NoCmd ELSE Apdu!Cmd(SubSeq(s, lc + 1, lc + n), r)
  BY DEF Apdu!CmdDec
<1>3. /\ ~ (lc + n > Len(s)) /\ r # Apdu!NoCmd.rdf_len
      /\ Apdu!CmdDec(s) = Apdu!Cmd(SubSeq(s, lc + 1, lc + n), r)
  <2> HIDE DEF lc, n, r
  <2>1. QED
    BY <1>2
<1>4. /\ lc \in {0, 1, 3, 4}
      /\ lc = 0 => Len(s) # 2
      /\ lc = 1 => Len(s) > 1 /\ s[1] # 0
      /\ lc = 3 => Len(s) > 3
  <2>1. PICK l \in Nat : l = Len(s)
    BY <1>1
  <2> DEFINE one == l <= 1 \/ (l = 3 /\ s[1] = 0)
  <2>2. lc = IF one THEN 0 ELSE IF s[1] # 0 THEN 1 ELSE IF l < 3 THEN 4 ELSE 3
    BY <2>1 DEF Apdu!LcLen
  <2> HIDE DEF lc
  <2>3. /\ lc \in {0, 1, 3, 4}
        /\ lc = 0 => l # 2
        /\ lc = 1 => l > 1 /\ s[1] # 0
        /\ lc = 3 => l > 3
    BY <2>2
  <2>4. QED
    BY <2>1, <2>3
<1>5. lc \in {0, 1, 3} /\ n \in Nat /\ n < Base * Base
      /\ (lc = 0 => n = 0) /\ (lc = 1 => n # 0 /\ n < Base)
  <2>1. CASE lc = 0
    BY <2>1, BaseSquared
  <2>2. CASE lc = 1
    <3>1. s[1] \in Nat /\ s[1] < Base /\ s[1] # 0
      BY <1>1, <1>4, <2>2, BaseSquared DEF Apdu!Octets
    <3>2. n = s[1]
      BY <2>2
    <3> HIDE DEF n, lc
    <3>3. QED
      BY <2>2, <3>1, <3>2, BaseSquared
  <2>3. CASE lc = 3
    <3> DEFINE t == SubSeq(s, 2, 3)
    <3>1. Len(t) = 2 /\ t[1] = s[2] /\ t[2] = s[3]
      BY <1>1, <1>4, <2>3
    <3>2. n = Apdu!Number(t)
      BY <2>3
    <3> HIDE DEF t, n, lc
    <3>3. n = s[2] * Base + s[3]
      BY <3>1, <3>2 DEF Apdu!Number
    <3>4. s[2] \in Apdu!Octets /\ s[3] \in Apdu!Octets
      BY <1>1, <1>4, <2>3
    <3>5. n \in Nat /\ n < Base * Base
      BY <3>3, <3>4, Octets2
    <3>6. QED
      BY <2>3, <3>5
  <2>4. CASE lc = 4
    <3>1. n = Len(s)
      BY <2>4
    <3> HIDE DEF n, r, lc
    <3>2. QED
      BY <1>1, <1>3, <2>4, <3>1
  <2>5. QED
    BY <1>4, <2>1, <2>2, <2>3, <2>4
<1> HIDE DEF lc, n
<1>6. /\ lc \in Nat /\ lc + n <= Len(s) /\ Len(s) - (lc + n) \in Nat
      /\ Len(s) = lc + n + (Len(s) - (lc + n))
  <2> HIDE DEF r
  <2>1. QED
    BY <1>1, <1>3, <1>5
<1>7. rest \in Seq(Apdu!Octets) /\ Len(rest) = Len(s) - (lc + n)
  <2>1. \A i \in lc + n + 1 .. Len(s) : s[i] \in Apdu!Octets
    BY <1>1, <1>5, <1>6
  <2>2. /\ rest \in Seq(Apdu!Octets)
        /\ Len(rest) = IF lc + n + 1 <= Len(s) THEN Len(s) - (lc + n + 1) + 1 ELSE 0
    BY <1>1, <1>5, <1>6, <2>1, SubSeqProperties
  <2> HIDE DEF rest
  <2>3. QED
    BY <1>1, <1>5, <1>6, <2>2
<1> HIDE DEF rest
<1>8. /\ r \in Nat /\ r <= Base * Base
      /\ \/ Len(rest) = 0 /\ r = 0
         \/ Len(rest) = 1 /\ lc # 3 /\ r # 0 /\ r <= Base
         \/ Len(rest) = 2 /\ lc = 3 /\ r # 0 /\ ~ Apdu!Short(n, r)
         \/ Len(rest) = 3 /\ lc = 0 /\ r # 0 /\ r > Base
  BY <1>3, <1>5, <1>7, DecLeForms
<1>9. lc = Apdu!LcLen(s)
  BY DEF lc
<1>10. (lc = 0 => Len(s) # 2) /\ (lc = 3 => Len(s) # 3)
  BY <1>1, <1>4
<1> HIDE DEF r
<1>11. PICK k \in Nat : k = Len(s) - (lc + n)
  BY <1>6
<1>12. Len(s) = lc + n + k /\ Len(rest) = k
  BY <1>6, <1>7, <1>11
<1>13. QED
  BY <1>3, <1>5, <1>8, <1>9, <1>10, <1>12

(* The code of a command is as long as its three pieces.                   *)
LEMMA CmdEncLen ==
  ASSUME NEW c \in Coded
  PROVE  /\ Apdu!CmdEnc(c) \in Seq(Apdu!Octets)
         /\ Len(Apdu!CmdEnc(c)) =
              Len(Apdu!Lc(Len(c.cdf), c.rdf_len)) + Len(c.cdf)
                + Len(Apdu!Le(Len(c.cdf), c.rdf_len))
<1> DEFINE lc == Apdu!Lc(Len(c.cdf), c.rdf_len)
           le == Apdu!Le(Len(c.cdf), c.rdf_len)
<1>1. /\ c.cdf \in Seq(Apdu!Octets) /\ Len(c.cdf) \in Nat /\ c.rdf_len \in Nat
      /\ Len(c.cdf) < Base * Base /\ c.rdf_len <= Base * Base
  BY DEF Coded, Apdu!CmdIsValid
<1>2. lc \in Seq(Apdu!Octets) /\ le \in Seq(Apdu!Octets)
  BY <1>1, LcForms, LeFormsOfAny
<1>3. Apdu!CmdEnc(c) = lc \o c.cdf \o le
  BY DEF Apdu!CmdEnc
<1> HIDE DEF lc, le
<1>4. \A b \in Seq(Apdu!Octets) : /\ lc \o b \o le \in Seq(Apdu!Octets)
                                  /\ Len(lc \o b \o le) = Len(lc) + Len(b) + Len(le)
  BY <1>2, Pieces
<1>5. QED
  BY <1>1, <1>3, <1>4 DEF lc, le

(* What apduCmdDec() accepts is a valid command, and the code is as long   *)
(* as apduCmdEnc() would make it, or has an Lc of three octets where one   *)
(* or none would do.                                                       *)
LEMMA CmdDecRight ==
  ASSUME NEW s \in Seq(Apdu!Octets), Apdu!CmdDec(s) # Apdu!NoCmd
  PROVE  /\ Apdu!CmdDec(s) \in Coded
         /\ \/ Len(s) = Len(Apdu!CmdEnc(Apdu!CmdDec(s)))
            \/ /\ Apdu!LcLen(s) = 3
               /\ Len(s) = Len(Apdu!CmdEnc(Apdu!CmdDec(s))) + 2
<1>1. PICK lc \in {0, 1, 3}, n \in Nat, r \in Nat, k \in Nat :
           /\ lc = Apdu!LcLen(s) /\ n < Base * Base /\ r <= Base * Base
           /\ Len(s) = lc + n + k
           /\ Apdu!CmdDec(s) = Apdu!Cmd(SubSeq(s, lc + 1, lc + n), r)
           /\ lc = 0 => n = 0 /\ Len(s) # 2
           /\ lc = 1 => n # 0 /\ n < Base
           /\ lc = 3 => Len(s) # 3
           /\ \/ k = 0 /\ r = 0
              \/ k = 1 /\ lc # 3 /\ r # 0 /\ r <= Base
              \/ k = 2 /\ lc = 3 /\ r # 0 /\ ~ Apdu!Short(n, r)
              \/ k = 3 /\ lc = 0 /\ r # 0 /\ r > Base
  BY CmdDecForms
<1> DEFINE b == SubSeq(s, lc + 1, lc + n)
           d == Apdu!CmdDec(s)
<1>2. b \in Seq(Apdu!Octets) /\ Len(b) = n
  <2>1. \A i \in lc + 1 .. lc + n : s[i] \in Apdu!Octets
    <3>1. \A i \in 1 .. Len(s) : s[i] \in Apdu!Octets
      OBVIOUS
    <3>2. \A i \in lc + 1 .. lc + n : i \in 1 .. Len(s)
      BY <1>1
    <3>3. QED
      BY <3>1, <3>2
  <2>2. /\ b \in Seq(Apdu!Octets)
        /\ Len(b) = IF lc + 1 <= lc + n THEN lc + n - (lc + 1) + 1 ELSE 0
    BY <2>1, SubSeqProperties
  <2> HIDE DEF b
  <2>3. (IF lc + 1 <= lc + n THEN lc + n - (lc + 1) + 1 ELSE 0) = n
    OBVIOUS
  <2>4. QED
    BY <2>2, <2>3
<1> HIDE DEF b
<1>3. d = [cdf |-> b, rdf_len |-> r]
  BY <1>1 DEF b, Apdu!Cmd
<1>4. d.cdf = b /\ d.rdf_len = r /\ d \in [cdf : Seq(Apdu!Octets), rdf_len : Nat]
  BY <1>2, <1>3
<1>5. d \in Coded
  BY <1>1, <1>2, <1>4 DEF Coded, Apdu!CmdIsValid
<1>6. Len(Apdu!CmdEnc(d)) = Len(Apdu!Lc(n, r)) + n + Len(Apdu!Le(n, r))
  BY <1>2, <1>4, <1>5, CmdEncLen
<1> HIDE DEF d
<1> DEFINE x == Len(Apdu!Lc(n, r))
           y == Len(Apdu!Le(n, r))
<1>7. /\ n = 0 => x = 0
      /\ n # 0 /\ Apdu!Short(n, r) => x = 1
      /\ n # 0 /\ ~ Apdu!Short(n, r) => x = 3
  BY <1>1, LcForms
<1>8. /\ r = 0 => y = 0
      /\ r # 0 /\ Apdu!Short(n, r) => y = 1
      /\ r # 0 /\ ~ Apdu!Short(n, r) /\ n > 0 => y = 2
      /\ r # 0 /\ ~ Apdu!Short(n, r) /\ n = 0 => y = 3
  BY <1>1, LeFormsOfAny
<1>9. Apdu!Short(n, r) <=> n < Base /\ r <= Base
  BY DEF Apdu!Short
<1>10. Base \in Nat /\ Base >= 2
  BY BaseSquared
<1> HIDE DEF x, y
<1>11. \/ lc + n + k = x + n + y
       \/ lc = 3 /\ lc + n + k = x + n + y + 2
  <2>1. lc = 3 /\ k = 0 => n # 0
    BY <1>1
  <2>2. CASE lc = 0
    BY <1>1, <1>7, <1>8, <1>9, <1>10, <2>2
  <2>3. CASE lc = 1
    BY <1>1, <1>7, <1>8, <1>9, <1>10, <2>3
  <2>4. CASE lc = 3
    <3>1. (k = 0 /\ r = 0) \/ (k = 2 /\ r # 0 /\ ~ Apdu!Short(n, r))
      BY <1>1, <2>4
    <3>2. CASE n = 0
      BY <1>7, <1>8, <2>1, <2>4, <3>1, <3>2
    <3>3. CASE n # 0 /\ k = 0
      BY <1>7, <1>8, <1>9, <1>10, <2>4, <3>1, <3>3
    <3>4. CASE n # 0 /\ k = 2
      BY <1>7, <1>8, <1>9, <1>10, <2>4, <3>1, <3>4
    <3>5. QED
      BY <3>1, <3>2, <3>3, <3>4
  <2>5. QED
    BY <2>2, <2>3, <2>4
<1>12. QED
  BY <1>1, <1>5, <1>6, <1>11 DEF d, x, y

(* A response is its data and its status, in this order.                   *)
LEMMA RespRight ==
  ASSUME NEW s \in Seq(Apdu!Octets), Len(s) >= 2
  PROVE  /\ Apdu!RespEnc(Apdu!RespDec(s)) = s
         /\ Apdu!RespDec(Apdu!RespEnc(Apdu!Resp(s, SubSeq(s, 1, 2)))).rdf = s
<1>1. PICK l \in Nat : l = Len(s) /\ l >= 2
  OBVIOUS
<1>2. Apdu!RespEnc(Apdu!RespDec(s)) = s
  <2>1. Apdu!RespEnc(Apdu!RespDec(s)) = SubSeq(s, 1, l - 2) \o SubSeq(s, l - 1, l)
    BY <1>1 DEF Apdu!RespEnc, Apdu!RespDec, Apdu!Resp
  <2>2. SubSeq(s, 1, l - 2) \o SubSeq(s, (l - 2) + 1, l) = SubSeq(s, 1, l)
    <3>1. 1 \in 1 .. Len(s) + 1 /\ l - 2 \in 1 - 1 .. Len(s) /\ l \in l - 2 .. Len(s)
      BY <1>1
    <3>2. QED
      BY <3>1, ConcatAdjacentSubSeq
  <2>3. (l - 2) + 1 = l - 1
    BY <1>1
  <2>4. QED
    BY <1>1, <2>1, <2>2, <2>3, SubSeqFull
<1>3. Apdu!RespDec(Apdu!RespEnc(Apdu!Resp(s, SubSeq(s, 1, 2)))).rdf = s
  <2> DEFINE t == SubSeq(s, 1, 2)
             e == s \o t
  <2>1. t \in Seq(Apdu!Octets) /\ Len(t) = 2
    BY <1>1
  <2> HIDE DEF t
  <2>2. e \in Seq(Apdu!Octets) /\ Len(e) = l + 2
    BY <1>1, <2>1, ConcatProperties
  <2>3. Apdu!RespEnc(Apdu!Resp(s, t)) = e
    BY DEF Apdu!RespEnc, Apdu!Resp
  <2>4. SubSeq(e, 1, l) = SubSeq(s, 1, l)
    BY <1>1, <2>1, SubSeqOfConcat1
  <2> HIDE DEF e
  <2>5. Apdu!RespDec(e).rdf = SubSeq(e, 1, Len(e) - 2)
    BY DEF Apdu!RespDec, Apdu!Resp
  <2>6. Len(e) - 2 = l
    BY <1>1, <2>2
  <2>7. QED
    BY <1>1, <2>3, <2>4, <2>5, <2>6, SubSeqFull DEF t
<1>4. QED
  BY <1>2, <1>3

(* What is known of the command and of the code at any time.               *)
ApduInv ==
  /\ code \in Seq(Apdu!Octets)
  /\ cmd # Apdu!NoCmd => cmd \in Coded

(* They are kept by coding and by decoding.                                *)
LEMMA ApduInductive == MCSpec => []ApduInv
<1>1. MCInit => ApduInv
  <2> SUFFICES ASSUME MCInit PROVE ApduInv
    OBVIOUS
  <2>1. code \in SeqsUpto(MaxCode) \/ code = <<>>
    BY DEF MCInit
  <2>2. \A k \in Nat : [1 .. k -> Apdu!Octets] \subseteq Seq(Apdu!Octets)
    OBVIOUS
  <2>3. code \in SeqsUpto(MaxCode) => code \in Seq(Apdu!Octets)
    BY <2>2, CodeAssumption DEF SeqsUpto
  <2>4. cmd = Apdu!NoCmd
    BY DEF MCInit
  <2>5. <<>> \in Seq(Apdu!Octets)
    OBVIOUS
  <2>6. QED
    BY <2>1, <2>3, <2>4, <2>5 DEF ApduInv
<1>2. ApduInv /\ [MCNext]_all => ApduInv'
  <2> SUFFICES ASSUME ApduInv, [MCNext]_all PROVE ApduInv'
    OBVIOUS
  <2>1. CASE UNCHANGED apduVars
    BY <2>1 DEF apduVars, ApduInv
  <2>2. CASE Encode
    <3>1. PICK c \in Cmds : Apdu!CmdIsValid(c) /\ cmd' = c /\ code' = Apdu!CmdEnc(c)
      BY <2>2 DEF Encode
    <3>2. c \in [cdf : Seq(Apdu!Octets), rdf_len : Nat]
      <4>1. PICK d \in SeqsUpto(Base * Base - 1), r \in 0 .. Base * Base : c = Apdu!Cmd(d, r)
        BY <3>1 DEF Cmds
      <4>2. \A k \in Nat : [1 .. k -> Apdu!Octets] \subseteq Seq(Apdu!Octets)
        OBVIOUS
      <4>3. d \in Seq(Apdu!Octets)
        BY <4>1, <4>2, BaseSquared DEF SeqsUpto
      <4>4. r \in Nat
        BY <4>1, BaseSquared
      <4>5. QED
        BY <4>1, <4>3, <4>4 DEF Apdu!Cmd
    <3>3. c \in Coded
      BY <3>1, <3>2 DEF Coded
    <3>4. QED
      BY <3>1, <3>3, CmdEncLen DEF ApduInv
  <2>3. CASE Decode
    BY <2>3, CmdDecRight DEF Decode, ApduInv
  <2>4. QED
    BY <2>1, <2>2, <2>3 DEF MCNext, all
<1>3. QED
  BY <1>1, <1>2, PTL DEF MCSpec

(* Codes of commands and responses are read to what they stand for, and a  *)
(* code that is accepted has the length it should have (apdu.c).           *)
THEOREM CodesOfCommandsCorrect == MCSpec => [](RoundTrip /\ Lengths)
<1>1. ApduInv => RoundTrip /\ Lengths
  <2> SUFFICES ASSUME ApduInv PROVE RoundTrip /\ Lengths
    OBVIOUS
  <2>1. cmd # Apdu!NoCmd =>
          Apdu!CmdIsValid(cmd) /\ Apdu!CmdDec(Apdu!CmdEnc(cmd)) = cmd
    BY CmdReadBack DEF ApduInv, Coded
  <2>2. Len(code) >= 2 =>
          /\ Apdu!RespEnc(Apdu!RespDec(code)) = code
          /\ Apdu!RespDec(Apdu!RespEnc(Apdu!Resp(code, SubSeq(code, 1, 2)))).rdf = code
    BY RespRight DEF ApduInv
  <2>3. Lengths
    BY CmdDecRight DEF ApduInv, Lengths
  <2>4. QED
    BY <2>1, <2>2, <2>3 DEF RoundTrip
<1>2. QED
  BY <1>1, ApduInductive, PTL
-----------------------------------------------------------------------------
(* Descriptions of modes.                                                  *)

(* The figures are ten different words, and stand for their numbers.       *)
LEMMA Figures ==
  /\ DOMAIN Digits = {"0", "1", "2", "3", "4", "5", "6", "7", "8", "9"}
  /\ \A d \in 0 .. 9 : Glyphs[d + 1] \in DOMAIN Digits /\ Digits[Glyphs[d + 1]] = d
  /\ \A c \in DOMAIN Digits : Digits[c] \in 0 .. 9 /\ Glyphs[Digits[c] + 1] = c
<1>1. /\ Glyphs[1] = "0" /\ Glyphs[2] = "1" /\ Glyphs[3] = "2" /\ Glyphs[4] = "3"
      /\ Glyphs[5] = "4" /\ Glyphs[6] = "5" /\ Glyphs[7] = "6" /\ Glyphs[8] = "7"
      /\ Glyphs[9] = "8" /\ Glyphs[10] = "9"
  BY DEF Glyphs
<1>2. \A d \in 0 .. 9 : d + 1 \in 1 .. 10
  OBVIOUS
<1>3. \A k \in 1 .. 10 : k \in {1, 2, 3, 4, 5, 6, 7, 8, 9, 10}
  OBVIOUS
<1>4. \A j, k \in 1 .. 10 : Glyphs[j] = Glyphs[k] => j = k
  BY <1>1, <1>3
<1>5. DOMAIN Digits = {Glyphs[k] : k \in 1 .. 10}
  BY DEF Digits
<1>6. \A d \in 0 .. 9 : Glyphs[d + 1] \in DOMAIN Digits
  BY <1>2, <1>5
<1>7. ASSUME NEW c \in DOMAIN Digits
      PROVE  Digits[c] \in 0 .. 9 /\ Glyphs[Digits[c] + 1] = c
  <2>1. PICK k \in 1 .. 10 : c = Glyphs[k]
    BY <1>5
  <2>2. k - 1 \in 0 .. 9 /\ (k - 1) + 1 = k
    OBVIOUS
  <2>3. \E d \in 0 .. 9 : Glyphs[d + 1] = c
    BY <2>1, <2>2
  <2>4. Digits[c] = CHOOSE d \in 0 .. 9 : Glyphs[d + 1] = c
    BY <1>5 DEF Digits
  <2>5. QED
    BY <2>3, <2>4
<1>8. ASSUME NEW d \in 0 .. 9
      PROVE  Digits[Glyphs[d + 1]] = d
  <2>1. /\ Digits[Glyphs[d + 1]] \in 0 .. 9
        /\ Glyphs[Digits[Glyphs[d + 1]] + 1] = Glyphs[d + 1]
    BY <1>6, <1>7
  <2>2. PICK e \in 0 .. 9 : e = Digits[Glyphs[d + 1]]
    BY <2>1
  <2>3. Glyphs[e + 1] = Glyphs[d + 1]
    BY <2>1, <2>2
  <2>4. e + 1 = d + 1
    BY <1>2, <1>4, <2>3
  <2>5. QED
    BY <2>2, <2>4
<1>9. {Glyphs[k] : k \in 1 .. 10} = {"0", "1", "2", "3", "4", "5", "6", "7", "8", "9"}
  <2>1. \A k \in 1 .. 10 : Glyphs[k] \in {"0", "1", "2", "3", "4", "5", "6", "7", "8", "9"}
    BY <1>1, <1>3
  <2>2. {"0", "1", "2", "3", "4", "5", "6", "7", "8", "9"} \subseteq {Glyphs[k] : k \in 1 .. 10}
    BY <1>1
  <2>3. QED
    BY <2>1, <2>2
<1>10. QED
  BY <1>5, <1>6, <1>7, <1>8, <1>9

(* What the names of units and of hash functions stand for.                *)
LEMMA Units ==
  /\ DOMAIN Unit = {"S", "M", "H"}
  /\ Unit["S"].secs = 1 /\ Unit["M"].secs = 60 /\ Unit["H"].secs = 3600
  /\ Unit["S"].max = 59 /\ Unit["M"].max = 59 /\ Unit["H"].max = 48
BY DEF Unit

LEMMA Hashes ==
  /\ DOMAIN HashLen = {"HBELT", "SHA1", "SHA256", "SHA512"}
  /\ \A h \in DOMAIN HashLen : HashLen[h] \in Nat
BY DEF HashLen

(* A word that is not the end is in the line.                              *)
LEMMA WordIn ==
  ASSUME NEW W, NEW s \in Seq(W), NEW i \in Nat, i # 0, Word(s, i) # "end"
  PROVE  i \in 1 .. Len(s) /\ s[i] = Word(s, i)
BY DEF Word

(* One, two and three figures.                                             *)
LEMMA Decimals ==
  ASSUME NEW W, NEW s \in Seq(W), NEW i \in Nat, i # 0
  PROVE  /\ IsDigit(s, i) =>
              Decimal(s, i, 1) = Read(Digits[s[i]], i + 1)
         /\ IsDigit(s, i) /\ IsDigit(s, i + 1) =>
              Decimal(s, i, 2) = Read(10 * Digits[s[i]] + Digits[s[i + 1]], i + 2)
         /\ IsDigit(s, i) /\ IsDigit(s, i + 1) /\ IsDigit(s, i + 2) =>
              Decimal(s, i, 3) =
                Read(10 * (10 * Digits[s[i]] + Digits[s[i + 1]]) + Digits[s[i + 2]], i + 3)
         /\ ~ IsDigit(s, i) => Decimal(s, i, 1) = Fail
         /\ ~ (IsDigit(s, i) /\ IsDigit(s, i + 1)) => Decimal(s, i, 2) = Fail
         /\ ~ (IsDigit(s, i) /\ IsDigit(s, i + 1) /\ IsDigit(s, i + 2)) =>
              Decimal(s, i, 3) = Fail
<1> DEFINE Def(n, v) ==
             v = [k \in 0 .. n |->
                    IF k = 0 THEN 0 ELSE 10 * v[k - 1] + Digits[s[i + k - 1]]]
           Val(n) == CHOOSE v : Def(n, v)
           a == Digits[s[i]]
           b == Digits[s[i + 1]]
           c == Digits[s[i + 2]]
<1>1. ASSUME NEW n \in Nat
      PROVE  Decimal(s, i, n) = IF \A k \in i .. i + n - 1 : IsDigit(s, k)
                                THEN Read(Val(n)[n], i + n) ELSE Fail
  BY DEF Decimal
<1>2. /\ \A j \in Nat : IsDigit(s, j) => Digits[s[j]] \in 0 .. 9
      /\ i + 1 \in Nat /\ i + 2 \in Nat
  <2>1. ASSUME NEW j \in Nat, IsDigit(s, j)
        PROVE  Digits[s[j]] \in 0 .. 9
    <3>1. Word(s, j) \in DOMAIN Digits
      BY <2>1 DEF IsDigit
    <3>2. Word(s, j) # "end"
      BY <3>1, Figures
    <3>3. Word(s, j) = s[j]
      BY <3>2 DEF Word
    <3>4. QED
      BY <3>1, <3>3, Figures
  <2>2. QED
    BY <2>1
<1>3. ASSUME NEW n \in 1 .. 3, \A k \in i .. i + n - 1 : IsDigit(s, k)
      PROVE  LET v == Val(n)
             IN /\ v[0] = 0 /\ a \in 0 .. 9 /\ v[1] = a
                /\ n > 1 => b \in 0 .. 9 /\ v[2] = 10 * a + b
                /\ n > 2 => c \in 0 .. 9 /\ v[3] = 10 * (10 * a + b) + c
  <2> DEFINE w == [k \in 0 .. n |->
                     IF k = 0 THEN 0 ELSE IF k = 1 THEN a
                     ELSE IF k = 2 THEN 10 * a + b ELSE 10 * (10 * a + b) + c]
             v == Val(n)
  <2>1. /\ IsDigit(s, i) /\ (n > 1 => IsDigit(s, i + 1)) /\ (n > 2 => IsDigit(s, i + 2))
    BY <1>3
  <2>2. /\ a \in 0 .. 9 /\ (n > 1 => b \in 0 .. 9) /\ (n > 2 => c \in 0 .. 9)
    BY <1>2, <2>1
  <2>3. /\ i + 1 - 1 = i /\ i + 2 - 1 = i + 1 /\ i + 3 - 1 = i + 2
    OBVIOUS
  <2> HIDE DEF a, b, c
  <2>4. Def(n, w)
    <3> DEFINE g == [k \in 0 .. n |->
                       IF k = 0 THEN 0 ELSE 10 * w[k - 1] + Digits[s[i + k - 1]]]
    <3>1. w[0] = 0 /\ w[1] = a /\ (n > 1 => w[2] = 10 * a + b)
          /\ (n > 2 => w[3] = 10 * (10 * a + b) + c)
      OBVIOUS
    <3>2. /\ Digits[s[i + 1 - 1]] = a /\ Digits[s[i + 2 - 1]] = b
          /\ Digits[s[i + 3 - 1]] = c
      BY <2>3 DEF a, b, c
    <3>3. /\ g[0] = 0 /\ g[1] = 10 * w[0] + a /\ (n > 1 => g[2] = 10 * w[1] + b)
          /\ (n > 2 => g[3] = 10 * w[2] + c)
      <4> HIDE DEF w
      <4>1. \A k \in 0 .. n : g[k] = IF k = 0 THEN 0 ELSE 10 * w[k - 1] + Digits[s[i + k - 1]]
        OBVIOUS
      <4>2. 1 - 1 = 0 /\ 2 - 1 = 1 /\ 3 - 1 = 2
        OBVIOUS
      <4>3. 0 \in 0 .. n /\ 1 \in 0 .. n /\ (n > 1 => 2 \in 0 .. n) /\ (n > 2 => 3 \in 0 .. n)
        OBVIOUS
      <4> HIDE DEF g
      <4>4. g[0] = 0
        BY <4>1, <4>3
      <4>5. g[1] = 10 * w[0] + a
        BY <3>2, <4>1, <4>2, <4>3
      <4>6. n > 1 => g[2] = 10 * w[1] + b
        BY <3>2, <4>1, <4>2, <4>3
      <4>7. n > 2 => g[3] = 10 * w[2] + c
        BY <3>2, <4>1, <4>2, <4>3
      <4>8. QED
        BY <4>4, <4>5, <4>6, <4>7
    <3> HIDE DEF g
    <3>4. g[0] = w[0] /\ g[1] = w[1] /\ (n > 1 => g[2] = w[2]) /\ (n > 2 => g[3] = w[3])
      BY <2>2, <3>1, <3>3
    <3>5. \A k \in 0 .. n : k = 0 \/ k = 1 \/ (n > 1 /\ k = 2) \/ (n > 2 /\ k = 3)
      OBVIOUS
    <3>6. \A k \in 0 .. n : g[k] = w[k]
      BY <3>4, <3>5
    <3>7. g = w
      <4>1. g = [k \in 0 .. n |-> g[k]]
        BY DEF g
      <4>2. w = [k \in 0 .. n |-> w[k]]
        OBVIOUS
      <4> HIDE DEF w
      <4>3. QED
        BY <3>6, <4>1, <4>2
    <3>8. QED
      BY <3>7 DEF g
  <2>5. Def(n, v)
    <3> HIDE DEF Def, w
    <3>1. QED
      BY <2>4
  <2> HIDE DEF v, w
  <2>6. \A k \in 0 .. n : v[k] = IF k = 0 THEN 0 ELSE 10 * v[k - 1] + Digits[s[i + k - 1]]
    BY <2>5
  <2>7. v[0] = 0
    BY <2>6
  <2>8. v[1] = a
    <3>1. v[1] = 10 * v[1 - 1] + Digits[s[i + 1 - 1]]
      BY <2>6
    <3>2. v[1] = 10 * v[0] + a
      BY <2>3, <3>1 DEF a
    <3>3. QED
      BY <2>2, <2>7, <3>2
  <2>9. n > 1 => v[2] = 10 * a + b
    <3>1. n > 1 => v[2] = 10 * v[2 - 1] + Digits[s[i + 2 - 1]]
      BY <2>6
    <3>2. n > 1 => v[2] = 10 * v[1] + b
      BY <2>3, <3>1 DEF b
    <3>3. QED
      BY <2>8, <3>2
  <2>10. n > 2 => v[3] = 10 * (10 * a + b) + c
    <3>1. n > 2 => v[3] = 10 * v[3 - 1] + Digits[s[i + 3 - 1]]
      BY <2>6
    <3>2. n > 2 => v[3] = 10 * v[2] + c
      BY <2>3, <3>1 DEF c
    <3>3. QED
      BY <2>9, <3>2
  <2>11. QED
    BY <2>2, <2>7, <2>8, <2>9, <2>10 DEF v
<1> HIDE DEF Val
<1>4. IsDigit(s, i) => Decimal(s, i, 1) = Read(a, i + 1)
  <2>1. SUFFICES ASSUME IsDigit(s, i) PROVE Decimal(s, i, 1) = Read(a, i + 1)
    OBVIOUS
  <2>2. \A k \in i .. i + 1 - 1 : IsDigit(s, k)
    <3>1. \A k \in i .. i + 1 - 1 : k = i
      OBVIOUS
    <3>2. QED
      BY <2>1, <3>1
  <2> HIDE DEF a, b, c
  <2>3. Val(1)[1] = a
    BY <1>3, <2>2
  <2>4. QED
    BY <1>1, <2>2, <2>3
<1>5. IsDigit(s, i) /\ IsDigit(s, i + 1) => Decimal(s, i, 2) = Read(10 * a + b, i + 2)
  <2>1. SUFFICES ASSUME IsDigit(s, i), IsDigit(s, i + 1)
                 PROVE Decimal(s, i, 2) = Read(10 * a + b, i + 2)
    OBVIOUS
  <2>2. \A k \in i .. i + 2 - 1 : IsDigit(s, k)
    <3>1. \A k \in i .. i + 2 - 1 : k = i \/ k = i + 1
      OBVIOUS
    <3>2. QED
      BY <2>1, <3>1
  <2> HIDE DEF a, b, c
  <2>3. Val(2)[2] = 10 * a + b
    BY <1>3, <2>2
  <2>4. QED
    BY <1>1, <2>2, <2>3
<1>6. IsDigit(s, i) /\ IsDigit(s, i + 1) /\ IsDigit(s, i + 2) =>
        Decimal(s, i, 3) = Read(10 * (10 * a + b) + c, i + 3)
  <2>1. SUFFICES ASSUME IsDigit(s, i), IsDigit(s, i + 1), IsDigit(s, i + 2)
                 PROVE Decimal(s, i, 3) = Read(10 * (10 * a + b) + c, i + 3)
    OBVIOUS
  <2>2. \A k \in i .. i + 3 - 1 : IsDigit(s, k)
    <3>1. \A k \in i .. i + 3 - 1 : k = i \/ k = i + 1 \/ k = i + 2
      OBVIOUS
    <3>2. QED
      BY <2>1, <3>1
  <2> HIDE DEF a, b, c
  <2>3. Val(3)[3] = 10 * (10 * a + b) + c
    BY <1>3, <2>2
  <2>4. QED
    BY <1>1, <2>2, <2>3
<1>7. ~ IsDigit(s, i) => Decimal(s, i, 1) = Fail
  <2>1. i \in i .. i + 1 - 1
    OBVIOUS
  <2>2. QED
    BY <1>1, <2>1
<1>8. ~ (IsDigit(s, i) /\ IsDigit(s, i + 1)) => Decimal(s, i, 2) = Fail
  <2>1. i \in i .. i + 2 - 1 /\ i + 1 \in i .. i + 2 - 1
    OBVIOUS
  <2>2. QED
    BY <1>1, <2>1
<1>9. ~ (IsDigit(s, i) /\ IsDigit(s, i + 1) /\ IsDigit(s, i + 2)) => Decimal(s, i, 3) = Fail
  <2>1. i \in i .. i + 3 - 1 /\ i + 1 \in i .. i + 3 - 1 /\ i + 2 \in i .. i + 3 - 1
    OBVIOUS
  <2>2. QED
    BY <1>1, <2>1
<1>10. QED
  BY <1>4, <1>5, <1>6, <1>7, <1>8, <1>9

(* The name of the last figure of a number.                                *)
LEMMA Names ==
  ASSUME NEW n \in Nat
  PROVE  /\ n % 10 \in 0 .. 9
         /\ Name(n) \in DOMAIN Digits /\ Digits[Name(n)] = n % 10
         /\ \A w \in DOMAIN Digits : Digits[w] = n % 10 => Name(n) = w
<1>1. n % 10 \in 0 .. 9
  OBVIOUS
<1>2. PICK d \in 0 .. 9 : d = n % 10
  BY <1>1
<1>3. Name(n) = Glyphs[d + 1]
  BY <1>2 DEF Name
<1>4. QED
  BY <1>1, <1>2, <1>3, Figures

(* Two and three words that follow, each at its place.                     *)
LEMMA Follows2 ==
  ASSUME NEW s, NEW i \in Nat, NEW a, NEW b
  PROVE  Follows(s, i, <<a, b>>) <=> Word(s, i) = a /\ Word(s, i + 1) = b
<1> DEFINE w == <<a, b>>
<1>1. DOMAIN w = {1, 2} /\ w[1] = a /\ w[2] = b
  OBVIOUS
<1>2. i + 1 - 1 = i /\ i + 2 - 1 = i + 1
  OBVIOUS
<1> HIDE DEF w
<1>3. Follows(s, i, w) <=> Word(s, i + 1 - 1) = w[1] /\ Word(s, i + 2 - 1) = w[2]
  BY <1>1 DEF Follows
<1>4. QED
  BY <1>1, <1>2, <1>3 DEF w

LEMMA Follows3 ==
  ASSUME NEW s, NEW a, NEW b, NEW c
  PROVE  Follows(s, 1, <<a, b, c>>) <=>
           Word(s, 1) = a /\ Word(s, 2) = b /\ Word(s, 3) = c
<1> DEFINE w == <<a, b, c>>
<1>1. DOMAIN w = {1, 2, 3} /\ w[1] = a /\ w[2] = b /\ w[3] = c
  OBVIOUS
<1>2. 1 + 1 - 1 = 1 /\ 1 + 2 - 1 = 2 /\ 1 + 3 - 1 = 3
  OBVIOUS
<1> HIDE DEF w
<1>3. Follows(s, 1, w) <=> /\ Word(s, 1 + 1 - 1) = w[1] /\ Word(s, 1 + 2 - 1) = w[2]
                           /\ Word(s, 1 + 3 - 1) = w[3]
  BY <1>1 DEF Follows
<1>4. QED
  BY <1>1, <1>2, <1>3 DEF w

(* A figure at a place of a line, as a number.                             *)
Figure(s, i) == Digits[Word(s, i)]

(* A figure is one of ten numbers, and zero is written "0".                *)
LEMMA FigureIn ==
  ASSUME NEW W, NEW s \in Seq(W), NEW i \in Nat, i # 0, IsDigit(s, i)
  PROVE  /\ Figure(s, i) \in 0 .. 9 /\ Digits[s[i]] = Figure(s, i)
         /\ Word(s, i) \in DOMAIN Digits /\ Word(s, i) # "end"
         /\ Word(s, i) # "-"
         /\ Figure(s, i) = 0 <=> Word(s, i) = "0"
<1>1. Word(s, i) \in DOMAIN Digits
  BY DEF IsDigit
<1>2. Word(s, i) # "end" /\ Word(s, i) # "-"
  BY <1>1, Figures
<1>3. s[i] = Word(s, i)
  BY <1>2, WordIn
<1>4. Figure(s, i) \in 0 .. 9 /\ Glyphs[Figure(s, i) + 1] = Word(s, i)
  BY <1>1, Figures DEF Figure
<1>5. Glyphs[1] = "0"
  BY DEF Glyphs
<1>6. "0" \in DOMAIN Digits
  BY Figures
<1>7. Digits["0"] = 0
  <2>1. 0 \in 0 .. 9 /\ 0 + 1 = 1
    OBVIOUS
  <2>2. Digits[Glyphs[0 + 1]] = 0
    BY <2>1, Figures
  <2>3. QED
    BY <1>5, <2>1, <2>2
<1>8. Figure(s, i) = 0 <=> Word(s, i) = "0"
  <2>1. Word(s, i) = "0" => Figure(s, i) = 0
    BY <1>7 DEF Figure
  <2>2. Figure(s, i) = 0 => Word(s, i) = "0"
    <3>1. SUFFICES ASSUME Figure(s, i) = 0 PROVE Word(s, i) = "0"
      OBVIOUS
    <3>2. Figure(s, i) + 1 = 1
      BY <3>1
    <3>3. QED
      BY <1>4, <1>5, <3>2
  <2>3. QED
    BY <2>1, <2>2
<1>9. QED
  BY <1>1, <1>2, <1>3, <1>4, <1>8 DEF Figure

(* The readers of a mode, each by the words at its place.                  *)
LEMMA HeadReads ==
  ASSUME NEW W, NEW s \in Seq(W)
  PROVE  ReadHead(s) =
           IF /\ Word(s, 1) = "OCRA-1:HOTP-" /\ Word(s, 2) = "HBELT" /\ Word(s, 3) = "-"
              /\ IsDigit(s, 4) /\ Figure(s, 4) \in 4 .. 9 /\ Word(s, 5) = ":"
           THEN Read(Figure(s, 4), 6) ELSE Fail
<1>1. IsDigit(s, 4) => Digits[s[4]] = Figure(s, 4)
  BY FigureIn
<1>2. QED
  BY <1>1, Follows3 DEF ReadHead

LEMMA QReads ==
  ASSUME NEW W, NEW s \in Seq(W), NEW i \in Nat, i # 0
  PROVE  LET m == 10 * Figure(s, i + 2) + Figure(s, i + 3)
         IN ReadQ(s, i) =
              IF /\ Word(s, i) = "Q" /\ Word(s, i + 1) \in {"A", "N", "H"}
                 /\ IsDigit(s, i + 2) /\ IsDigit(s, i + 3) /\ m \in 4 .. 64
              THEN Read(<<Word(s, i + 1), m>>, i + 4) ELSE Fail
<1> DEFINE n == Decimal(s, i + 2, 2)
           m == 10 * Figure(s, i + 2) + Figure(s, i + 3)
<1>1. i + 1 \in Nat /\ i + 2 \in Nat /\ i + 3 \in Nat /\ i + 1 # 0 /\ i + 2 # 0 /\ i + 3 # 0
      /\ (i + 2) + 1 = i + 3 /\ (i + 2) + 2 = i + 4
  OBVIOUS
<1>2. ReadQ(s, i) =
        IF /\ Word(s, i) = "Q" /\ Word(s, i + 1) \in {"A", "N", "H"}
           /\ n.ok /\ n.val \in 4 .. 64
        THEN Read(<<s[i + 1], n.val>>, n.at) ELSE Fail
  BY DEF ReadQ
<1>3. Word(s, i + 1) \in {"A", "N", "H"} => s[i + 1] = Word(s, i + 1)
  <2>1. Word(s, i + 1) \in {"A", "N", "H"} => Word(s, i + 1) # "end"
    OBVIOUS
  <2>2. QED
    BY <1>1, <2>1, WordIn
<1>4. CASE IsDigit(s, i + 2) /\ IsDigit(s, i + 3)
  <2>1. n = Read(10 * Digits[s[i + 2]] + Digits[s[i + 3]], i + 4)
    BY <1>1, <1>4, Decimals
  <2>2. Digits[s[i + 2]] = Figure(s, i + 2) /\ Digits[s[i + 3]] = Figure(s, i + 3)
    BY <1>1, <1>4, FigureIn
  <2>3. n = Read(m, i + 4)
    BY <2>1, <2>2
  <2> HIDE DEF n, m
  <2>4. n.ok /\ n.val = m /\ n.at = i + 4
    BY <2>3 DEF Read
  <2>5. QED
    BY <1>2, <1>3, <1>4, <2>4 DEF m
<1>5. CASE ~ (IsDigit(s, i + 2) /\ IsDigit(s, i + 3))
  <2>1. n = Fail
    BY <1>1, <1>5, Decimals
  <2> HIDE DEF n
  <2>2. ~ n.ok
    BY <2>1 DEF Fail
  <2>3. QED
    BY <1>2, <1>5, <2>2
<1>6. QED
  BY <1>4, <1>5

LEMMA PReads ==
  ASSUME NEW W, NEW s \in Seq(W), NEW i \in Nat, i # 0
  PROVE  ReadP(s, i) =
           IF ~ (Word(s, i) = "-" /\ Word(s, i + 1) = "P") THEN Read(0, i)
           ELSE IF Word(s, i + 2) \in DOMAIN HashLen
                THEN Read(HashLen[Word(s, i + 2)], i + 3) ELSE Fail
<1>1. Word(s, i + 2) \in DOMAIN HashLen => s[i + 2] = Word(s, i + 2)
  <2>1. Word(s, i + 2) \in DOMAIN HashLen => Word(s, i + 2) # "end"
    BY Hashes
  <2>2. i + 2 \in Nat /\ i + 2 # 0
    OBVIOUS
  <2>3. QED
    BY <2>1, <2>2, WordIn
<1>2. QED
  BY <1>1, Follows2 DEF ReadP

LEMMA SReads ==
  ASSUME NEW W, NEW s \in Seq(W), NEW i \in Nat, i # 0
  PROVE  LET m == 10 * (10 * Figure(s, i + 2) + Figure(s, i + 3)) + Figure(s, i + 4)
         IN ReadS(s, i) =
              IF ~ (Word(s, i) = "-" /\ Word(s, i + 1) = "S") THEN Read(0, i)
              ELSE IF /\ IsDigit(s, i + 2) /\ IsDigit(s, i + 3) /\ IsDigit(s, i + 4)
                      /\ m <= 512
                   THEN Read(m, i + 5) ELSE Fail
<1> DEFINE n == Decimal(s, i + 2, 3)
           m == 10 * (10 * Figure(s, i + 2) + Figure(s, i + 3)) + Figure(s, i + 4)
<1>1. i + 2 \in Nat /\ i + 3 \in Nat /\ i + 4 \in Nat /\ i + 2 # 0 /\ i + 3 # 0 /\ i + 4 # 0
      /\ (i + 2) + 1 = i + 3 /\ (i + 2) + 2 = i + 4 /\ (i + 2) + 3 = i + 5
  OBVIOUS
<1>2. ReadS(s, i) =
        IF ~ (Word(s, i) = "-" /\ Word(s, i + 1) = "S") THEN Read(0, i)
        ELSE IF n.ok /\ n.val <= 512 THEN n ELSE Fail
  BY Follows2 DEF ReadS
<1>3. CASE IsDigit(s, i + 2) /\ IsDigit(s, i + 3) /\ IsDigit(s, i + 4)
  <2>1. n = Read(10 * (10 * Digits[s[i + 2]] + Digits[s[i + 3]]) + Digits[s[i + 4]], i + 5)
    BY <1>1, <1>3, Decimals
  <2>2. /\ Digits[s[i + 2]] = Figure(s, i + 2) /\ Digits[s[i + 3]] = Figure(s, i + 3)
        /\ Digits[s[i + 4]] = Figure(s, i + 4)
    BY <1>1, <1>3, FigureIn
  <2>3. n = Read(m, i + 5)
    BY <2>1, <2>2
  <2> HIDE DEF n, m
  <2>4. n.ok /\ n.val = m
    BY <2>3 DEF Read
  <2>5. QED
    BY <1>2, <1>3, <2>3, <2>4 DEF m
<1>4. CASE ~ (IsDigit(s, i + 2) /\ IsDigit(s, i + 3) /\ IsDigit(s, i + 4))
  <2>1. n = Fail
    BY <1>1, <1>4, Decimals
  <2> HIDE DEF n
  <2>2. ~ n.ok
    BY <2>1 DEF Fail
  <2>3. QED
    BY <1>2, <1>4, <2>2
<1>5. QED
  BY <1>3, <1>4

LEMMA TReads ==
  ASSUME NEW W, NEW s \in Seq(W), NEW i \in Nat, i # 0
  PROVE  LET m1 == Figure(s, i + 2)
             m2 == 10 * Figure(s, i + 2) + Figure(s, i + 3)
             Time(m, j) == IF Word(s, j) \in DOMAIN Unit /\ m <= Unit[Word(s, j)].max
                           THEN Read(m * Unit[Word(s, j)].secs, j + 1) ELSE Fail
         IN ReadT(s, i) =
              IF ~ (Word(s, i) = "-" /\ Word(s, i + 1) = "T") THEN Read(0, i)
              ELSE IF Word(s, i + 2) = "0" \/ ~ IsDigit(s, i + 2) THEN Fail
              ELSE IF IsDigit(s, i + 3) THEN Time(m2, i + 4) ELSE Time(m1, i + 3)
<1> DEFINE n == IF IsDigit(s, i + 3) THEN Decimal(s, i + 2, 2) ELSE Decimal(s, i + 2, 1)
           w == Word(s, n.at)
           m1 == Figure(s, i + 2)
           m2 == 10 * Figure(s, i + 2) + Figure(s, i + 3)
<1>1. i + 2 \in Nat /\ i + 3 \in Nat /\ i + 2 # 0 /\ i + 3 # 0
      /\ (i + 2) + 1 = i + 3 /\ (i + 2) + 2 = i + 4 /\ i + 3 + 1 = i + 4
  OBVIOUS
<1>2. ReadT(s, i) =
        IF ~ (Word(s, i) = "-" /\ Word(s, i + 1) = "T") THEN Read(0, i)
        ELSE IF /\ Word(s, i + 2) # "0" /\ n.ok
                /\ w \in DOMAIN Unit /\ n.val <= Unit[w].max
             THEN Read(n.val * Unit[w].secs, n.at + 1) ELSE Fail
  BY Follows2 DEF ReadT
<1>3. CASE ~ IsDigit(s, i + 2)
  <2>1. n = Fail
    BY <1>1, <1>3, Decimals
  <2> HIDE DEF n, w
  <2>2. ~ n.ok
    BY <2>1 DEF Fail
  <2>3. QED
    BY <1>2, <1>3, <2>2
<1>4. CASE IsDigit(s, i + 2) /\ IsDigit(s, i + 3)
  <2>1. n = Read(10 * Digits[s[i + 2]] + Digits[s[i + 3]], i + 4)
    BY <1>1, <1>4, Decimals
  <2>2. Digits[s[i + 2]] = Figure(s, i + 2) /\ Digits[s[i + 3]] = Figure(s, i + 3)
    BY <1>1, <1>4, FigureIn
  <2>3. n = Read(m2, i + 4)
    BY <2>1, <2>2
  <2> HIDE DEF n, m2
  <2>4. n.ok /\ n.val = m2 /\ n.at = i + 4
    BY <2>3 DEF Read
  <2>5. w = Word(s, i + 4)
    BY <2>4
  <2> HIDE DEF w
  <2>6. QED
    BY <1>2, <1>4, <2>4, <2>5 DEF m2
<1>5. CASE IsDigit(s, i + 2) /\ ~ IsDigit(s, i + 3)
  <2>1. n = Read(Digits[s[i + 2]], i + 3)
    BY <1>1, <1>5, Decimals
  <2>2. Digits[s[i + 2]] = Figure(s, i + 2)
    BY <1>1, <1>5, FigureIn
  <2>3. n = Read(m1, i + 3)
    BY <2>1, <2>2
  <2> HIDE DEF n, m1
  <2>4. n.ok /\ n.val = m1 /\ n.at = i + 3
    BY <2>3 DEF Read
  <2>5. w = Word(s, i + 3)
    BY <2>4
  <2> HIDE DEF w
  <2>6. QED
    BY <1>2, <1>5, <2>4, <2>5 DEF m1
<1>6. QED
  BY <1>3, <1>4, <1>5

(* What is before a place of a line, and how it grows by words read.       *)
Before(s, i) == SubSeq(s, 1, i - 1)

(* What is before a place grows by the words read there.                   *)
LEMMA BeforeGrows ==
  ASSUME NEW W, NEW s \in Seq(W), NEW i \in 1 .. Len(s) + 1, NEW x \in Seq(W),
         \A k \in 1 .. Len(x) : x[k] # "end" /\ Word(s, i + k - 1) = x[k]
  PROVE  /\ i + Len(x) \in 1 .. Len(s) + 1
         /\ Before(s, i + Len(x)) = Before(s, i) \o x
<1>1. Len(s) \in Nat /\ Len(x) \in Nat /\ i \in Nat /\ i >= 1 /\ i <= Len(s) + 1
  OBVIOUS
<1>2. ASSUME NEW k \in 1 .. Len(x)
      PROVE  i + k - 1 \in 1 .. Len(s) /\ s[i + k - 1] = x[k]
  <2>1. i + k - 1 \in Nat /\ i + k - 1 # 0
    BY <1>1
  <2>2. QED
    BY <2>1, WordIn
<1>3. i + Len(x) <= Len(s) + 1
  <2>1. CASE Len(x) = 0
    BY <1>1, <2>1
  <2>2. CASE Len(x) # 0
    <3>1. Len(x) \in 1 .. Len(x)
      BY <1>1, <2>2
    <3>2. i + Len(x) - 1 <= Len(s)
      BY <1>1, <1>2, <3>1
    <3>3. QED
      BY <1>1, <3>2
  <2>3. QED
    BY <2>1, <2>2
<1> DEFINE a == Before(s, i)
           b == Before(s, i + Len(x))
<1>4. \A k \in 1 .. Len(s) : s[k] \in W
  OBVIOUS
<1>5. a \in Seq(W) /\ Len(a) = i - 1 /\ \A k \in 1 .. i - 1 : a[k] = s[k]
  <2>1. \A k \in 1 .. i - 1 : s[k] \in W
    BY <1>1, <1>4
  <2>2. /\ a \in Seq(W) /\ Len(a) = IF 1 <= i - 1 THEN i - 1 - 1 + 1 ELSE 0
        /\ \A k \in 1 .. i - 1 - 1 + 1 : a[k] = s[1 + k - 1]
    BY <1>1, <2>1, SubSeqProperties DEF Before
  <2>3. i - 1 - 1 + 1 = i - 1 /\ \A k \in 1 .. i - 1 : 1 + k - 1 = k
    BY <1>1
  <2> HIDE DEF a
  <2>4. QED
    BY <1>1, <2>2, <2>3
<1>6. /\ b \in Seq(W) /\ Len(b) = i + Len(x) - 1
      /\ \A k \in 1 .. i + Len(x) - 1 : b[k] = s[k]
  <2>1. PICK j \in Nat : j = i + Len(x) - 1
    <3>1. i + Len(x) - 1 \in Nat
      BY <1>1
    <3>2. QED
      BY <3>1
  <2>2. \A k \in 1 .. j : s[k] \in W
    BY <1>1, <1>3, <1>4, <2>1
  <2>3. b = SubSeq(s, 1, j)
    BY <2>1 DEF Before
  <2> HIDE DEF b
  <2>4. /\ b \in Seq(W) /\ Len(b) = IF 1 <= j THEN j - 1 + 1 ELSE 0
        /\ \A k \in 1 .. j - 1 + 1 : b[k] = s[1 + k - 1]
    BY <2>2, <2>3, SubSeqProperties
  <2>5. j - 1 + 1 = j /\ \A k \in 1 .. j : 1 + k - 1 = k
    OBVIOUS
  <2>6. Len(b) = j /\ \A k \in 1 .. j : b[k] = s[k]
    BY <2>4, <2>5
  <2>7. QED
    BY <2>1, <2>4, <2>6
<1> HIDE DEF a, b
<1>7. /\ a \o x \in Seq(W) /\ Len(a \o x) = Len(a) + Len(x)
      /\ \A k \in 1 .. Len(a) + Len(x) :
           (a \o x)[k] = IF k <= Len(a) THEN a[k] ELSE x[k - Len(a)]
  BY <1>5, ConcatProperties
<1>8. Len(b) = Len(a \o x)
  BY <1>1, <1>5, <1>6, <1>7
<1>9. ASSUME NEW k \in 1 .. Len(b)
      PROVE  b[k] = (a \o x)[k]
  <2>1. k \in 1 .. i + Len(x) - 1 /\ k \in 1 .. Len(a) + Len(x)
    BY <1>1, <1>5, <1>6
  <2>2. b[k] = s[k]
    BY <1>6, <2>1
  <2>3. CASE k <= i - 1
    <3>1. k \in 1 .. i - 1 /\ k <= Len(a)
      BY <1>5, <2>1, <2>3
    <3>2. QED
      BY <1>5, <1>7, <2>1, <2>2, <3>1
  <2>4. CASE ~ (k <= i - 1)
    <3>1. /\ ~ (k <= Len(a)) /\ k - Len(a) \in 1 .. Len(x)
          /\ i + (k - Len(a)) - 1 = k
      BY <1>1, <1>5, <2>1, <2>4
    <3>2. s[k] = x[k - Len(a)]
      BY <1>2, <3>1
    <3>3. QED
      BY <1>7, <2>1, <2>2, <3>1, <3>2
  <2>5. QED
    BY <2>3, <2>4
<1>10. b = a \o x
  BY <1>6, <1>7, <1>8, <1>9, SeqEqual
<1>11. QED
  BY <1>1, <1>3, <1>10 DEF a, b

(* The same for the few words a part of a line has.                        *)
LEMMA Grows0 ==
  ASSUME NEW W, NEW s \in Seq(W), NEW i \in 1 .. Len(s) + 1
  PROVE  Before(s, i) = Before(s, i) \o <<>>
<1>1. Len(s) \in Nat /\ \A k \in 1 .. Len(s) : s[k] \in W
  OBVIOUS
<1>2. \A k \in 1 .. i - 1 : s[k] \in W
  BY <1>1
<1>3. Before(s, i) \in Seq(W)
  BY <1>1, <1>2, SubSeqProperties DEF Before
<1>4. QED
  BY <1>3, ConcatEmptySeq

LEMMA Grows2 ==
  ASSUME NEW W, NEW s \in Seq(W), NEW i \in 1 .. Len(s) + 1,
         Word(s, i) # "end", Word(s, i + 1) # "end"
  PROVE  /\ i + 2 \in 1 .. Len(s) + 1
         /\ Before(s, i + 2) =
              Before(s, i) \o <<Word(s, i), Word(s, i + 1)>>
<1> DEFINE x == <<Word(s, i), Word(s, i + 1)>>
<1>1. Word(s, i) \in W /\ Word(s, i + 1) \in W
  <2>1. /\ i \in Nat /\ i # 0
        /\ i + 1 \in Nat /\ i + 1 # 0
    OBVIOUS
  <2>2. \A k \in 1 .. Len(s) : s[k] \in W
    OBVIOUS
  <2>3. QED
    BY <2>1, <2>2, WordIn
<1>2. /\ x \in Seq(W) /\ Len(x) = 2
      /\ x[1] = Word(s, i) /\ x[2] = Word(s, i + 1)
  BY <1>1
<1>3. /\ i + 1 - 1 = i /\ i + 2 - 1 = i + 1
      /\ 1 .. 2 = {1, 2}
  OBVIOUS
<1> HIDE DEF x
<1>4. \A k \in 1 .. Len(x) : x[k] # "end" /\ Word(s, i + k - 1) = x[k]
  BY <1>2, <1>3
<1>5. i + Len(x) \in 1 .. Len(s) + 1 /\ Before(s, i + Len(x)) = Before(s, i) \o x
  <2>1. x \in Seq(W)
    BY <1>2
  <2>2. QED
    BY <1>4, <2>1, BeforeGrows
<1>6. QED
  BY <1>2, <1>5 DEF x

LEMMA Grows3 ==
  ASSUME NEW W, NEW s \in Seq(W), NEW i \in 1 .. Len(s) + 1,
         Word(s, i) # "end", Word(s, i + 1) # "end", Word(s, i + 2) # "end"
  PROVE  /\ i + 3 \in 1 .. Len(s) + 1
         /\ Before(s, i + 3) =
              Before(s, i) \o <<Word(s, i), Word(s, i + 1), Word(s, i + 2)>>
<1> DEFINE x == <<Word(s, i), Word(s, i + 1), Word(s, i + 2)>>
<1>1. Word(s, i) \in W /\ Word(s, i + 1) \in W /\ Word(s, i + 2) \in W
  <2>1. /\ i \in Nat /\ i # 0
        /\ i + 1 \in Nat /\ i + 1 # 0
        /\ i + 2 \in Nat /\ i + 2 # 0
    OBVIOUS
  <2>2. \A k \in 1 .. Len(s) : s[k] \in W
    OBVIOUS
  <2>3. QED
    BY <2>1, <2>2, WordIn
<1>2. /\ x \in Seq(W) /\ Len(x) = 3
      /\ x[1] = Word(s, i) /\ x[2] = Word(s, i + 1) /\ x[3] = Word(s, i + 2)
  BY <1>1
<1>3. /\ i + 1 - 1 = i /\ i + 2 - 1 = i + 1 /\ i + 3 - 1 = i + 2
      /\ 1 .. 3 = {1, 2, 3}
  OBVIOUS
<1> HIDE DEF x
<1>4. \A k \in 1 .. Len(x) : x[k] # "end" /\ Word(s, i + k - 1) = x[k]
  BY <1>2, <1>3
<1>5. i + Len(x) \in 1 .. Len(s) + 1 /\ Before(s, i + Len(x)) = Before(s, i) \o x
  <2>1. x \in Seq(W)
    BY <1>2
  <2>2. QED
    BY <1>4, <2>1, BeforeGrows
<1>6. QED
  BY <1>2, <1>5 DEF x

LEMMA Grows4 ==
  ASSUME NEW W, NEW s \in Seq(W), NEW i \in 1 .. Len(s) + 1,
         Word(s, i) # "end", Word(s, i + 1) # "end", Word(s, i + 2) # "end",
         Word(s, i + 3) # "end"
  PROVE  /\ i + 4 \in 1 .. Len(s) + 1
         /\ Before(s, i + 4) =
              Before(s, i) \o <<Word(s, i), Word(s, i + 1), Word(s, i + 2),
                                Word(s, i + 3)>>
<1> DEFINE x == <<Word(s, i), Word(s, i + 1), Word(s, i + 2), Word(s, i + 3)>>
<1>1. /\ Word(s, i) \in W /\ Word(s, i + 1) \in W /\ Word(s, i + 2) \in W
      /\ Word(s, i + 3) \in W
  <2>1. /\ i \in Nat /\ i # 0
        /\ i + 1 \in Nat /\ i + 1 # 0
        /\ i + 2 \in Nat /\ i + 2 # 0
        /\ i + 3 \in Nat /\ i + 3 # 0
    OBVIOUS
  <2>2. \A k \in 1 .. Len(s) : s[k] \in W
    OBVIOUS
  <2>3. QED
    BY <2>1, <2>2, WordIn
<1>2. /\ x \in Seq(W) /\ Len(x) = 4
      /\ x[1] = Word(s, i) /\ x[2] = Word(s, i + 1) /\ x[3] = Word(s, i + 2)
      /\ x[4] = Word(s, i + 3)
  BY <1>1
<1>3. /\ i + 1 - 1 = i /\ i + 2 - 1 = i + 1 /\ i + 3 - 1 = i + 2
      /\ i + 4 - 1 = i + 3
      /\ 1 .. 4 = {1, 2, 3, 4}
  OBVIOUS
<1> HIDE DEF x
<1>4. \A k \in 1 .. Len(x) : x[k] # "end" /\ Word(s, i + k - 1) = x[k]
  BY <1>2, <1>3
<1>5. i + Len(x) \in 1 .. Len(s) + 1 /\ Before(s, i + Len(x)) = Before(s, i) \o x
  <2>1. x \in Seq(W)
    BY <1>2
  <2>2. QED
    BY <1>4, <2>1, BeforeGrows
<1>6. QED
  BY <1>2, <1>5 DEF x

LEMMA Grows5 ==
  ASSUME NEW W, NEW s \in Seq(W), NEW i \in 1 .. Len(s) + 1,
         Word(s, i) # "end", Word(s, i + 1) # "end", Word(s, i + 2) # "end",
         Word(s, i + 3) # "end", Word(s, i + 4) # "end"
  PROVE  /\ i + 5 \in 1 .. Len(s) + 1
         /\ Before(s, i + 5) =
              Before(s, i) \o <<Word(s, i), Word(s, i + 1), Word(s, i + 2),
                                Word(s, i + 3), Word(s, i + 4)>>
<1> DEFINE x == <<Word(s, i), Word(s, i + 1), Word(s, i + 2), Word(s, i + 3),
                  Word(s, i + 4)>>
<1>1. /\ Word(s, i) \in W /\ Word(s, i + 1) \in W /\ Word(s, i + 2) \in W
      /\ Word(s, i + 3) \in W /\ Word(s, i + 4) \in W
  <2>1. /\ i \in Nat /\ i # 0
        /\ i + 1 \in Nat /\ i + 1 # 0
        /\ i + 2 \in Nat /\ i + 2 # 0
        /\ i + 3 \in Nat /\ i + 3 # 0
        /\ i + 4 \in Nat /\ i + 4 # 0
    OBVIOUS
  <2>2. \A k \in 1 .. Len(s) : s[k] \in W
    OBVIOUS
  <2>3. QED
    BY <2>1, <2>2, WordIn
<1>2. /\ x \in Seq(W) /\ Len(x) = 5
      /\ x[1] = Word(s, i) /\ x[2] = Word(s, i + 1) /\ x[3] = Word(s, i + 2)
      /\ x[4] = Word(s, i + 3) /\ x[5] = Word(s, i + 4)
  BY <1>1
<1>3. /\ i + 1 - 1 = i /\ i + 2 - 1 = i + 1 /\ i + 3 - 1 = i + 2
      /\ i + 4 - 1 = i + 3 /\ i + 5 - 1 = i + 4
      /\ 1 .. 5 = {1, 2, 3, 4, 5}
  OBVIOUS
<1> HIDE DEF x
<1>4. \A k \in 1 .. Len(x) : x[k] # "end" /\ Word(s, i + k - 1) = x[k]
  BY <1>2, <1>3
<1>5. i + Len(x) \in 1 .. Len(s) + 1 /\ Before(s, i + Len(x)) = Before(s, i) \o x
  <2>1. x \in Seq(W)
    BY <1>2
  <2>2. QED
    BY <1>4, <2>1, BeforeGrows
<1>6. QED
  BY <1>2, <1>5 DEF x

(* What the readers accept is written as Line() writes it.                 *)
LEMMA NamesOf2 ==
  ASSUME NEW W, NEW s \in Seq(W), NEW i \in Nat, i # 0, IsDigit(s, i), IsDigit(s, i + 1)
  PROVE  LET m == 10 * Figure(s, i) + Figure(s, i + 1)
         IN m \in 0 .. 99 /\ Name(m \div 10) = Word(s, i) /\ Name(m) = Word(s, i + 1)
<1>1. PICK a \in 0 .. 9, b \in 0 .. 9 : a = Figure(s, i) /\ b = Figure(s, i + 1)
  BY FigureIn
<1>2. PICK m \in 0 .. 99 : m = 10 * a + b
  OBVIOUS
<1>3. m \div 10 = a /\ m % 10 = b /\ a % 10 = a
  BY <1>2
<1>4. Name(m) = Word(s, i + 1)
  <2>1. Word(s, i + 1) \in DOMAIN Digits /\ Digits[Word(s, i + 1)] = b
    BY <1>1 DEF IsDigit, Figure
  <2>2. m \in Nat
    OBVIOUS
  <2>3. QED
    BY <1>3, <2>1, <2>2, Names
<1>5. Name(a) = Word(s, i)
  <2>1. Word(s, i) \in DOMAIN Digits /\ Digits[Word(s, i)] = a
    BY <1>1 DEF IsDigit, Figure
  <2>2. a \in Nat
    BY SMTT(40)
  <2>3. QED
    BY <1>3, <2>1, <2>2, Names
<1>6. QED
  BY <1>1, <1>2, <1>3, <1>4, <1>5

LEMMA NamesOf3 ==
  ASSUME NEW W, NEW s \in Seq(W), NEW i \in Nat, i # 0,
         IsDigit(s, i), IsDigit(s, i + 1), IsDigit(s, i + 2)
  PROVE  LET m == 10 * (10 * Figure(s, i) + Figure(s, i + 1)) + Figure(s, i + 2)
         IN /\ m \in 0 .. 999 /\ Name(m \div 100) = Word(s, i)
            /\ Name(m \div 10) = Word(s, i + 1) /\ Name(m) = Word(s, i + 2)
<1>1. PICK a \in 0 .. 9, b \in 0 .. 9, c \in 0 .. 9 :
        a = Figure(s, i) /\ b = Figure(s, i + 1) /\ c = Figure(s, i + 2)
  <2>1. i + 1 \in Nat /\ i + 2 \in Nat /\ i + 1 # 0 /\ i + 2 # 0
    OBVIOUS
  <2>2. QED
    BY <2>1, FigureIn
<1>2. PICK m \in 0 .. 999 : m = 10 * (10 * a + b) + c
  OBVIOUS
<1>3. PICK k \in 0 .. 99 : k = 10 * a + b
  OBVIOUS
<1>4. m \div 10 = k /\ m % 10 = c /\ m \div 100 = a /\ k % 10 = b /\ a % 10 = a
  BY <1>2, <1>3
<1>5. Name(m) = Word(s, i + 2)
  <2>1. Word(s, i + 2) \in DOMAIN Digits /\ Digits[Word(s, i + 2)] = c
    BY <1>1 DEF IsDigit, Figure
  <2>2. m \in Nat
    OBVIOUS
  <2>3. QED
    BY <1>4, <2>1, <2>2, Names
<1>6. Name(k) = Word(s, i + 1)
  <2>1. Word(s, i + 1) \in DOMAIN Digits /\ Digits[Word(s, i + 1)] = b
    BY <1>1 DEF IsDigit, Figure
  <2>2. k \in Nat
    OBVIOUS
  <2>3. QED
    BY <1>4, <2>1, <2>2, Names
<1>7. Name(a) = Word(s, i)
  <2>1. Word(s, i) \in DOMAIN Digits /\ Digits[Word(s, i)] = a
    BY <1>1 DEF IsDigit, Figure
  <2>2. a \in Nat
    OBVIOUS
  <2>3. QED
    BY <1>4, <2>1, <2>2, Names
<1>8. QED
  BY <1>1, <1>2, <1>4, <1>5, <1>6, <1>7

(* A part that is read ends in the line, and was written as Line() does.   *)
LEMMA CtrWritten ==
  ASSUME NEW W, NEW s \in Seq(W), NEW i \in 1 .. Len(s) + 1, ReadCtr(s, i).ok
  PROVE  \E g \in BOOLEAN :
           /\ ReadCtr(s, i).val = IF g THEN 8 ELSE 0
           /\ ReadCtr(s, i).at \in 1 .. Len(s) + 1
           /\ Before(s, ReadCtr(s, i).at) =
                Before(s, i) \o (IF g THEN <<"C", "-">> ELSE <<>>)
<1>1. CASE Word(s, i) # "C"
  <2>1. ReadCtr(s, i) = Read(0, i)
    BY <1>1 DEF ReadCtr
  <2>2. ReadCtr(s, i).val = 0 /\ ReadCtr(s, i).at = i
    BY <2>1 DEF Read
  <2>3. WITNESS FALSE \in BOOLEAN
  <2>4. QED
    BY <2>2, Grows0
<1>2. CASE Word(s, i) = "C"
  <2>1. Word(s, i + 1) = "-"
    BY <1>2 DEF ReadCtr, Fail
  <2>2. ReadCtr(s, i) = Read(8, i + 2)
    BY <1>2, <2>1 DEF ReadCtr
  <2>3. ReadCtr(s, i).val = 8 /\ ReadCtr(s, i).at = i + 2
    BY <2>2 DEF Read
  <2>4. i + 2 \in 1 .. Len(s) + 1 /\ Before(s, i + 2) = Before(s, i) \o <<"C", "-">>
    BY <1>2, <2>1, Grows2
  <2>5. WITNESS TRUE \in BOOLEAN
  <2>6. QED
    BY <2>3, <2>4
<1>3. QED
  BY <1>1, <1>2

(* The challenge that is read at a place.                                  *)
QAt(s, i, y, m) ==
  /\ ReadQ(s, i).val = <<y, m>>
  /\ ReadQ(s, i).at \in 1 .. Len(s) + 1
  /\ Before(s, ReadQ(s, i).at) =
       Before(s, i) \o <<"Q", y, Name(m \div 10), Name(m)>>

LEMMA QWritten ==
  ASSUME NEW W, NEW s \in Seq(W), NEW i \in 1 .. Len(s) + 1, ReadQ(s, i).ok
  PROVE  \E y \in {"A", "N", "H"}, m \in 4 .. 64 : QAt(s, i, y, m)
<1> DEFINE m == 10 * Figure(s, i + 2) + Figure(s, i + 3)
           y == Word(s, i + 1)
<1>1. i \in Nat /\ i # 0 /\ i + 2 \in Nat /\ i + 2 # 0 /\ (i + 2) + 1 = i + 3
  OBVIOUS
<1>2. ReadQ(s, i) =
        IF /\ Word(s, i) = "Q" /\ y \in {"A", "N", "H"}
           /\ IsDigit(s, i + 2) /\ IsDigit(s, i + 3) /\ m \in 4 .. 64
        THEN Read(<<y, m>>, i + 4) ELSE Fail
  BY <1>1, QReads
<1> HIDE DEF m, y
<1>3. /\ Word(s, i) = "Q" /\ y \in {"A", "N", "H"}
      /\ IsDigit(s, i + 2) /\ IsDigit(s, i + 3) /\ m \in 4 .. 64
      /\ ReadQ(s, i) = Read(<<y, m>>, i + 4)
  BY <1>2 DEF Fail
<1>4. ReadQ(s, i).val = <<y, m>> /\ ReadQ(s, i).at = i + 4
  BY <1>3 DEF Read
<1>5. Name(m \div 10) = Word(s, i + 2) /\ Name(m) = Word(s, i + 3)
  BY <1>1, <1>3, NamesOf2 DEF m
<1>6. /\ y # "end"
      /\ Name(m \div 10) # "end" /\ Name(m) # "end"
  <2>1. Word(s, i + 2) \in DOMAIN Digits /\ Word(s, i + 3) \in DOMAIN Digits
    BY <1>3 DEF IsDigit
  <2>2. QED
    BY <1>3, <1>5, <2>1, Figures
<1>7. /\ i + 4 \in 1 .. Len(s) + 1
      /\ Before(s, i + 4) = Before(s, i) \o <<"Q", y, Name(m \div 10), Name(m)>>
  <2>1. /\ Word(s, i) # "end" /\ Word(s, i + 1) # "end" /\ Word(s, i + 2) # "end"
        /\ Word(s, i + 3) # "end"
    BY <1>3, <1>5, <1>6 DEF y
  <2>2. /\ i + 4 \in 1 .. Len(s) + 1
        /\ Before(s, i + 4) =
             Before(s, i) \o <<Word(s, i), Word(s, i + 1), Word(s, i + 2), Word(s, i + 3)>>
    BY <2>1, Grows4
  <2>3. QED
    BY <1>3, <1>5, <2>2 DEF y
<1>8. QAt(s, i, y, m)
  BY <1>4, <1>7 DEF QAt
<1>9. QED
  BY <1>3, <1>8

LEMMA PWritten ==
  ASSUME NEW W, NEW s \in Seq(W), NEW i \in 1 .. Len(s) + 1, ReadP(s, i).ok
  PROVE  \E h \in DOMAIN HashLen \cup {"none"} :
           /\ ReadP(s, i).val = IF h = "none" THEN 0 ELSE HashLen[h]
           /\ ReadP(s, i).at \in 1 .. Len(s) + 1
           /\ Before(s, ReadP(s, i).at) =
                Before(s, i) \o (IF h = "none" THEN <<>> ELSE <<"-", "P", h>>)
<1>1. i \in Nat /\ i # 0
  OBVIOUS
<1>2. CASE ~ (Word(s, i) = "-" /\ Word(s, i + 1) = "P")
  <2>1. ReadP(s, i) = Read(0, i)
    BY <1>1, <1>2, PReads
  <2>2. ReadP(s, i).val = 0 /\ ReadP(s, i).at = i
    BY <2>1 DEF Read
  <2>3. WITNESS "none" \in DOMAIN HashLen \cup {"none"}
  <2>4. QED
    BY <2>2, Grows0
<1>3. CASE Word(s, i) = "-" /\ Word(s, i + 1) = "P"
  <2> DEFINE h == Word(s, i + 2)
  <2>1. h \in DOMAIN HashLen /\ ReadP(s, i) = Read(HashLen[h], i + 3)
    BY <1>1, <1>3, PReads DEF Fail
  <2> HIDE DEF h
  <2>2. ReadP(s, i).val = HashLen[h] /\ ReadP(s, i).at = i + 3
    BY <2>1 DEF Read
  <2>3. h # "none" /\ h # "end"
    BY <2>1, Hashes
  <2>4. /\ i + 3 \in 1 .. Len(s) + 1
        /\ Before(s, i + 3) = Before(s, i) \o <<"-", "P", h>>
    BY <1>3, <2>3, Grows3 DEF h
  <2>5. QED
    BY <2>1, <2>2, <2>3, <2>4
<1>4. QED
  BY <1>2, <1>3

Sids == (0 .. 512) \cup {1000}

(* The session that is read at a place.                                    *)
SAt(s, i, m) ==
  /\ ReadS(s, i).val = IF m = 1000 THEN 0 ELSE m
  /\ ReadS(s, i).at \in 1 .. Len(s) + 1
  /\ Before(s, ReadS(s, i).at) =
       Before(s, i) \o
         (IF m = 1000 THEN <<>>
          ELSE <<"-", "S", Name(m \div 100), Name(m \div 10), Name(m)>>)

LEMMA SWritten ==
  ASSUME NEW W, NEW s \in Seq(W), NEW i \in 1 .. Len(s) + 1, ReadS(s, i).ok
  PROVE  \E m \in Sids : SAt(s, i, m)
<1>1. i \in Nat /\ i # 0
  OBVIOUS
<1>2. CASE ~ (Word(s, i) = "-" /\ Word(s, i + 1) = "S")
  <2>1. ReadS(s, i) = Read(0, i)
    BY <1>1, <1>2, SReads
  <2>2. ReadS(s, i).val = 0 /\ ReadS(s, i).at = i
    BY <2>1 DEF Read
  <2>3. PICK m \in Sids : m = 1000
    BY DEF Sids
  <2>4. SAt(s, i, m)
    BY <2>2, <2>3, Grows0 DEF SAt
  <2>5. QED
    BY <2>4
<1>3. CASE Word(s, i) = "-" /\ Word(s, i + 1) = "S"
  <2> DEFINE m == 10 * (10 * Figure(s, i + 2) + Figure(s, i + 3)) + Figure(s, i + 4)
  <2>1. ReadS(s, i) = IF /\ IsDigit(s, i + 2) /\ IsDigit(s, i + 3) /\ IsDigit(s, i + 4)
                         /\ m <= 512
                      THEN Read(m, i + 5) ELSE Fail
    BY <1>1, <1>3, SReads
  <2> HIDE DEF m
  <2>2. /\ IsDigit(s, i + 2) /\ IsDigit(s, i + 3) /\ IsDigit(s, i + 4) /\ m <= 512
        /\ ReadS(s, i) = Read(m, i + 5)
    BY <2>1 DEF Fail
  <2>3. /\ i + 2 \in Nat /\ i + 2 # 0 /\ (i + 2) + 1 = i + 3 /\ (i + 2) + 2 = i + 4
    BY <1>1
  <2>4. /\ m \in 0 .. 999 /\ Name(m \div 100) = Word(s, i + 2)
        /\ Name(m \div 10) = Word(s, i + 3) /\ Name(m) = Word(s, i + 4)
    BY <2>2, <2>3, NamesOf3 DEF m
  <2>5. m \in 0 .. 512 /\ m # 1000
    BY <2>2, <2>4
  <2>6. ReadS(s, i).val = m /\ ReadS(s, i).at = i + 5
    BY <2>2 DEF Read
  <2>7. /\ Name(m \div 100) # "end" /\ Name(m \div 10) # "end"
        /\ Name(m) # "end"
    <3>1. /\ Word(s, i + 2) \in DOMAIN Digits /\ Word(s, i + 3) \in DOMAIN Digits
          /\ Word(s, i + 4) \in DOMAIN Digits
      BY <2>2 DEF IsDigit
    <3>2. QED
      BY <2>4, <3>1, Figures
  <2>8. /\ i + 5 \in 1 .. Len(s) + 1
        /\ Before(s, i + 5) =
             Before(s, i) \o <<"-", "S", Name(m \div 100), Name(m \div 10), Name(m)>>
    <3>1. /\ Word(s, i) # "end" /\ Word(s, i + 1) # "end" /\ Word(s, i + 2) # "end"
          /\ Word(s, i + 3) # "end" /\ Word(s, i + 4) # "end"
      BY <1>3, <2>4, <2>7
    <3>2. /\ i + 5 \in 1 .. Len(s) + 1
          /\ Before(s, i + 5) =
               Before(s, i) \o <<Word(s, i), Word(s, i + 1), Word(s, i + 2),
                                 Word(s, i + 3), Word(s, i + 4)>>
      BY <3>1, Grows5
    <3>3. QED
      BY <1>3, <2>4, <3>2
  <2>9. m \in Sids
    BY <2>5 DEF Sids
  <2>10. PICK k \in Sids : k = m
    BY <2>9
  <2>11. k # 1000
    BY <2>5, <2>10
  <2>12. ReadS(s, i).val = IF k = 1000 THEN 0 ELSE k
    BY <2>6, <2>10, <2>11
  <2>13. ReadS(s, i).at \in 1 .. Len(s) + 1
    BY <2>6, <2>8
  <2>14. Before(s, ReadS(s, i).at) =
           Before(s, i) \o <<"-", "S", Name(k \div 100), Name(k \div 10), Name(k)>>
    BY <2>6, <2>8, <2>10
  <2>15. Before(s, ReadS(s, i).at) =
           Before(s, i) \o
             (IF k = 1000 THEN <<>>
              ELSE <<"-", "S", Name(k \div 100), Name(k \div 10), Name(k)>>)
    BY <2>11, <2>14, SMTT(40)
  <2>16. SAt(s, i, k)
    BY <2>12, <2>13, <2>15 DEF SAt
  <2>17. QED
    BY <2>16
<1>4. QED
  BY <1>2, <1>3

LEMMA Joined4 ==
  ASSUME NEW a, NEW b, NEW c, NEW d
  PROVE  <<a, b>> \o <<c>> \o <<d>> = <<a, b, c, d>>
<1> DEFINE W == {a, b, c, d}
           x == <<a, b>> \o <<c>>
           y == x \o <<d>>
           z == <<a, b, c, d>>
<1>1. <<a, b>> \in Seq(W) /\ <<c>> \in Seq(W) /\ <<d>> \in Seq(W)
  OBVIOUS
<1>2. z \in Seq(W) /\ Len(z) = 4 /\ z[1] = a /\ z[2] = b /\ z[3] = c /\ z[4] = d
  OBVIOUS
<1>3. x \in Seq(W) /\ Len(x) = 3 /\ x[1] = a /\ x[2] = b /\ x[3] = c
  OBVIOUS
<1> HIDE DEF x, z
<1>4. y \in Seq(W) /\ Len(y) = 4 /\ y[1] = a /\ y[2] = b /\ y[3] = c /\ y[4] = d
  <2> DEFINE t == <<d>>
  <2>1. t \in Seq(W) /\ Len(t) = 1 /\ t[1] = d
    OBVIOUS
  <2> HIDE DEF t, W
  <2>2. /\ x \o t \in Seq(W) /\ Len(x \o t) = Len(x) + Len(t)
        /\ \A i \in 1 .. Len(x) + Len(t) :
             (x \o t)[i] = IF i <= Len(x) THEN x[i] ELSE t[i - Len(x)]
    BY <1>3, <2>1, ConcatProperties
  <2>3. QED
    BY <1>3, <2>1, <2>2 DEF t
<1> HIDE DEF y, W
<1>5. 1 .. 4 = {1, 2, 3, 4}
  OBVIOUS
<1>6. \A i \in 1 .. 4 : y[i] = z[i]
  BY <1>2, <1>4, <1>5
<1>7. y = z
  BY <1>2, <1>4, <1>6, SeqEqual
<1>8. QED
  BY <1>7 DEF x, y, z

LEMMA Joined5 ==
  ASSUME NEW a, NEW b, NEW c, NEW d, NEW e
  PROVE  <<a, b>> \o <<c, d>> \o <<e>> = <<a, b, c, d, e>>
<1> DEFINE W == {a, b, c, d, e}
           x == <<a, b>> \o <<c, d>>
           y == x \o <<e>>
           z == <<a, b, c, d, e>>
<1>1. <<a, b>> \in Seq(W) /\ <<c, d>> \in Seq(W) /\ <<e>> \in Seq(W)
  OBVIOUS
<1>2. /\ z \in Seq(W) /\ Len(z) = 5
      /\ z[1] = a /\ z[2] = b /\ z[3] = c /\ z[4] = d /\ z[5] = e
  OBVIOUS
<1>3. x \in Seq(W) /\ Len(x) = 4 /\ x[1] = a /\ x[2] = b /\ x[3] = c /\ x[4] = d
  OBVIOUS
<1> HIDE DEF x, z
<1>4. /\ y \in Seq(W) /\ Len(y) = 5
      /\ y[1] = a /\ y[2] = b /\ y[3] = c /\ y[4] = d /\ y[5] = e
  <2> DEFINE t == <<e>>
  <2>1. t \in Seq(W) /\ Len(t) = 1 /\ t[1] = e
    OBVIOUS
  <2> HIDE DEF t, W
  <2>2. /\ x \o t \in Seq(W) /\ Len(x \o t) = Len(x) + Len(t)
        /\ \A i \in 1 .. Len(x) + Len(t) :
             (x \o t)[i] = IF i <= Len(x) THEN x[i] ELSE t[i - Len(x)]
    BY <1>3, <2>1, ConcatProperties
  <2>3. QED
    BY <1>3, <2>1, <2>2 DEF t
<1> HIDE DEF y, W
<1>5. 1 .. 5 = {1, 2, 3, 4, 5}
  OBVIOUS
<1>6. \A i \in 1 .. 5 : y[i] = z[i]
  BY <1>2, <1>4, <1>5
<1>7. y = z
  BY <1>2, <1>4, <1>6, SeqEqual
<1>8. QED
  BY <1>7 DEF x, y, z

(* A step of time takes one figure or two.                                 *)
LEMMA TimeWritten ==
  ASSUME NEW n \in Nat, NEW w
  PROVE  <<"-", "T">> \o Plain(n) \o <<w>> =
           IF n < 10 THEN <<"-", "T", Name(n), w>>
           ELSE <<"-", "T", Name(n \div 10), Name(n), w>>
<1>1. CASE n < 10
  <2>1. Plain(n) = <<Name(n)>>
    BY <1>1 DEF Plain
  <2>2. QED
    BY <1>1, <2>1, Joined4
<1>2. CASE ~ (n < 10)
  <2>1. Plain(n) = <<Name(n \div 10), Name(n)>>
    BY <1>2 DEF Plain
  <2>2. QED
    BY <1>2, <2>1, Joined5
<1>3. QED
  BY <1>1, <1>2

(* Seconds in n units.                                                     *)
Seconds(w, n) ==
  CASE w = "none" -> 0 [] w = "S" -> n [] w = "M" -> 60 * n [] w = "H" -> 3600 * n

(* A unit gives the seconds of a step, and its greatest number.            *)
LEMMA SecondsOf ==
  ASSUME NEW w \in DOMAIN Unit, NEW n \in Nat
  PROVE  /\ n * Unit[w].secs = Seconds(w, n)
         /\ n \in {Seconds(w, n), Seconds(w, n) \div 60, Seconds(w, n) \div 3600}
         /\ Unit[w].max = IF w = "H" THEN 48 ELSE 59
<1>1. w \in {"S", "M", "H"}
  BY Units
<1>2. CASE w = "S"
  BY <1>2, Units DEF Seconds
<1>3. CASE w = "M"
  <2>1. Seconds(w, n) = 60 * n /\ n * Unit[w].secs = 60 * n /\ Unit[w].max = 59
    BY <1>3, Units DEF Seconds
  <2>2. (60 * n) \div 60 = n
    OBVIOUS
  <2>3. QED
    BY <1>3, <2>1, <2>2
<1>4. CASE w = "H"
  <2>1. Seconds(w, n) = 3600 * n /\ n * Unit[w].secs = 3600 * n /\ Unit[w].max = 48
    BY <1>4, Units DEF Seconds
  <2>2. (3600 * n) \div 3600 = n
    OBVIOUS
  <2>3. QED
    BY <1>4, <2>1, <2>2
<1>5. QED
  BY <1>1, <1>2, <1>3, <1>4

UnitNames == DOMAIN Unit \cup {"none"}

(* The step of time that is read at a place.                               *)
TimeAt(s, i, w, n) ==
  /\ w # "none" => n \in 1 .. (IF w = "H" THEN 48 ELSE 59)
  /\ ReadT(s, i).val = Seconds(w, n)
  /\ n \in {Seconds(w, n), Seconds(w, n) \div 60, Seconds(w, n) \div 3600}
  /\ ReadT(s, i).at \in 1 .. Len(s) + 1
  /\ Before(s, ReadT(s, i).at) =
       Before(s, i) \o (IF w = "none" THEN <<>>
                        ELSE <<"-", "T">> \o Plain(n) \o <<w>>)

LEMMA TWritten ==
  ASSUME NEW W, NEW s \in Seq(W), NEW i \in 1 .. Len(s) + 1, ReadT(s, i).ok
  PROVE  \E w \in UnitNames, n \in Nat : TimeAt(s, i, w, n)
<1>1. i \in Nat /\ i # 0
  OBVIOUS
<1>2. CASE ~ (Word(s, i) = "-" /\ Word(s, i + 1) = "T")
  <2>1. ReadT(s, i) = Read(0, i)
    BY <1>1, <1>2, TReads
  <2>2. ReadT(s, i).val = 0 /\ ReadT(s, i).at = i
    BY <2>1 DEF Read
  <2>3. Seconds("none", 0) = 0
    BY DEF Seconds
  <2>4. PICK w \in UnitNames : w = "none"
    BY DEF UnitNames
  <2>5. PICK n \in Nat : n = 0
    OBVIOUS
  <2>6. Seconds(w, n) = 0 /\ n \in {Seconds(w, n)}
    BY <2>3, <2>4, <2>5
  <2>7. TimeAt(s, i, w, n)
    BY <2>2, <2>4, <2>6, Grows0 DEF TimeAt
  <2>8. QED
    BY <2>7
<1>3. CASE Word(s, i) = "-" /\ Word(s, i + 1) = "T"
  <2> DEFINE m1 == Figure(s, i + 2)
             m2 == 10 * Figure(s, i + 2) + Figure(s, i + 3)
             Time(m, j) == IF Word(s, j) \in DOMAIN Unit /\ m <= Unit[Word(s, j)].max
                           THEN Read(m * Unit[Word(s, j)].secs, j + 1) ELSE Fail
  <2>1. ReadT(s, i) = IF Word(s, i + 2) = "0" \/ ~ IsDigit(s, i + 2) THEN Fail
                      ELSE IF IsDigit(s, i + 3) THEN Time(m2, i + 4) ELSE Time(m1, i + 3)
    BY <1>1, <1>3, TReads
  <2>2. /\ i + 2 \in Nat /\ i + 2 # 0 /\ i + 3 \in Nat /\ i + 3 # 0 /\ (i + 2) + 1 = i + 3
        /\ i + 3 + 1 = i + 4 /\ i + 4 + 1 = i + 5
    BY <1>1
  <2> HIDE DEF m1, m2
  <2>3. Word(s, i + 2) # "0" /\ IsDigit(s, i + 2)
    <3> HIDE DEF Time
    <3>1. QED
      BY <2>1 DEF Fail
  <2>4. /\ Figure(s, i + 2) \in 0 .. 9 /\ Figure(s, i + 2) # 0 /\ Word(s, i + 2) # "end"
        /\ Word(s, i + 2) \in DOMAIN Digits
    BY <2>2, <2>3, FigureIn
  <2>5. CASE IsDigit(s, i + 3)
    <3> DEFINE w == Word(s, i + 4)
    <3>1. ReadT(s, i) = Time(m2, i + 4)
      BY <2>1, <2>3, <2>5
    <3>2. w \in DOMAIN Unit /\ m2 <= Unit[w].max
          /\ ReadT(s, i) = Read(m2 * Unit[w].secs, i + 5)
      BY <2>2, <3>1 DEF Fail
    <3> HIDE DEF w, Time
    <3>3. /\ m2 \in 0 .. 99 /\ Name(m2 \div 10) = Word(s, i + 2) /\ Name(m2) = Word(s, i + 3)
      BY <2>2, <2>3, <2>5, NamesOf2 DEF m2
    <3>4. m2 \in Nat /\ m2 >= 10
      <4>1. PICK b \in 0 .. 9 : b = Figure(s, i + 3)
        BY <2>2, <2>5, FigureIn
      <4>2. PICK a \in 1 .. 9 : a = Figure(s, i + 2)
        BY <2>4
      <4>3. m2 = 10 * a + b
        BY <4>1, <4>2 DEF m2
      <4>4. QED
        BY <4>3
    <3>5. /\ m2 * Unit[w].secs = Seconds(w, m2)
          /\ m2 \in {Seconds(w, m2), Seconds(w, m2) \div 60, Seconds(w, m2) \div 3600}
          /\ m2 \in 1 .. (IF w = "H" THEN 48 ELSE 59)
      <4>1. /\ m2 * Unit[w].secs = Seconds(w, m2)
            /\ m2 \in {Seconds(w, m2), Seconds(w, m2) \div 60, Seconds(w, m2) \div 3600}
            /\ Unit[w].max = IF w = "H" THEN 48 ELSE 59
        BY <3>2, <3>4, SecondsOf
      <4>2. m2 \in 1 .. (IF w = "H" THEN 48 ELSE 59)
        BY <3>2, <3>4, <4>1
      <4>3. QED
        BY <4>1, <4>2
    <3>6. w # "none" /\ w # "end"
      BY <3>2, Units
    <3>7. /\ i + 5 \in 1 .. Len(s) + 1
          /\ Before(s, i + 5) =
               Before(s, i) \o <<"-", "T", Name(m2 \div 10), Name(m2), w>>
      <4>1. /\ Word(s, i) # "end" /\ Word(s, i + 1) # "end" /\ Word(s, i + 2) # "end"
            /\ Word(s, i + 3) # "end" /\ Word(s, i + 4) # "end"
        <5>1. Word(s, i + 3) # "end"
          BY <2>2, <2>5, FigureIn
        <5>2. QED
          BY <1>3, <2>4, <3>6, <5>1 DEF w
      <4>2. /\ i + 5 \in 1 .. Len(s) + 1
            /\ Before(s, i + 5) =
                 Before(s, i) \o <<Word(s, i), Word(s, i + 1), Word(s, i + 2),
                                   Word(s, i + 3), Word(s, i + 4)>>
        BY <4>1, Grows5
      <4>3. QED
        BY <1>3, <3>3, <4>2 DEF w
    <3>8. ReadT(s, i).val = Seconds(w, m2) /\ ReadT(s, i).at = i + 5
      BY <3>2, <3>5 DEF Read
    <3>9. <<"-", "T">> \o Plain(m2) \o <<w>> = <<"-", "T", Name(m2 \div 10), Name(m2), w>>
      <4>1. ~ (m2 < 10)
        BY <3>4
      <4>2. QED
        BY <3>4, <4>1, TimeWritten
    <3>10. w \in UnitNames
      BY <3>2 DEF UnitNames
    <3>11. PICK v \in UnitNames, n \in Nat : v = w /\ n = m2
      BY <3>4, <3>10
    <3>12. /\ n \in 1 .. (IF v = "H" THEN 48 ELSE 59)
          /\ ReadT(s, i).val = Seconds(v, n)
          /\ n \in {Seconds(v, n), Seconds(v, n) \div 60, Seconds(v, n) \div 3600}
          /\ ReadT(s, i).at \in 1 .. Len(s) + 1
      BY <3>5, <3>7, <3>8, <3>11
    <3>13. Before(s, ReadT(s, i).at) = Before(s, i) \o (<<"-", "T">> \o Plain(n) \o <<v>>)
      BY <3>7, <3>8, <3>9, <3>11
    <3>14. v # "none"
      BY <3>6, <3>11
    <3>15. TimeAt(s, i, v, n)
      BY <3>12, <3>13, <3>14, SMTT(40) DEF TimeAt
    <3>16. QED
      BY <3>15
  <2>6. CASE ~ IsDigit(s, i + 3)
    <3> DEFINE w == Word(s, i + 3)
    <3>1. ReadT(s, i) = Time(m1, i + 3)
      BY <2>1, <2>3, <2>6
    <3>2. w \in DOMAIN Unit /\ m1 <= Unit[w].max
          /\ ReadT(s, i) = Read(m1 * Unit[w].secs, i + 4)
      BY <2>2, <3>1 DEF Fail
    <3> HIDE DEF w, Time
    <3>3. m1 \in Nat /\ m1 < 10 /\ m1 >= 1
      BY <2>4 DEF m1
    <3>4. Name(m1) = Word(s, i + 2)
      <4>1. m1 % 10 = m1
        BY <3>3
      <4>2. Digits[Word(s, i + 2)] = m1 % 10
        BY <4>1 DEF m1, Figure
      <4>3. QED
        BY <2>4, <3>3, <4>2, Names
    <3>5. /\ m1 * Unit[w].secs = Seconds(w, m1)
          /\ m1 \in {Seconds(w, m1), Seconds(w, m1) \div 60, Seconds(w, m1) \div 3600}
          /\ m1 \in 1 .. (IF w = "H" THEN 48 ELSE 59)
      <4>1. /\ m1 * Unit[w].secs = Seconds(w, m1)
            /\ m1 \in {Seconds(w, m1), Seconds(w, m1) \div 60, Seconds(w, m1) \div 3600}
        BY <3>2, <3>3, SecondsOf
      <4>2. m1 \in 1 .. (IF w = "H" THEN 48 ELSE 59)
        BY <3>3
      <4>3. QED
        BY <4>1, <4>2
    <3>6. w # "none" /\ w # "end"
      BY <3>2, Units
    <3>7. /\ i + 4 \in 1 .. Len(s) + 1
          /\ Before(s, i + 4) = Before(s, i) \o <<"-", "T", Name(m1), w>>
      <4>1. /\ Word(s, i) # "end" /\ Word(s, i + 1) # "end" /\ Word(s, i + 2) # "end"
            /\ Word(s, i + 3) # "end"
        BY <1>3, <2>4, <3>6 DEF w
      <4>2. /\ i + 4 \in 1 .. Len(s) + 1
            /\ Before(s, i + 4) =
                 Before(s, i) \o <<Word(s, i), Word(s, i + 1), Word(s, i + 2), Word(s, i + 3)>>
        BY <4>1, Grows4
      <4>3. QED
        BY <1>3, <3>4, <4>2 DEF w
    <3>8. ReadT(s, i).val = Seconds(w, m1) /\ ReadT(s, i).at = i + 4
      BY <3>2, <3>5 DEF Read
    <3>9. <<"-", "T">> \o Plain(m1) \o <<w>> = <<"-", "T", Name(m1), w>>
      BY <3>3, TimeWritten
    <3>10. w \in UnitNames
      BY <3>2 DEF UnitNames
    <3>11. PICK v \in UnitNames, n \in Nat : v = w /\ n = m1
      BY <3>3, <3>10
    <3>12. /\ n \in 1 .. (IF v = "H" THEN 48 ELSE 59)
          /\ ReadT(s, i).val = Seconds(v, n)
          /\ n \in {Seconds(v, n), Seconds(v, n) \div 60, Seconds(v, n) \div 3600}
          /\ ReadT(s, i).at \in 1 .. Len(s) + 1
      BY <3>5, <3>7, <3>8, <3>11
    <3>13. Before(s, ReadT(s, i).at) = Before(s, i) \o (<<"-", "T">> \o Plain(n) \o <<v>>)
      BY <3>7, <3>8, <3>9, <3>11
    <3>14. v # "none"
      BY <3>6, <3>11
    <3>15. TimeAt(s, i, v, n)
      BY <3>12, <3>13, <3>14 DEF TimeAt
    <3>16. QED
      BY <3>15
  <2>7. QED
    BY <2>5, <2>6
<1>4. QED
  BY <1>2, <1>3

(* The beginning of a line that is read.                                   *)
LEMMA HeadWritten ==
  ASSUME NEW W, NEW s \in Seq(W), ReadHead(s).ok
  PROVE  \E k \in 4 .. 9 :
           /\ ReadHead(s).val = k /\ ReadHead(s).at = 6 /\ 6 \in 1 .. Len(s) + 1
           /\ Before(s, 6) = <<"OCRA-1:HOTP-", "HBELT", "-", Name(k), ":">>
<1>1. /\ Word(s, 1) = "OCRA-1:HOTP-" /\ Word(s, 2) = "HBELT" /\ Word(s, 3) = "-"
      /\ IsDigit(s, 4) /\ Figure(s, 4) \in 4 .. 9 /\ Word(s, 5) = ":"
      /\ ReadHead(s) = Read(Figure(s, 4), 6)
  BY HeadReads DEF Fail
<1>2. PICK k \in 4 .. 9 : k = Figure(s, 4)
  BY <1>1
<1>3. ReadHead(s).val = k /\ ReadHead(s).at = 6
  BY <1>1, <1>2 DEF Read
<1>4. Name(k) = Word(s, 4)
  <2>1. k \in Nat /\ k % 10 = k
    OBVIOUS
  <2>2. Word(s, 4) \in DOMAIN Digits /\ Digits[Word(s, 4)] = k % 10
    BY <1>1, <1>2, <2>1 DEF IsDigit, Figure
  <2>3. QED
    BY <2>1, <2>2, Names
<1>5. 1 \in 1 .. Len(s) + 1 /\ 1 + 1 = 2 /\ 1 + 2 = 3 /\ 1 + 3 = 4 /\ 1 + 4 = 5 /\ 1 + 5 = 6
  OBVIOUS
<1>6. /\ Word(s, 1) # "end" /\ Word(s, 2) # "end" /\ Word(s, 3) # "end"
      /\ Word(s, 4) # "end" /\ Word(s, 5) # "end"
  <2>1. Word(s, 4) # "end"
    BY <1>1, FigureIn
  <2>2. QED
    BY <1>1, <2>1
<1>7. /\ 6 \in 1 .. Len(s) + 1
      /\ Before(s, 6) = Before(s, 1) \o <<Word(s, 1), Word(s, 2), Word(s, 3),
                                          Word(s, 4), Word(s, 5)>>
  <2>1. /\ 1 + 5 \in 1 .. Len(s) + 1
        /\ Before(s, 1 + 5) = Before(s, 1) \o <<Word(s, 1), Word(s, 1 + 1), Word(s, 1 + 2),
                                                Word(s, 1 + 3), Word(s, 1 + 4)>>
    BY <1>5, <1>6, Grows5
  <2>2. QED
    BY <1>5, <2>1
<1>8. Before(s, 1) = <<>>
  BY DEF Before
<1>9. Before(s, 6) = <<"OCRA-1:HOTP-", "HBELT", "-", Name(k), ":">>
  <2> DEFINE x == <<"OCRA-1:HOTP-", "HBELT", "-", Name(k), ":">>
  <2>1. Before(s, 6) = <<>> \o x
    BY <1>1, <1>4, <1>7, <1>8
  <2>2. x \in Seq({"OCRA-1:HOTP-", "HBELT", "-", Name(k), ":"})
    OBVIOUS
  <2> HIDE DEF x
  <2>3. <<>> \o x = x
    BY <2>2, ConcatEmptySeq
  <2>4. QED
    BY <2>1, <2>3 DEF x
<1>10. WITNESS k \in 4 .. 9
<1>11. QED
  BY <1>3, <1>7, <1>9

(* A line that is read has been written for what is read of it.            *)
LEMMA ReadIsWritten ==
  ASSUME NEW W, NEW s \in Seq(W)
  PROVE  RefusesOther(s)
<1> SUFFICES ASSUME OCRAStart(s).ok
             PROVE  \E f \in Written(OCRAStart(s)) : Line(f) = s
  BY DEF RefusesOther
<1> DEFINE d == ReadHead(s)
           c == ReadCtr(s, d.at)
           q == ReadQ(s, c.at)
           p == ReadP(s, q.at)
           l == ReadS(s, p.at)
           t == ReadT(s, l.at)
           all6 == d.ok /\ c.ok /\ q.ok /\ p.ok /\ l.ok /\ t.ok /\ t.at = Len(s) + 1
           r == [ok |-> TRUE, digit |-> d.val, ctr_len |-> c.val, q_type |-> q.val[1],
                 q_max |-> q.val[2], p_len |-> p.val, s_len |-> l.val, ts |-> t.val]
<1>1. OCRAStart(s) = IF all6 THEN r ELSE NoSuite
  BY DEF OCRAStart
<1>2. all6 /\ OCRAStart(s) = r
  <2> HIDE DEF all6, r
  <2>1. ~ NoSuite.ok
    BY DEF NoSuite
  <2>2. QED
    BY <1>1, <2>1
<1> HIDE DEF d, c, q, p, l, t
<1>3. PICK k \in 4 .. 9 :
        /\ d.val = k /\ d.at = 6 /\ 6 \in 1 .. Len(s) + 1
        /\ Before(s, 6) = <<"OCRA-1:HOTP-", "HBELT", "-", Name(k), ":">>
  BY <1>2, HeadWritten DEF d
<1>4. PICK g \in BOOLEAN :
        /\ c.val = IF g THEN 8 ELSE 0
        /\ c.at \in 1 .. Len(s) + 1
        /\ Before(s, c.at) = Before(s, 6) \o (IF g THEN <<"C", "-">> ELSE <<>>)
  BY <1>2, <1>3, CtrWritten, ZenonT(60) DEF c
<1>5. PICK y \in {"A", "N", "H"}, m \in 4 .. 64 :
        /\ q.val = <<y, m>> /\ q.at \in 1 .. Len(s) + 1
        /\ Before(s, q.at) = Before(s, c.at) \o <<"Q", y, Name(m \div 10), Name(m)>>
  <2>1. ReadQ(s, c.at).ok
    BY <1>2 DEF q
  <2>2. PICK y \in {"A", "N", "H"}, m \in 4 .. 64 : QAt(s, c.at, y, m)
    BY <1>4, <2>1, QWritten
  <2>3. /\ q.val = <<y, m>> /\ q.at \in 1 .. Len(s) + 1
        /\ Before(s, q.at) = Before(s, c.at) \o <<"Q", y, Name(m \div 10), Name(m)>>
    BY <2>2 DEF QAt, q
  <2>4. QED
    BY <2>3
<1>6. PICK h \in DOMAIN HashLen \cup {"none"} :
        /\ p.val = IF h = "none" THEN 0 ELSE HashLen[h]
        /\ p.at \in 1 .. Len(s) + 1
        /\ Before(s, p.at) =
             Before(s, q.at) \o (IF h = "none" THEN <<>> ELSE <<"-", "P", h>>)
  BY <1>2, <1>5, PWritten DEF p
<1>7. PICK z \in Sids :
        /\ l.val = IF z = 1000 THEN 0 ELSE z
        /\ l.at \in 1 .. Len(s) + 1
        /\ Before(s, l.at) =
             Before(s, p.at) \o
               (IF z = 1000 THEN <<>>
                ELSE <<"-", "S", Name(z \div 100), Name(z \div 10), Name(z)>>)
  <2>1. ReadS(s, p.at).ok
    BY <1>2 DEF l
  <2>2. PICK z \in Sids : SAt(s, p.at, z)
    <3>1. p.at \in 1 .. Len(s) + 1
      BY <1>6
    <3>2. QED
      BY <2>1, <3>1, SWritten
  <2>3. /\ l.val = IF z = 1000 THEN 0 ELSE z
        /\ l.at \in 1 .. Len(s) + 1
        /\ Before(s, l.at) =
             Before(s, p.at) \o
               (IF z = 1000 THEN <<>>
                ELSE <<"-", "S", Name(z \div 100), Name(z \div 10), Name(z)>>)
    BY <2>2 DEF SAt, l
  <2>4. z \in Sids
    BY <2>2
  <2>5. QED
    BY <2>3, <2>4, ZenonT(60)
<1>8. PICK w \in UnitNames, n \in Nat : TimeAt(s, l.at, w, n)
  <2>1. ReadT(s, l.at).ok
    BY <1>2 DEF t
  <2>2. l.at \in 1 .. Len(s) + 1
    BY <1>7
  <2>3. QED
    BY <2>1, <2>2, TWritten
<1>9. /\ w # "none" => n \in 1 .. (IF w = "H" THEN 48 ELSE 59)
      /\ t.val = Seconds(w, n)
      /\ n \in {Seconds(w, n), Seconds(w, n) \div 60, Seconds(w, n) \div 3600}
      /\ Before(s, t.at) =
           Before(s, l.at) \o (IF w = "none" THEN <<>>
                               ELSE <<"-", "T">> \o Plain(n) \o <<w>>)
  BY <1>8 DEF TimeAt, t
<1> DEFINE f == [digit |-> k, ctr |-> g, type |-> y, max |-> m, hash |-> h, sid |-> z,
                 unit |-> w, step |-> n]
<1>10. /\ r.digit = k /\ r.ctr_len = (IF g THEN 8 ELSE 0) /\ r.q_type = y /\ r.q_max = m
       /\ r.p_len = (IF h = "none" THEN 0 ELSE HashLen[h])
       /\ r.s_len = (IF z = 1000 THEN 0 ELSE z)
       /\ r.ts = Seconds(w, n)
  BY <1>3, <1>4, <1>5, <1>6, <1>7, <1>9
<1>11. r = [ok |-> TRUE, digit |-> k, ctr_len |-> IF g THEN 8 ELSE 0, q_type |-> y,
            q_max |-> m, p_len |-> IF h = "none" THEN 0 ELSE HashLen[h],
            s_len |-> IF z = 1000 THEN 0 ELSE z, ts |-> Seconds(w, n)]
  BY <1>3, <1>4, <1>5, <1>6, <1>7, <1>9
<1>12. /\ f.digit = k /\ f.ctr = g /\ f.type = y /\ f.max = m /\ f.hash = h /\ f.sid = z
       /\ f.unit = w /\ f.step = n
  OBVIOUS
<1>13. Meaning(f) = r
  <2> HIDE DEF f, r
  <2>1. Meaning(f) =
          [ok |-> TRUE, digit |-> k, ctr_len |-> IF g THEN 8 ELSE 0, q_type |-> y,
           q_max |-> m, p_len |-> IF h = "none" THEN 0 ELSE HashLen[h],
           s_len |-> IF z = 1000 THEN 0 ELSE z, ts |-> Seconds(w, n)]
    BY <1>12 DEF Meaning, Seconds
  <2>2. QED
    BY <1>11, <2>1
<1>14. Legal(f)
  <2> HIDE DEF f
  <2>1. Legal(f) <=> /\ k \in 4 .. 9 /\ y \in {"A", "N", "H"} /\ m \in 4 .. 64
                     /\ h \in DOMAIN HashLen \cup {"none"}
                     /\ z \in (0 .. 512) \cup {1000}
                     /\ w \in DOMAIN Unit \cup {"none"}
                     /\ w # "none" => n \in 1 .. (IF w = "H" THEN 48 ELSE 59)
    BY <1>12 DEF Legal
  <2>2. QED
    BY <1>9, <2>1 DEF Sids, UnitNames
<1>15. f \in [digit : {r.digit}, ctr : {r.ctr_len # 0}, type : {r.q_type},
              max : {r.q_max}, hash : DOMAIN HashLen \cup {"none"},
              sid : {r.s_len, 1000}, unit : {"none", "S", "M", "H"},
              step : {r.ts, r.ts \div 60, r.ts \div 3600}]
  <2> HIDE DEF r
  <2>1. k \in {r.digit} /\ y \in {r.q_type} /\ m \in {r.q_max}
    BY <1>10
  <2>2. g \in {r.ctr_len # 0}
    BY <1>10
  <2>3. z \in {r.s_len, 1000}
    BY <1>10
  <2>4. w \in {"none", "S", "M", "H"}
    BY Units DEF UnitNames
  <2>5. n \in {r.ts, r.ts \div 60, r.ts \div 3600}
    BY <1>9, <1>10
  <2>6. QED
    BY <2>1, <2>2, <2>3, <2>4, <2>5
<1>16. Line(f) = s
  <2>1. Line(f) =
          <<"OCRA-1:HOTP-", "HBELT", "-", Name(k), ":">>
            \o (IF g THEN <<"C", "-">> ELSE <<>>)
            \o <<"Q", y, Name(m \div 10), Name(m)>>
            \o (IF h = "none" THEN <<>> ELSE <<"-", "P", h>>)
            \o (IF z = 1000 THEN <<>>
                ELSE <<"-", "S", Name(z \div 100), Name(z \div 10), Name(z)>>)
            \o (IF w = "none" THEN <<>> ELSE <<"-", "T">> \o Plain(n) \o <<w>>)
    <3> HIDE DEF f
    <3>1. QED
      BY <1>12 DEF Line
  <2>2. Line(f) = Before(s, t.at)
    <3> HIDE DEF f
    <3>1. Before(s, q.at) =
          <<"OCRA-1:HOTP-", "HBELT", "-", Name(k), ":">>
            \o (IF g THEN <<"C", "-">> ELSE <<>>)
            \o <<"Q", y, Name(m \div 10), Name(m)>>
      BY <1>3, <1>4, <1>5
    <3>2. Before(s, l.at) =
          <<"OCRA-1:HOTP-", "HBELT", "-", Name(k), ":">>
            \o (IF g THEN <<"C", "-">> ELSE <<>>)
            \o <<"Q", y, Name(m \div 10), Name(m)>>
            \o (IF h = "none" THEN <<>> ELSE <<"-", "P", h>>)
            \o (IF z = 1000 THEN <<>>
                ELSE <<"-", "S", Name(z \div 100), Name(z \div 10), Name(z)>>)
      BY <1>6, <1>7, <3>1
    <3>3. QED
      BY <1>9, <2>1, <3>2
  <2>3. Before(s, t.at) = s
    <3>1. t.at - 1 = Len(s)
      BY <1>2
    <3>2. QED
      BY <3>1, SubSeqFull DEF Before
  <2>4. QED
    BY <2>2, <2>3
<1>17. QED
  <2> HIDE DEF f, r
  <2>1. f \in Written(r)
    BY <1>13, <1>14, <1>15 DEF Written
  <2>2. QED
    BY <1>2, <1>16, <2>1

(* A line starts with the words of its first parts; the words of a part    *)
(* are found after those of the parts before it.                           *)
Starts(s, a) == Len(a) <= Len(s) /\ \A k \in 1 .. Len(a) : s[k] = a[k]

Continues(s, a, x) ==
  /\ Starts(s, a)
  /\ \A k \in 1 .. Len(x) : Word(s, Len(a) + k) = x[k]
  /\ Len(a \o x) = Len(a) + Len(x)

(* The words of the part that follows, and where it ends.                  *)
LEMMA PartOf ==
  ASSUME NEW V, NEW s \in Seq(V), NEW a \in Seq(V), NEW x \in Seq(V), Starts(s, a \o x)
  PROVE  Continues(s, a, x)
<1>1. /\ Len(a) \in Nat /\ Len(x) \in Nat /\ Len(s) \in Nat
  OBVIOUS
<1>2. /\ Len(a \o x) = Len(a) + Len(x)
      /\ \A k \in 1 .. Len(a) + Len(x) :
           (a \o x)[k] = IF k <= Len(a) THEN a[k] ELSE x[k - Len(a)]
  BY ConcatProperties
<1>3. /\ Len(a) + Len(x) <= Len(s)
      /\ \A k \in 1 .. Len(a) + Len(x) : s[k] = (a \o x)[k]
  BY <1>2 DEF Starts
<1>4. Starts(s, a)
  <2>1. Len(a) <= Len(s)
    BY <1>1, <1>3
  <2>2. ASSUME NEW k \in 1 .. Len(a)
        PROVE  s[k] = a[k]
    <3>1. k \in 1 .. Len(a) + Len(x) /\ k <= Len(a)
      BY <1>1
    <3>2. QED
      BY <1>2, <1>3, <3>1
  <2>3. QED
    BY <2>1, <2>2 DEF Starts
<1>5. ASSUME NEW k \in 1 .. Len(x)
      PROVE  Word(s, Len(a) + k) = x[k]
  <2>1. /\ Len(a) + k \in 1 .. Len(a) + Len(x) /\ ~ (Len(a) + k <= Len(a))
        /\ Len(a) + k - Len(a) = k /\ Len(a) + k <= Len(s)
    BY <1>1, <1>3
  <2>2. s[Len(a) + k] = x[k]
    BY <1>2, <1>3, <2>1
  <2>3. QED
    BY <2>1, <2>2 DEF Word
<1>6. QED
  BY <1>2, <1>4, <1>5 DEF Continues

(* Two and three figures of a number are read to it.                       *)
LEMMA FiguresOf2 ==
  ASSUME NEW s, NEW i \in Nat, NEW m \in 0 .. 99,
         Word(s, i) = Name(m \div 10), Word(s, i + 1) = Name(m)
  PROVE  /\ IsDigit(s, i) /\ IsDigit(s, i + 1)
         /\ 10 * Figure(s, i) + Figure(s, i + 1) = m
<1>1. PICK a \in 0 .. 9, b \in 0 .. 9 : a = m \div 10 /\ b = m % 10
  <2>1. m \div 10 \in 0 .. 9 /\ m % 10 \in 0 .. 9
    OBVIOUS
  <2>2. QED
    BY <2>1
<1>2. a % 10 = a /\ m = 10 * a + b
  BY <1>1
<1>3. a \in Nat /\ m \in Nat
  OBVIOUS
<1>4. Name(a) \in DOMAIN Digits /\ Digits[Name(a)] = a
  BY <1>2, <1>3, Names
<1>5. Name(m) \in DOMAIN Digits /\ Digits[Name(m)] = b
  BY <1>1, <1>3, Names
<1>6. Figure(s, i) = a /\ Figure(s, i + 1) = b
  BY <1>1, <1>4, <1>5 DEF Figure
<1>7. QED
  BY <1>1, <1>2, <1>4, <1>5, <1>6 DEF IsDigit

Spells3(s, i, m) ==
  /\ IsDigit(s, i) /\ IsDigit(s, i + 1) /\ IsDigit(s, i + 2)
  /\ 10 * (10 * Figure(s, i) + Figure(s, i + 1)) + Figure(s, i + 2) = m

LEMMA FiguresOf3 ==
  ASSUME NEW s, NEW i \in Nat, NEW m \in Nat, m <= 999,
         Word(s, i) = Name(m \div 100), Word(s, i + 1) = Name(m \div 10),
         Word(s, i + 2) = Name(m)
  PROVE  Spells3(s, i, m)
<1>1. PICK k \in 0 .. 99, c \in 0 .. 9 : k = m \div 10 /\ c = m % 10
  <2>1. m \div 10 \in 0 .. 99 /\ m % 10 \in 0 .. 9
    OBVIOUS
  <2>2. QED
    BY <2>1
<1>2. k \div 10 = m \div 100 /\ m = 10 * k + c
  BY <1>1
<1>3. IsDigit(s, i) /\ IsDigit(s, i + 1) /\ 10 * Figure(s, i) + Figure(s, i + 1) = k
  BY <1>1, <1>2, FiguresOf2
<1>4. m \in Nat
  OBVIOUS
<1>5. Name(m) \in DOMAIN Digits /\ Digits[Name(m)] = c
  BY <1>1, <1>4, Names
<1>6. Figure(s, i + 2) = c /\ IsDigit(s, i + 2)
  BY <1>5 DEF Figure, IsDigit
<1>7. QED
  BY <1>2, <1>3, <1>6 DEF Spells3

(* The parts of a line, and what each is read to.                          *)
HeadPart(f) == <<"OCRA-1:HOTP-", "HBELT", "-", Name(f.digit), ":">>
CtrPart(f) == IF f.ctr THEN <<"C", "-">> ELSE <<>>
QPart(f) == <<"Q", f.type, Name(f.max \div 10), Name(f.max)>>
PPart(f) == IF f.hash = "none" THEN <<>> ELSE <<"-", "P", f.hash>>
SPart(f) ==
  IF f.sid = 1000 THEN <<>>
  ELSE <<"-", "S", Name(f.sid \div 100), Name(f.sid \div 10), Name(f.sid)>>
TPart(f) ==
  IF f.unit = "none" THEN <<>>
  ELSE IF f.step < 10 THEN <<"-", "T", Name(f.step), f.unit>>
  ELSE <<"-", "T", Name(f.step \div 10), Name(f.step), f.unit>>

(* What may be asked of a mode, with any words for names.                  *)
Asked(W) ==
  [digit : 0 .. 9, ctr : BOOLEAN, type : W, max : 0 .. 99, hash : W, sid : 0 .. 1000,
   unit : W, step : 0 .. 99]

Letters(W) ==
  W \cup DOMAIN Digits \cup {"OCRA-1:HOTP-", "HBELT", "-", ":", "C", "Q", "P", "S", "T"}

(* Line() joins the parts, each a sequence of words.                       *)
LEMMA PartsOfLine ==
  ASSUME NEW W, NEW f \in Asked(W)
  PROVE  /\ Line(f) = HeadPart(f) \o CtrPart(f) \o QPart(f) \o PPart(f) \o SPart(f) \o TPart(f)
         /\ HeadPart(f) \in Seq(Letters(W)) /\ CtrPart(f) \in Seq(Letters(W))
         /\ QPart(f) \in Seq(Letters(W)) /\ PPart(f) \in Seq(Letters(W))
         /\ SPart(f) \in Seq(Letters(W)) /\ TPart(f) \in Seq(Letters(W))
<1> DEFINE V == Letters(W)
<1>1. /\ f.digit \in 0 .. 9 /\ f.ctr \in BOOLEAN /\ f.type \in W /\ f.max \in 0 .. 99
      /\ f.hash \in W /\ f.sid \in 0 .. 1000 /\ f.unit \in W /\ f.step \in 0 .. 99
  BY DEF Asked
<1>2. /\ f.type \in V /\ f.hash \in V /\ f.unit \in V
      /\ "OCRA-1:HOTP-" \in V /\ "HBELT" \in V /\ "-" \in V /\ ":" \in V /\ "C" \in V
      /\ "Q" \in V /\ "P" \in V /\ "S" \in V /\ "T" \in V
  BY <1>1 DEF Letters
<1>3. ASSUME NEW n \in Nat
      PROVE  Name(n) \in V
  <2>1. Name(n) \in DOMAIN Digits
    BY Names
  <2>2. QED
    BY <2>1 DEF Letters
<1>4. /\ f.digit \in Nat /\ f.max \in Nat /\ f.sid \in Nat /\ f.step \in Nat
      /\ f.max \div 10 \in Nat /\ f.sid \div 100 \in Nat /\ f.sid \div 10 \in Nat
      /\ f.step \div 10 \in Nat
  <2>1. PICK d \in Nat, m \in Nat, z \in Nat, n \in Nat :
          d = f.digit /\ m = f.max /\ z = f.sid /\ n = f.step
    <3>1. f.digit \in Nat /\ f.max \in Nat
      BY <1>1
    <3>2. f.sid \in Nat /\ f.step \in Nat
      BY <1>1, SMTT(40)
    <3>3. QED
      BY <3>1, <3>2
  <2>2. /\ m \div 10 \in Nat /\ z \div 100 \in Nat /\ z \div 10 \in Nat
        /\ n \div 10 \in Nat
    OBVIOUS
  <2>3. QED
    BY <2>1, <2>2
<1>5. /\ Name(f.digit) \in V /\ Name(f.max) \in V /\ Name(f.sid) \in V /\ Name(f.step) \in V
      /\ Name(f.max \div 10) \in V /\ Name(f.sid \div 100) \in V /\ Name(f.sid \div 10) \in V
      /\ Name(f.step \div 10) \in V
  BY <1>3, <1>4
<1> HIDE DEF V
<1>6. HeadPart(f) \in Seq(V)
  BY <1>2, <1>5 DEF HeadPart
<1>7. CtrPart(f) \in Seq(V)
  BY <1>2 DEF CtrPart
<1>8. QPart(f) \in Seq(V)
  BY <1>2, <1>5 DEF QPart
<1>9. PPart(f) \in Seq(V)
  BY <1>2 DEF PPart
<1>10. SPart(f) \in Seq(V)
  BY <1>2, <1>5 DEF SPart
<1>11. TPart(f) \in Seq(V)
  BY <1>2, <1>5 DEF TPart
<1>12. Line(f) = HeadPart(f) \o CtrPart(f) \o QPart(f) \o PPart(f) \o SPart(f) \o TPart(f)
  <2>1. TPart(f) = IF f.unit = "none" THEN <<>>
                   ELSE <<"-", "T">> \o Plain(f.step) \o <<f.unit>>
    <3>1. <<"-", "T">> \o Plain(f.step) \o <<f.unit>> =
            IF f.step < 10 THEN <<"-", "T", Name(f.step), f.unit>>
            ELSE <<"-", "T", Name(f.step \div 10), Name(f.step), f.unit>>
      BY <1>4, TimeWritten
    <3>2. QED
      BY <3>1 DEF TPart
  <2>2. QED
    BY <2>1 DEF Line, HeadPart, CtrPart, QPart, PPart, SPart
<1>13. QED
  BY <1>6, <1>7, <1>8, <1>9, <1>10, <1>11, <1>12 DEF V

(* What each reader makes of its part of a written line.                   *)
LEMMA HeadBack ==
  ASSUME NEW W, NEW s \in Seq(W), NEW m \in 0 .. 9,
         Word(s, 1) = "OCRA-1:HOTP-", Word(s, 2) = "HBELT", Word(s, 3) = "-",
         Word(s, 4) = Name(m), Word(s, 5) = ":"
  PROVE  ReadHead(s) = IF m \in 4 .. 9 THEN Read(m, 6) ELSE Fail
<1>1. m \in Nat /\ m % 10 = m
  OBVIOUS
<1>2. IsDigit(s, 4) /\ Figure(s, 4) = m
  BY <1>1, Names DEF IsDigit, Figure
<1>3. QED
  BY <1>2, HeadReads

LEMMA CtrBack ==
  ASSUME NEW s, NEW i \in Nat, NEW g \in BOOLEAN,
         IF g THEN Word(s, i) = "C" /\ Word(s, i + 1) = "-" ELSE Word(s, i) = "Q"
  PROVE  ReadCtr(s, i) = IF g THEN Read(8, i + 2) ELSE Read(0, i)
BY DEF ReadCtr

LEMMA QBack ==
  ASSUME NEW W, NEW s \in Seq(W), NEW i \in Nat, i # 0, NEW y, NEW m \in 0 .. 99,
         Word(s, i) = "Q", Word(s, i + 1) = y, Word(s, i + 2) = Name(m \div 10),
         Word(s, i + 3) = Name(m)
  PROVE  ReadQ(s, i) = IF y \in {"A", "N", "H"} /\ m \in 4 .. 64
                       THEN Read(<<y, m>>, i + 4) ELSE Fail
<1>1. i + 2 \in Nat /\ (i + 2) + 1 = i + 3
  OBVIOUS
<1>2. /\ IsDigit(s, i + 2) /\ IsDigit(s, i + 3)
      /\ 10 * Figure(s, i + 2) + Figure(s, i + 3) = m
  <2>1. PICK j \in Nat : j = i + 2
    BY <1>1
  <2>2. Word(s, j) = Name(m \div 10) /\ Word(s, j + 1) = Name(m)
    BY <1>1, <2>1
  <2>3. /\ IsDigit(s, j) /\ IsDigit(s, j + 1)
        /\ 10 * Figure(s, j) + Figure(s, j + 1) = m
    BY <2>2, FiguresOf2
  <2>4. QED
    BY <1>1, <2>1, <2>3
<1>3. QED
  BY <1>2, QReads

LEMMA PBack ==
  ASSUME NEW W, NEW s \in Seq(W), NEW i \in Nat, i # 0, NEW h,
         IF h = "none" THEN ~ (Word(s, i) = "-" /\ Word(s, i + 1) = "P")
         ELSE Word(s, i) = "-" /\ Word(s, i + 1) = "P" /\ Word(s, i + 2) = h
  PROVE  ReadP(s, i) = IF h = "none" THEN Read(0, i)
                       ELSE IF h \in DOMAIN HashLen THEN Read(HashLen[h], i + 3) ELSE Fail
BY PReads

SessionWords(s, i, z) ==
  IF z = 1000 THEN ~ (Word(s, i) = "-" /\ Word(s, i + 1) = "S")
  ELSE /\ Word(s, i) = "-" /\ Word(s, i + 1) = "S"
       /\ Word(s, i + 2) = Name(z \div 100) /\ Word(s, i + 3) = Name(z \div 10)
       /\ Word(s, i + 4) = Name(z)

SessionOf(z, i) ==
  IF z = 1000 THEN Read(0, i) ELSE IF z <= 512 THEN Read(z, i + 5) ELSE Fail

LEMMA SBack ==
  ASSUME NEW W, NEW s \in Seq(W), NEW i \in Nat, i # 0, NEW z \in Nat, z <= 1000,
         SessionWords(s, i, z)
  PROVE  ReadS(s, i) = SessionOf(z, i)
<1>1. CASE z = 1000
  BY <1>1, SReads DEF SessionWords, SessionOf
<1>2. CASE z # 1000
  <2>1. /\ i + 2 \in Nat /\ (i + 2) + 1 = i + 3 /\ (i + 2) + 2 = i + 4 /\ z <= 999
    BY <1>2
  <2>2. /\ IsDigit(s, i + 2) /\ IsDigit(s, i + 3) /\ IsDigit(s, i + 4)
        /\ 10 * (10 * Figure(s, i + 2) + Figure(s, i + 3)) + Figure(s, i + 4) = z
    <3>1. PICK j \in Nat : j = i + 2
      BY <2>1
    <3>2. /\ Word(s, j) = Name(z \div 100) /\ Word(s, j + 1) = Name(z \div 10)
          /\ Word(s, j + 2) = Name(z)
      BY <1>2, <2>1, <3>1 DEF SessionWords
    <3>3. Spells3(s, j, z)
      BY <2>1, <3>2, FiguresOf3
    <3>4. QED
      BY <2>1, <3>1, <3>3 DEF Spells3
  <2>3. QED
    BY <1>2, <2>2, SReads DEF SessionWords, SessionOf
<1>3. QED
  BY <1>1, <1>2

(* The step of time that is asked for is allowed.                          *)
StepAllowed(w, n) == w \in DOMAIN Unit /\ n \in 1 .. (IF w = "H" THEN 48 ELSE 59)

LEMMA TBack ==
  ASSUME NEW W, NEW s \in Seq(W), NEW i \in Nat, i # 0, NEW w, NEW n \in 0 .. 99,
         IF w = "none" THEN ~ (Word(s, i) = "-" /\ Word(s, i + 1) = "T")
         ELSE /\ Word(s, i) = "-" /\ Word(s, i + 1) = "T"
              /\ IF n < 10 THEN /\ Word(s, i + 2) = Name(n) /\ Word(s, i + 3) = w
                                /\ Word(s, i + 4) = "end"
                 ELSE /\ Word(s, i + 2) = Name(n \div 10) /\ Word(s, i + 3) = Name(n)
                      /\ Word(s, i + 4) = w
  PROVE  ReadT(s, i) = IF w = "none" THEN Read(0, i)
                       ELSE IF StepAllowed(w, n)
                            THEN Read(Seconds(w, n), i + (IF n < 10 THEN 4 ELSE 5)) ELSE Fail
<1> DEFINE m1 == Figure(s, i + 2)
           m2 == 10 * Figure(s, i + 2) + Figure(s, i + 3)
           Time(m, j) == IF Word(s, j) \in DOMAIN Unit /\ m <= Unit[Word(s, j)].max
                         THEN Read(m * Unit[Word(s, j)].secs, j + 1) ELSE Fail
<1>1. ReadT(s, i) =
        IF ~ (Word(s, i) = "-" /\ Word(s, i + 1) = "T") THEN Read(0, i)
        ELSE IF Word(s, i + 2) = "0" \/ ~ IsDigit(s, i + 2) THEN Fail
        ELSE IF IsDigit(s, i + 3) THEN Time(m2, i + 4) ELSE Time(m1, i + 3)
  BY TReads
<1>2. ASSUME NEW j, Word(s, j) = w, n # 0, w # "none"
      PROVE  Time(n, j) = IF StepAllowed(w, n) THEN Read(Seconds(w, n), j + 1) ELSE Fail
  <2>1. CASE w \notin DOMAIN Unit
    BY <1>2, <2>1 DEF StepAllowed
  <2>2. CASE w \in DOMAIN Unit
    <3>1. n * Unit[w].secs = Seconds(w, n) /\ Unit[w].max = IF w = "H" THEN 48 ELSE 59
      <4>1. n \in Nat
        OBVIOUS
      <4>2. QED
        BY <2>2, <4>1, SecondsOf
    <3>2. n <= Unit[w].max <=> n \in 1 .. (IF w = "H" THEN 48 ELSE 59)
      BY <1>2, <3>1
    <3>3. QED
      BY <1>2, <2>2, <3>1, <3>2 DEF StepAllowed
  <2>3. QED
    BY <2>1, <2>2
<1> HIDE DEF Time
<1>3. /\ i + 2 \in Nat /\ i + 2 # 0 /\ (i + 2) + 1 = i + 3 /\ (i + 4) + 1 = i + 5
      /\ (i + 3) + 1 = i + 4
  OBVIOUS
<1>4. CASE w = "none"
  BY <1>1, <1>4
<1>5. CASE w # "none" /\ n < 10
  <2>1. n \in Nat /\ n % 10 = n
    BY <1>5
  <2>2. IsDigit(s, i + 2) /\ Figure(s, i + 2) = n
    BY <1>5, <2>1, Names DEF IsDigit, Figure
  <2>3. Word(s, i + 2) = "0" <=> n = 0
    BY <1>3, <2>2, FigureIn
  <2>4. CASE n = 0
    BY <1>1, <1>5, <2>3, <2>4 DEF StepAllowed
  <2>5. CASE n # 0 /\ IsDigit(s, i + 3)
    <3>1. ReadT(s, i) = Time(m2, i + 4)
      BY <1>1, <1>5, <2>2, <2>3, <2>5
    <3>2. "end" \notin DOMAIN Unit
      BY Units
    <3>3. Time(m2, i + 4) = Fail
      BY <1>5, <3>2 DEF Time
    <3>4. w \notin DOMAIN Unit
      BY <1>5, <2>5, Figures, Units, SMTT(40) DEF IsDigit
    <3>5. QED
      BY <1>5, <3>1, <3>3, <3>4 DEF StepAllowed
  <2>6. CASE n # 0 /\ ~ IsDigit(s, i + 3)
    <3>1. ReadT(s, i) = Time(n, i + 3)
      BY <1>1, <1>5, <2>2, <2>3, <2>6
    <3>2. QED
      BY <1>2, <1>3, <1>5, <2>6, <3>1
  <2>7. QED
    BY <2>4, <2>5, <2>6
<1>6. CASE w # "none" /\ ~ (n < 10)
  <2>1. Word(s, i + 2) = Name(n \div 10) /\ Word(s, (i + 2) + 1) = Name(n)
    BY <1>3, <1>6
  <2>2. /\ IsDigit(s, i + 2) /\ IsDigit(s, (i + 2) + 1)
        /\ 10 * Figure(s, i + 2) + Figure(s, (i + 2) + 1) = n
    BY <1>3, <2>1, FiguresOf2
  <2>3. Word(s, i + 2) # "0"
    <3>1. PICK a \in 1 .. 9 : a = n \div 10
      <4>1. n \div 10 \in 1 .. 9
        BY <1>6
      <4>2. QED
        BY <4>1
    <3>2. a \in Nat /\ a % 10 = a
      OBVIOUS
    <3>3. Figure(s, i + 2) = a
      BY <2>1, <3>1, <3>2, Names DEF Figure
    <3>4. QED
      BY <1>3, <2>2, <3>3, FigureIn
  <2>4. ReadT(s, i) = Time(n, i + 4)
    BY <1>1, <1>3, <1>6, <2>2, <2>3
  <2>5. QED
    BY <1>2, <1>3, <1>6, <2>4
<1>7. QED
  BY <1>4, <1>5, <1>6

(* The words of a written line: the challenge at b, the hash function at   *)
(* c, the session at d, the step of time at e.                             *)
HeadAt(s, f, b) ==
  /\ Word(s, 1) = "OCRA-1:HOTP-" /\ Word(s, 2) = "HBELT" /\ Word(s, 3) = "-"
  /\ Word(s, 4) = Name(f.digit) /\ Word(s, 5) = ":"
  /\ IF f.ctr THEN Word(s, 6) = "C" /\ Word(s, 7) = "-" /\ b = 8 ELSE b = 6

ChallengeAt(s, f, b) ==
  /\ Word(s, b) = "Q" /\ Word(s, b + 1) = f.type
  /\ Word(s, b + 2) = Name(f.max \div 10) /\ Word(s, b + 3) = Name(f.max)

HashAt(s, f, c, d) ==
  IF f.hash = "none" THEN d = c
  ELSE /\ Word(s, c) = "-" /\ Word(s, c + 1) = "P" /\ Word(s, c + 2) = f.hash
       /\ d = c + 3

SessionAt(s, f, d, e) ==
  IF f.sid = 1000 THEN e = d
  ELSE /\ Word(s, d) = "-" /\ Word(s, d + 1) = "S"
       /\ Word(s, d + 2) = Name(f.sid \div 100) /\ Word(s, d + 3) = Name(f.sid \div 10)
       /\ Word(s, d + 4) = Name(f.sid) /\ e = d + 5

StepAt(s, f, e) ==
  IF f.unit = "none" THEN Len(s) + 1 = e
  ELSE /\ Word(s, e) = "-" /\ Word(s, e + 1) = "T"
       /\ IF f.step < 10
          THEN /\ Word(s, e + 2) = Name(f.step) /\ Word(s, e + 3) = f.unit
               /\ Len(s) + 1 = e + 4
          ELSE /\ Word(s, e + 2) = Name(f.step \div 10) /\ Word(s, e + 3) = Name(f.step)
               /\ Word(s, e + 4) = f.unit /\ Len(s) + 1 = e + 5

(* Each part of a written line is found at its place.                      *)
LEMMA WordsOfLine ==
  ASSUME NEW W, NEW f \in Asked(W)
  PROVE  /\ Line(f) \in Seq(Letters(W))
         /\ \E b, d, e \in Nat \ {0} :
              /\ HeadAt(Line(f), f, b) /\ ChallengeAt(Line(f), f, b)
              /\ HashAt(Line(f), f, b + 4, d) /\ SessionAt(Line(f), f, d, e)
              /\ StepAt(Line(f), f, e)
<1> DEFINE V == Letters(W)
           s == Line(f)
           x1 == HeadPart(f)
           x2 == CtrPart(f)
           x3 == QPart(f)
           x4 == PPart(f)
           x5 == SPart(f)
           x6 == TPart(f)
           a2 == x1 \o x2
           a3 == a2 \o x3
           a4 == a3 \o x4
           a5 == a4 \o x5
<1>1. /\ s = a5 \o x6 /\ x1 \in Seq(V) /\ x2 \in Seq(V) /\ x3 \in Seq(V) /\ x4 \in Seq(V)
      /\ x5 \in Seq(V) /\ x6 \in Seq(V)
  BY PartsOfLine
<1>2. f.ctr \in BOOLEAN
  BY DEF Asked
<1>3. /\ Len(x1) = 5 /\ x1[1] = "OCRA-1:HOTP-" /\ x1[2] = "HBELT" /\ x1[3] = "-"
      /\ x1[4] = Name(f.digit) /\ x1[5] = ":"
  BY DEF HeadPart
<1>4. IF f.ctr THEN Len(x2) = 2 /\ x2[1] = "C" /\ x2[2] = "-" ELSE Len(x2) = 0
  BY DEF CtrPart
<1>5. /\ Len(x3) = 4 /\ x3[1] = "Q" /\ x3[2] = f.type /\ x3[3] = Name(f.max \div 10)
      /\ x3[4] = Name(f.max)
  BY DEF QPart
<1>6. IF f.hash = "none" THEN Len(x4) = 0
      ELSE Len(x4) = 3 /\ x4[1] = "-" /\ x4[2] = "P" /\ x4[3] = f.hash
  BY DEF PPart
<1>7. IF f.sid = 1000 THEN Len(x5) = 0
      ELSE /\ Len(x5) = 5 /\ x5[1] = "-" /\ x5[2] = "S" /\ x5[3] = Name(f.sid \div 100)
           /\ x5[4] = Name(f.sid \div 10) /\ x5[5] = Name(f.sid)
  BY DEF SPart
<1>8. IF f.unit = "none" THEN Len(x6) = 0
      ELSE IF f.step < 10
           THEN /\ Len(x6) = 4 /\ x6[1] = "-" /\ x6[2] = "T" /\ x6[3] = Name(f.step)
                /\ x6[4] = f.unit
           ELSE /\ Len(x6) = 5 /\ x6[1] = "-" /\ x6[2] = "T"
                /\ x6[3] = Name(f.step \div 10) /\ x6[4] = Name(f.step) /\ x6[5] = f.unit
  BY DEF TPart
<1> HIDE DEF V, s, x1, x2, x3, x4, x5, x6
<1>9. a2 \in Seq(V) /\ a3 \in Seq(V) /\ a4 \in Seq(V) /\ a5 \in Seq(V) /\ s \in Seq(V)
  BY <1>1
<1> HIDE DEF a2, a3, a4, a5
<1>10. Starts(s, a5 \o x6)
  BY <1>1, <1>9 DEF Starts
<1>11. /\ Starts(s, a4 \o x5) /\ \A k \in 1 .. Len(x6) : Word(s, Len(a5) + k) = x6[k]
       /\ Len(s) = Len(a5) + Len(x6)
  <2>1. Starts(s, a5 \o x6)
    BY <1>10
  <2>2. Continues(s, a5, x6)
    BY <1>1, <1>9, <2>1, PartOf
  <2>3. QED
    BY <1>1, <2>2 DEF Continues, a5
<1>12. /\ Starts(s, a3 \o x4) /\ \A k \in 1 .. Len(x5) : Word(s, Len(a4) + k) = x5[k]
       /\ Len(a5) = Len(a4) + Len(x5)
  <2>1. Starts(s, a4 \o x5)
    BY <1>11 DEF a5
  <2>2. Continues(s, a4, x5)
    BY <1>1, <1>9, <2>1, PartOf
  <2>3. QED
    BY <1>1, <2>2 DEF Continues, a4, a5
<1>13. /\ Starts(s, a2 \o x3) /\ \A k \in 1 .. Len(x4) : Word(s, Len(a3) + k) = x4[k]
       /\ Len(a4) = Len(a3) + Len(x4)
  <2>1. Starts(s, a3 \o x4)
    BY <1>12 DEF a4
  <2>2. Continues(s, a3, x4)
    BY <1>1, <1>9, <2>1, PartOf
  <2>3. QED
    BY <1>1, <2>2 DEF Continues, a3, a4
<1>14. /\ Starts(s, x1 \o x2) /\ \A k \in 1 .. Len(x3) : Word(s, Len(a2) + k) = x3[k]
       /\ Len(a3) = Len(a2) + Len(x3)
  <2>1. Starts(s, a2 \o x3)
    BY <1>13 DEF a3
  <2>2. Continues(s, a2, x3)
    BY <1>1, <1>9, <2>1, PartOf
  <2>3. QED
    BY <1>1, <2>2 DEF Continues, a2, a3
<1>15. /\ Starts(s, x1) /\ \A k \in 1 .. Len(x2) : Word(s, Len(x1) + k) = x2[k]
       /\ Len(a2) = Len(x1) + Len(x2)
  <2>1. Starts(s, x1 \o x2)
    BY <1>14 DEF a2
  <2>2. Continues(s, x1, x2)
    BY <1>1, <1>9, <2>1, PartOf
  <2>3. QED
    BY <1>1, <2>2 DEF Continues, a2
<1>16. PICK b \in Nat \ {0}, d \in Nat \ {0}, e \in Nat \ {0} :
         b = Len(a2) + 1 /\ d = Len(a4) + 1 /\ e = Len(a5) + 1
  <2>1. Len(a2) \in Nat /\ Len(a4) \in Nat /\ Len(a5) \in Nat
    BY <1>9
  <2>2. Len(a2) + 1 \in Nat \ {0} /\ Len(a4) + 1 \in Nat \ {0} /\ Len(a5) + 1 \in Nat \ {0}
    BY <2>1
  <2>3. QED
    BY <2>2
<1>17. PICK n2 \in Nat, n3 \in Nat, n4 \in Nat, n5 \in Nat :
         n2 = Len(a2) /\ n3 = Len(a3) /\ n4 = Len(a4) /\ n5 = Len(a5)
  BY <1>9
<1>18. HeadAt(s, f, b)
  <2>1. \A k \in 1 .. 5 : Word(s, k) = x1[k]
    <3>1. Len(s) \in Nat
      BY <1>9
    <3>2. QED
      BY <1>3, <1>15, <3>1 DEF Starts, Word
  <2>2. /\ Word(s, 1) = "OCRA-1:HOTP-" /\ Word(s, 2) = "HBELT" /\ Word(s, 3) = "-"
        /\ Word(s, 4) = Name(f.digit) /\ Word(s, 5) = ":"
    BY <1>3, <2>1
  <2>3. IF f.ctr THEN Word(s, 6) = "C" /\ Word(s, 7) = "-" /\ b = 8 ELSE b = 6
    <3>1. ASSUME f.ctr
          PROVE  Word(s, 5 + 1) = "C" /\ Word(s, 5 + 2) = "-"
      <4>1. Len(x2) = 2 /\ x2[1] = "C" /\ x2[2] = "-"
        BY <1>4, <3>1
      <4>2. QED
        BY <1>3, <1>15, <4>1
    <3>2. 5 + 1 = 6 /\ 5 + 2 = 7
      OBVIOUS
    <3>3. f.ctr => Word(s, 6) = "C" /\ Word(s, 7) = "-"
      BY <3>1, <3>2
    <3>4. b = IF f.ctr THEN 8 ELSE 6
      BY <1>2, <1>3, <1>4, <1>15, <1>16
    <3>5. QED
      BY <1>2, <3>3, <3>4
  <2>4. QED
    BY <2>2, <2>3 DEF HeadAt
<1>19. ChallengeAt(s, f, b) /\ b + 4 = n3 + 1
  <2>1. /\ Word(s, n2 + 1) = "Q" /\ Word(s, n2 + 2) = f.type
        /\ Word(s, n2 + 3) = Name(f.max \div 10) /\ Word(s, n2 + 4) = Name(f.max)
    BY <1>5, <1>14, <1>17
  <2>2. b = n2 + 1 /\ b + 1 = n2 + 2 /\ b + 2 = n2 + 3 /\ b + 3 = n2 + 4 /\ b + 4 = n3 + 1
    BY <1>5, <1>14, <1>16, <1>17
  <2>3. QED
    BY <2>1, <2>2 DEF ChallengeAt
<1>20. HashAt(s, f, b + 4, d)
  <2>1. PICK j \in Nat : j = b + 4
    OBVIOUS
  <2>2. j = n3 + 1 /\ j + 1 = n3 + 2 /\ j + 2 = n3 + 3 /\ d = n4 + 1
    BY <1>16, <1>17, <1>19, <2>1
  <2>3. CASE f.hash = "none"
    <3>1. d = j
      BY <1>6, <1>13, <1>17, <2>2, <2>3
    <3>2. QED
      BY <2>1, <2>3, <3>1 DEF HashAt
  <2>4. CASE f.hash # "none"
    <3>1. Len(x4) = 3 /\ x4[1] = "-" /\ x4[2] = "P" /\ x4[3] = f.hash
      BY <1>6, <2>4
    <3>2. Word(s, n3 + 1) = "-" /\ Word(s, n3 + 2) = "P" /\ Word(s, n3 + 3) = f.hash
      BY <1>13, <1>17, <3>1
    <3>3. d = j + 3
      BY <1>13, <1>17, <2>2, <3>1
    <3>4. HashAt(s, f, j, d)
      BY <2>2, <2>4, <3>2, <3>3 DEF HashAt
    <3>5. QED
      BY <2>1, <3>4
  <2>5. QED
    BY <2>3, <2>4
<1>21. SessionAt(s, f, d, e)
  <2>1. /\ d = n4 + 1 /\ d + 1 = n4 + 2 /\ d + 2 = n4 + 3 /\ d + 3 = n4 + 4 /\ d + 4 = n4 + 5
        /\ e = n5 + 1
    BY <1>16, <1>17
  <2>2. CASE f.sid = 1000
    <3>1. e = d
      BY <1>7, <1>12, <1>17, <2>1, <2>2
    <3>2. QED
      BY <2>2, <3>1 DEF SessionAt
  <2>3. CASE f.sid # 1000
    <3>1. /\ Len(x5) = 5 /\ x5[1] = "-" /\ x5[2] = "S" /\ x5[3] = Name(f.sid \div 100)
          /\ x5[4] = Name(f.sid \div 10) /\ x5[5] = Name(f.sid)
      BY <1>7, <2>3
    <3>2. /\ Word(s, n4 + 1) = "-" /\ Word(s, n4 + 2) = "S"
          /\ Word(s, n4 + 3) = Name(f.sid \div 100) /\ Word(s, n4 + 4) = Name(f.sid \div 10)
          /\ Word(s, n4 + 5) = Name(f.sid)
      BY <1>12, <1>17, <3>1
    <3>3. e = d + 5
      BY <1>12, <1>17, <2>1, <3>1
    <3>4. QED
      BY <2>1, <2>3, <3>2, <3>3 DEF SessionAt
  <2>4. QED
    BY <2>2, <2>3
<1>22. StepAt(s, f, e)
  <2>1. e = n5 + 1 /\ e + 1 = n5 + 2 /\ e + 2 = n5 + 3 /\ e + 3 = n5 + 4 /\ e + 4 = n5 + 5
    BY <1>16, <1>17
  <2>2. CASE f.unit = "none"
    <3>1. Len(s) + 1 = e
      BY <1>8, <1>11, <1>17, <2>1, <2>2
    <3>2. QED
      BY <2>2, <3>1 DEF StepAt
  <2>3. CASE f.unit # "none" /\ f.step < 10
    <3>1. /\ Len(x6) = 4 /\ x6[1] = "-" /\ x6[2] = "T" /\ x6[3] = Name(f.step)
          /\ x6[4] = f.unit
      BY <1>8, <2>3
    <3>2. /\ Word(s, n5 + 1) = "-" /\ Word(s, n5 + 2) = "T"
          /\ Word(s, n5 + 3) = Name(f.step) /\ Word(s, n5 + 4) = f.unit
      BY <1>11, <1>17, <3>1
    <3>3. Len(s) + 1 = e + 4
      BY <1>11, <1>17, <2>1, <3>1
    <3>4. QED
      BY <2>1, <2>3, <3>2, <3>3 DEF StepAt
  <2>4. CASE f.unit # "none" /\ ~ (f.step < 10)
    <3>1. /\ Len(x6) = 5 /\ x6[1] = "-" /\ x6[2] = "T" /\ x6[3] = Name(f.step \div 10)
          /\ x6[4] = Name(f.step) /\ x6[5] = f.unit
      BY <1>8, <2>4
    <3>2. /\ Word(s, n5 + 1) = "-" /\ Word(s, n5 + 2) = "T"
          /\ Word(s, n5 + 3) = Name(f.step \div 10) /\ Word(s, n5 + 4) = Name(f.step)
          /\ Word(s, n5 + 5) = f.unit
      BY <1>11, <1>17, <3>1
    <3>3. Len(s) + 1 = e + 5
      BY <1>11, <1>17, <2>1, <3>1
    <3>4. QED
      BY <2>1, <2>4, <3>2, <3>3 DEF StepAt
  <2>5. QED
    BY <2>2, <2>3, <2>4
<1>23. QED
  BY <1>9, <1>18, <1>19, <1>20, <1>21, <1>22 DEF V, s

(* A line is read to what it was written for, whatever was asked for, and  *)
(* refused if that is not allowed.                                         *)
LEMMA LineReadBack ==
  ASSUME NEW W, NEW f \in Asked(W)
  PROVE  ReadsBack(f)
<1> DEFINE s == Line(f)
           r1 == ReadHead(s)
           r2 == ReadCtr(s, r1.at)
           r3 == ReadQ(s, r2.at)
           r4 == ReadP(s, r3.at)
           r5 == ReadS(s, r4.at)
           r6 == ReadT(s, r5.at)
           all6 == r1.ok /\ r2.ok /\ r3.ok /\ r4.ok /\ r5.ok /\ r6.ok /\ r6.at = Len(s) + 1
           res == [ok |-> TRUE, digit |-> r1.val, ctr_len |-> r2.val, q_type |-> r3.val[1],
                   q_max |-> r3.val[2], p_len |-> r4.val, s_len |-> r5.val, ts |-> r6.val]
<1>1. OCRAStart(s) = IF all6 THEN res ELSE NoSuite
  BY DEF OCRAStart
<1>2. /\ f.digit \in 0 .. 9 /\ f.ctr \in BOOLEAN /\ f.max \in 0 .. 99
      /\ f.sid \in 0 .. 1000 /\ f.step \in 0 .. 99
  BY DEF Asked
<1>3. s \in Seq(Letters(W))
  BY WordsOfLine
<1>4. PICK b \in Nat \ {0}, d \in Nat \ {0}, e \in Nat \ {0} :
        /\ HeadAt(s, f, b) /\ ChallengeAt(s, f, b) /\ HashAt(s, f, b + 4, d)
        /\ SessionAt(s, f, d, e) /\ StepAt(s, f, e)
  BY WordsOfLine
<1> HIDE DEF s
<1>5. Len(s) \in Nat /\ Word(s, Len(s) + 1) = "end"
  <2>1. Len(s) \in Nat
    BY <1>3
  <2>2. QED
    BY <2>1 DEF Word
<1>6. /\ ~ (Word(s, e) = "-" /\ Word(s, e + 1) = "P")
      /\ ~ (Word(s, e) = "-" /\ Word(s, e + 1) = "S")
      /\ f.unit = "none" => ~ (Word(s, e) = "-" /\ Word(s, e + 1) = "T")
  BY <1>4, <1>5 DEF StepAt
<1>7. /\ ~ (Word(s, d) = "-" /\ Word(s, d + 1) = "P")
      /\ f.sid = 1000 => ~ (Word(s, d) = "-" /\ Word(s, d + 1) = "S")
  BY <1>4, <1>6 DEF SessionAt
<1>8. PICK j \in Nat \ {0} : j = b + 4
  <2>1. b + 4 \in Nat \ {0}
    OBVIOUS
  <2>2. QED
    BY <2>1
<1>9. f.hash = "none" => ~ (Word(s, j) = "-" /\ Word(s, j + 1) = "P")
  BY <1>4, <1>7, <1>8 DEF HashAt
<1> HIDE DEF r1, r2, r3, r4, r5, r6
<1>10. r1 = IF f.digit \in 4 .. 9 THEN Read(f.digit, 6) ELSE Fail
  BY <1>2, <1>3, <1>4, HeadBack DEF HeadAt, r1
<1>11. r1.at = 6 => r2 = Read(IF f.ctr THEN 8 ELSE 0, b)
  <2>1. SUFFICES ASSUME r1.at = 6 PROVE r2 = Read(IF f.ctr THEN 8 ELSE 0, b)
    OBVIOUS
  <2>2. r2 = ReadCtr(s, 6)
    BY <2>1 DEF r2
  <2>3. IF f.ctr THEN Word(s, 6) = "C" /\ Word(s, 6 + 1) = "-" ELSE Word(s, 6) = "Q"
    <3>1. 6 + 1 = 7
      OBVIOUS
    <3>2. QED
      BY <1>2, <1>4, <3>1 DEF HeadAt, ChallengeAt
  <2>4. r2 = IF f.ctr THEN Read(8, 6 + 2) ELSE Read(0, 6)
    BY <1>2, <2>2, <2>3, CtrBack
  <2>5. b = IF f.ctr THEN 6 + 2 ELSE 6
    BY <1>2, <1>4 DEF HeadAt
  <2>6. QED
    BY <1>2, <2>4, <2>5
<1>12. r2.at = b => r3 = IF f.type \in {"A", "N", "H"} /\ f.max \in 4 .. 64
                         THEN Read(<<f.type, f.max>>, j) ELSE Fail
  <2>1. SUFFICES ASSUME r2.at = b
                 PROVE r3 = IF f.type \in {"A", "N", "H"} /\ f.max \in 4 .. 64
                            THEN Read(<<f.type, f.max>>, j) ELSE Fail
    OBVIOUS
  <2>2. r3 = ReadQ(s, b)
    BY <2>1 DEF r3
  <2>3. r3 = IF f.type \in {"A", "N", "H"} /\ f.max \in 4 .. 64
             THEN Read(<<f.type, f.max>>, b + 4) ELSE Fail
    <3>1. PICK y : y = f.type
      OBVIOUS
    <3>2. PICK m \in 0 .. 99 : m = f.max
      BY <1>2
    <3>3. /\ Word(s, b) = "Q" /\ Word(s, b + 1) = y /\ Word(s, b + 2) = Name(m \div 10)
          /\ Word(s, b + 3) = Name(m)
      BY <1>4, <3>1, <3>2 DEF ChallengeAt
    <3>4. b \in Nat /\ b # 0
      OBVIOUS
    <3>5. ReadQ(s, b) = IF y \in {"A", "N", "H"} /\ m \in 4 .. 64
                        THEN Read(<<y, m>>, b + 4) ELSE Fail
      BY <1>3, <3>3, <3>4, QBack, ZenonT(60)
    <3>6. QED
      BY <2>2, <3>1, <3>2, <3>5
  <2>4. QED
    BY <1>8, <2>3
<1>13. r3.at = j => r4 = IF f.hash = "none" THEN Read(0, d)
                         ELSE IF f.hash \in DOMAIN HashLen THEN Read(HashLen[f.hash], d)
                         ELSE Fail
  <2>1. SUFFICES ASSUME r3.at = j
                 PROVE r4 = IF f.hash = "none" THEN Read(0, d)
                            ELSE IF f.hash \in DOMAIN HashLen THEN Read(HashLen[f.hash], d)
                            ELSE Fail
    OBVIOUS
  <2>2. r4 = ReadP(s, j)
    BY <2>1 DEF r4
  <2>3. HashAt(s, f, j, d)
    BY <1>4, <1>8
  <2>4. r4 = IF f.hash = "none" THEN Read(0, j)
             ELSE IF f.hash \in DOMAIN HashLen THEN Read(HashLen[f.hash], j + 3) ELSE Fail
    BY <1>3, <1>9, <2>2, <2>3, PBack DEF HashAt
  <2>5. d = IF f.hash = "none" THEN j ELSE j + 3
    BY <2>3 DEF HashAt
  <2>6. QED
    BY <2>4, <2>5
<1>14. r4.at = d => r5 = IF f.sid = 1000 THEN Read(0, e)
                         ELSE IF f.sid <= 512 THEN Read(f.sid, e) ELSE Fail
  <2>1. SUFFICES ASSUME r4.at = d
                 PROVE r5 = IF f.sid = 1000 THEN Read(0, e)
                            ELSE IF f.sid <= 512 THEN Read(f.sid, e) ELSE Fail
    OBVIOUS
  <2>2. r5 = ReadS(s, d)
    BY <2>1 DEF r5
  <2>3. r5 = IF f.sid = 1000 THEN Read(0, d)
             ELSE IF f.sid <= 512 THEN Read(f.sid, d + 5) ELSE Fail
    <3>1. PICK z \in 0 .. 1000 : z = f.sid
      BY <1>2
    <3>2. SessionWords(s, d, z)
      BY <1>4, <1>7, <3>1 DEF SessionAt, SessionWords
    <3>3. ASSUME NEW i \in Nat, i = d
          PROVE  ReadS(s, i) = SessionOf(z, i)
      <4>1. SessionWords(s, i, z) /\ i # 0
        BY <3>2, <3>3
      <4>2. QED
        <5>1. z \in Nat /\ z <= 1000
          OBVIOUS
        <5>2. QED
          BY <1>3, <4>1, <5>1, SBack
    <3>4. ReadS(s, d) = SessionOf(z, d)
      BY <3>3
    <3>5. QED
      BY <2>2, <3>1, <3>4 DEF SessionOf
  <2>4. e = IF f.sid = 1000 THEN d ELSE d + 5
    BY <1>4 DEF SessionAt
  <2>5. QED
    BY <2>3, <2>4
<1>15. r5.at = e => r6 = IF f.unit = "none" THEN Read(0, Len(s) + 1)
                         ELSE IF StepAllowed(f.unit, f.step)
                              THEN Read(Seconds(f.unit, f.step), Len(s) + 1) ELSE Fail
  <2>1. SUFFICES ASSUME r5.at = e
                 PROVE r6 = IF f.unit = "none" THEN Read(0, Len(s) + 1)
                            ELSE IF StepAllowed(f.unit, f.step)
                                 THEN Read(Seconds(f.unit, f.step), Len(s) + 1) ELSE Fail
    OBVIOUS
  <2>2. r6 = ReadT(s, e)
    BY <2>1 DEF r6
  <2>3. IF f.unit = "none" THEN ~ (Word(s, e) = "-" /\ Word(s, e + 1) = "T")
        ELSE /\ Word(s, e) = "-" /\ Word(s, e + 1) = "T"
             /\ IF f.step < 10 THEN /\ Word(s, e + 2) = Name(f.step) /\ Word(s, e + 3) = f.unit
                                    /\ Word(s, e + 4) = "end"
                ELSE /\ Word(s, e + 2) = Name(f.step \div 10) /\ Word(s, e + 3) = Name(f.step)
                     /\ Word(s, e + 4) = f.unit
    BY <1>4, <1>5, <1>6 DEF StepAt
  <2>4. r6 = IF f.unit = "none" THEN Read(0, e)
             ELSE IF StepAllowed(f.unit, f.step)
                  THEN Read(Seconds(f.unit, f.step), e + (IF f.step < 10 THEN 4 ELSE 5))
                  ELSE Fail
    BY <1>2, <1>3, <2>2, <2>3, TBack, ZenonT(60)
  <2>5. Len(s) + 1 = IF f.unit = "none" THEN e ELSE e + (IF f.step < 10 THEN 4 ELSE 5)
    BY <1>4 DEF StepAt
  <2>6. QED
    BY <2>4, <2>5
<1>16. CASE Legal(f)
  <2>1. /\ f.digit \in 4 .. 9 /\ f.type \in {"A", "N", "H"} /\ f.max \in 4 .. 64
        /\ f.hash \in DOMAIN HashLen \cup {"none"} /\ f.sid \in (0 .. 512) \cup {1000}
        /\ f.unit = "none" \/ StepAllowed(f.unit, f.step)
    BY <1>16 DEF Legal, StepAllowed
  <2>2. r1 = Read(f.digit, 6) /\ r1.ok /\ r1.val = f.digit /\ r1.at = 6
    BY <1>10, <2>1 DEF Read
  <2>3. r2.ok /\ r2.val = (IF f.ctr THEN 8 ELSE 0) /\ r2.at = b
    BY <1>11, <2>2 DEF Read
  <2>4. r3.ok /\ r3.val = <<f.type, f.max>> /\ r3.at = j
    BY <1>12, <2>1, <2>3 DEF Read
  <2>5. r4.ok /\ r4.val = (IF f.hash = "none" THEN 0 ELSE HashLen[f.hash]) /\ r4.at = d
    BY <1>13, <2>1, <2>4 DEF Read
  <2>6. r5.ok /\ r5.val = (IF f.sid = 1000 THEN 0 ELSE f.sid) /\ r5.at = e
    <3>1. f.sid = 1000 \/ f.sid <= 512
      BY <2>1
    <3>2. QED
      BY <1>14, <2>5, <3>1 DEF Read
  <2>7. r6.ok /\ r6.val = Seconds(f.unit, f.step) /\ r6.at = Len(s) + 1
    <3>1. f.unit = "none" => Seconds(f.unit, f.step) = 0
      BY DEF Seconds
    <3>2. QED
      BY <1>15, <2>1, <2>6, <3>1 DEF Read
  <2>8. OCRAStart(s) = res
    BY <1>1, <2>2, <2>3, <2>4, <2>5, <2>6, <2>7
  <2>9. PICK k1, k2, k3, k4 :
          /\ k1 = (IF f.ctr THEN 8 ELSE 0)
          /\ k2 = (IF f.hash = "none" THEN 0 ELSE HashLen[f.hash])
          /\ k3 = (IF f.sid = 1000 THEN 0 ELSE f.sid) /\ k4 = Seconds(f.unit, f.step)
    OBVIOUS
  <2>10. res = Meaning(f)
    <3>1. r1.val = f.digit /\ r2.val = k1 /\ r3.val[1] = f.type /\ r3.val[2] = f.max
          /\ r4.val = k2 /\ r5.val = k3 /\ r6.val = k4
      BY <2>2, <2>3, <2>4, <2>5, <2>6, <2>7, <2>9
    <3>2. res = [ok |-> TRUE, digit |-> f.digit, ctr_len |-> k1, q_type |-> f.type,
                 q_max |-> f.max, p_len |-> k2, s_len |-> k3, ts |-> k4]
      BY <3>1
    <3>3. Meaning(f) = [ok |-> TRUE, digit |-> f.digit, ctr_len |-> k1, q_type |-> f.type,
                        q_max |-> f.max, p_len |-> k2, s_len |-> k3, ts |-> k4]
      BY <2>9 DEF Meaning, Seconds
    <3>4. QED
      BY <3>2, <3>3
  <2>11. QED
    BY <1>16, <2>8, <2>10 DEF ReadsBack, s
<1>17. CASE ~ Legal(f)
  <2>1. SUFFICES ASSUME all6 PROVE FALSE
    BY <1>1, <1>17 DEF ReadsBack, s
  <2>2. ~ Fail.ok
    BY DEF Fail
  <2>3. f.digit \in 4 .. 9 /\ r1.at = 6
    BY <1>10, <2>1, <2>2 DEF Read
  <2>4. r2.at = b
    BY <1>11, <2>3 DEF Read
  <2>5. f.type \in {"A", "N", "H"} /\ f.max \in 4 .. 64 /\ r3.at = j
    BY <1>12, <2>1, <2>2, <2>4 DEF Read
  <2>6. f.hash \in DOMAIN HashLen \cup {"none"} /\ r4.at = d
    BY <1>13, <2>1, <2>2, <2>5 DEF Read
  <2>7. (f.sid = 1000 \/ f.sid <= 512) /\ r5.at = e
    BY <1>14, <2>1, <2>2, <2>6 DEF Read
  <2>8. f.unit = "none" \/ StepAllowed(f.unit, f.step)
    BY <1>15, <2>1, <2>2, <2>7
  <2>9. f.sid \in (0 .. 512) \cup {1000}
    BY <1>2, <2>7
  <2>10. QED
    BY <1>17, <2>3, <2>5, <2>6, <2>8, <2>9 DEF Legal, StepAllowed
<1>18. QED
  BY <1>16, <1>17

(* Whatever is done to a line, it stays a sequence of words.               *)
LEMMA DamagedAreLines ==
  ASSUME NEW V, NEW t \in Seq(V), NEW X
  PROVE  /\ \A k \in 1 .. Len(t) : RemoveAt(t, k) \in Seq(V \cup X)
         /\ \A k \in 1 .. Len(t), w \in X : [t EXCEPT ![k] = w] \in Seq(V \cup X)
         /\ \A k \in 1 .. Len(t) + 1, w \in X : InsertAt(t, k, w) \in Seq(V \cup X)
<1>1. PICK l \in Nat : l = Len(t)
  OBVIOUS
<1>2. t \in Seq(V \cup X) /\ \A k \in 1 .. l : t[k] \in V \cup X
  <2>1. /\ t \in [1 .. l -> V]
    BY <1>1
  <2>2. t \in [1 .. l -> V \cup X]
    BY <2>1
  <2>3. QED
    BY <1>1, <2>2
<1> DEFINE Part(a, b) == SubSeq(t, a, b)
<1>3. ASSUME NEW a \in Nat, a # 0, NEW b \in Int, b <= l
      PROVE  Part(a, b) \in Seq(V \cup X)
  <2>1. \A k \in a .. b : t[k] \in V \cup X
    BY <1>2, <1>3
  <2>2. QED
    BY <2>1, SubSeqProperties
<1> HIDE DEF Part
<1>4. ASSUME NEW k \in 1 .. l
      PROVE  RemoveAt(t, k) \in Seq(V \cup X)
  <2>1. Part(1, k - 1) \in Seq(V \cup X)
    <3>1. PICK b \in Int : b = k - 1 /\ b <= l
      <4>1. k - 1 \in Int /\ k - 1 <= l
        OBVIOUS
      <4>2. QED
        BY <4>1
    <3>2. Part(1, b) \in Seq(V \cup X)
      BY <1>3, <3>1
    <3>3. QED
      BY <3>1, <3>2
  <2>2. Part(k + 1, l) \in Seq(V \cup X)
    <3>1. PICK a \in Nat : a = k + 1 /\ a # 0
      OBVIOUS
    <3>2. Part(a, l) \in Seq(V \cup X)
      BY <1>3, <3>1
    <3>3. QED
      BY <3>1, <3>2
  <2>3. QED
    BY <1>1, <2>1, <2>2, ConcatProperties DEF RemoveAt, Part
<1>5. ASSUME NEW k \in 1 .. l, NEW w \in X
      PROVE  [t EXCEPT ![k] = w] \in Seq(V \cup X)
  <2>1. w \in V \cup X
    OBVIOUS
  <2>2. QED
    BY <1>1, <1>2, <2>1, ExceptSeq
<1>6. ASSUME NEW k \in 1 .. l + 1, NEW w \in X
      PROVE  InsertAt(t, k, w) \in Seq(V \cup X)
  <2>1. Part(1, k - 1) \in Seq(V \cup X)
    <3>1. PICK b \in Int : b = k - 1 /\ b <= l
      <4>1. k - 1 \in Int /\ k - 1 <= l
        OBVIOUS
      <4>2. QED
        BY <4>1
    <3>2. Part(1, b) \in Seq(V \cup X)
      BY <1>3, <3>1
    <3>3. QED
      BY <3>1, <3>2
  <2>2. Part(k, l) \in Seq(V \cup X)
    <3>1. k \in Nat /\ k # 0 /\ l \in Int /\ l <= l
      OBVIOUS
    <3>2. QED
      BY <1>3, <3>1
  <2>3. <<w>> \in Seq(V \cup X)
    OBVIOUS
  <2>4. QED
    BY <1>1, <2>1, <2>2, <2>3, ConcatProperties DEF InsertAt, Part
<1>7. QED
  BY <1>1, <1>4, <1>5, <1>6

(* Names that are asked for in a run.                                      *)
Shown ==
  {"A", "N", "H", "P", "none", "HBELT", "SHA1", "SHA256", "SHA512", "-", "S", "M"}

(* All the run asks for is covered, the full description too.              *)
LEMMA AskedInRun == Fields \cup {Full} \subseteq Asked(Shown)
<1>1. Fields \subseteq Asked(Shown)
  <2>1. {3, 4, 9} \subseteq 0 .. 9 /\ {3, 4, 64, 65} \subseteq 0 .. 99
        /\ {1000, 0, 512, 513} \subseteq 0 .. 1000 /\ {1, 48, 49, 59, 60} \subseteq 0 .. 99
    OBVIOUS
  <2>2. /\ {"A", "N", "H", "P"} \subseteq Shown
        /\ {"none", "HBELT", "SHA1", "SHA512", "-"} \subseteq Shown
        /\ {"none", "S", "M", "H", "-"} \subseteq Shown
    BY DEF Shown
  <2>3. ASSUME NEW f \in Fields
        PROVE  f \in Asked(Shown)
    <3>1. f = [digit |-> f.digit, ctr |-> f.ctr, type |-> f.type, max |-> f.max,
               hash |-> f.hash, sid |-> f.sid, unit |-> f.unit, step |-> f.step]
      BY DEF Fields
    <3>2. /\ f.digit \in {3, 4, 9} /\ f.ctr \in BOOLEAN /\ f.type \in {"A", "N", "H", "P"}
          /\ f.max \in {3, 4, 64, 65} /\ f.hash \in {"none", "HBELT", "SHA1", "SHA512", "-"}
          /\ f.sid \in {1000, 0, 512, 513} /\ f.unit \in {"none", "S", "M", "H", "-"}
          /\ f.step \in {1, 48, 49, 59, 60}
      BY DEF Fields
    <3>3. /\ f.digit \in 0 .. 9 /\ f.ctr \in BOOLEAN /\ f.type \in Shown /\ f.max \in 0 .. 99
          /\ f.hash \in Shown /\ f.sid \in 0 .. 1000 /\ f.unit \in Shown
          /\ f.step \in 0 .. 99
      BY <2>1, <2>2, <3>2
    <3>4. QED
      BY <3>1, <3>3 DEF Asked
  <2>4. QED
    BY <2>3
<1>2. Full \in Asked(Shown)
  <2>1. /\ 8 \in 0 .. 9 /\ TRUE \in BOOLEAN /\ 48 \in 0 .. 99 /\ 64 \in 0 .. 1000
        /\ 11 \in 0 .. 99
    OBVIOUS
  <2>2. "N" \in Shown /\ "SHA256" \in Shown /\ "M" \in Shown
    BY DEF Shown
  <2>3. QED
    BY <2>1, <2>2 DEF Asked, Full
<1>3. QED
  BY <1>1, <1>2

(* Of a damaged description only one that is again well written is read.   *)
LEMMA DamagedRefused == \A s \in Damaged : RefusesOther(s)
<1> DEFINE t == Line(Full)
           V == Letters(Shown)
<1>1. t \in Seq(V)
  BY AskedInRun, WordsOfLine
<1>2. Damaged =
        {RemoveAt(t, k) : k \in 1 .. Len(t)}
          \cup {[t EXCEPT ![k] = w] : k \in 1 .. Len(t), w \in Strange}
          \cup {InsertAt(t, k, w) : k \in 1 .. Len(t) + 1, w \in Strange}
  BY DEF Damaged
<1> HIDE DEF t, V
<1>3. /\ \A k \in 1 .. Len(t) : RemoveAt(t, k) \in Seq(V \cup Strange)
      /\ \A k \in 1 .. Len(t), w \in Strange : [t EXCEPT ![k] = w] \in Seq(V \cup Strange)
      /\ \A k \in 1 .. Len(t) + 1, w \in Strange : InsertAt(t, k, w) \in Seq(V \cup Strange)
  BY <1>1, DamagedAreLines
<1>4. Damaged \subseteq Seq(V \cup Strange)
  <2> DEFINE X1 == {RemoveAt(t, k) : k \in 1 .. Len(t)}
             X2 == {[t EXCEPT ![k] = w] : k \in 1 .. Len(t), w \in Strange}
             X3 == {InsertAt(t, k, w) : k \in 1 .. Len(t) + 1, w \in Strange}
             Y == Seq(V \cup Strange)
  <2>1. X1 \subseteq Y
    BY <1>3
  <2>2. X2 \subseteq Y
    BY <1>3, SMTT(40)
  <2>3. X3 \subseteq Y
    BY <1>3
  <2>4. Damaged = X1 \cup X2 \cup X3
    BY <1>2
  <2> HIDE DEF X1, X2, X3, Y
  <2>5. Damaged \subseteq Y
    BY <2>1, <2>2, <2>3, <2>4
  <2>6. QED
    BY <2>5 DEF Y
<1>5. QED
  BY <1>4, ReadIsWritten

(* The description that is shown stays.                                    *)
LineInv == part = "suite" => line \in Fields \cup {Full}

(* No step of any part changes the description.                            *)
LEMMA LineStays == MCSpec => []LineInv
<1>1. MCInit => LineInv
  BY DEF MCInit, LineInv
<1>2. LineInv /\ [MCNext]_all => LineInv'
  <2> SUFFICES ASSUME LineInv, [MCNext]_all PROVE LineInv'
    OBVIOUS
  <2>1. part' = part /\ line' = line
    BY DEF MCNext, all
  <2>2. QED
    BY <2>1 DEF LineInv
<1>3. QED
  BY <1>1, <1>2, PTL DEF MCSpec

(* Codes of commands and descriptions of modes are read to what they stand *)
(* for: a written command or description is read back, and one that is     *)
(* accepted has been written for what is read (apdu.c, botpOCRAStart()).   *)
THEOREM CommandsReadCorrect == MCSpec => []CommandsRead
<1>1. LineInv => SuiteRead
  <2> SUFFICES ASSUME LineInv, part = "suite"
               PROVE  /\ ReadsBack(line)
                      /\ line = Full => \A s \in Damaged : RefusesOther(s)
    BY DEF SuiteRead
  <2>1. line \in Asked(Shown)
    BY AskedInRun DEF LineInv
  <2>2. ReadsBack(line)
    BY <2>1, LineReadBack
  <2>3. QED
    BY <2>2, DamagedRefused
<1>2. (RoundTrip /\ Lengths) /\ SuiteRead => CommandsRead
  BY DEF CommandsRead
<1>3. QED
  BY <1>1, <1>2, CodesOfCommandsCorrect, LineStays, PTL
===============================================================================
