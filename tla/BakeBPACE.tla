----------------------------- MODULE BakeBPACE -----------------------------
(***************************************************************************)
(* The protocol BPACE of STB 34.101.66, bakeBPACEStart() ..                *)
(* bakeBPACEStepG() and the runs bakeBPACERunA() and bakeBPACERunB() of    *)
(* src/src/crypto/bake.c.                                                  *)
(*    M1 (B to A): Yb = Encr(Rb)        M2 (A to B): Ya = Encr(Ra), Va     *)
(*    M3 (B to A): Vb, Tb if kcb        M4 (A to B): Ta if kca             *)
(* The one-time points are multiples of W = bakeSWU(Ra || Rb), of which    *)
(* nothing else is known: a point is W and a multiplier.  Encryption with  *)
(* the key made from a password adds the password: what is decrypted with  *)
(* another one is something else.                                          *)
(***************************************************************************)
EXTENDS BakeLine

CONSTANTS
  NR,            \* Ra and Rb are 0 .. NR - 1, and so are passwords
  Hellos         \* hello messages

Rs == 0 .. NR - 1

Confs == [pwd : Rs, hello : Hellos, kca : BOOLEAN, kcb : BOOLEAN]

Init == conf \in [Parties -> Confs] /\ LineInit

Encr(pwd, r) == (r + pwd) % NR
Decr(pwd, y) == (y - pwd) % NR

Pt(W, k) == [W |-> W, k |-> k % Q]
Mul(k, V) == Pt(V.W, k * V.k)
XOf(V) == [W |-> V.W, x |-> X(V.k)]

M1(y) == [y |-> y]
M2(y, V) == [y |-> y, V |-> V]
M3(V, T) == [V |-> V, T |-> T]
M4(T) == [T |-> T]

(* The line replaces a ciphertext, a point (multiplier 0: no point), a tag.*)
Spoil(m) ==
  (IF "y" \in DOMAIN m THEN {[m EXCEPT !.y = y] : y \in Rs \ {m.y}} ELSE {})
  \cup (IF "V" \in DOMAIN m
        THEN {[m EXCEPT !.V.k = k] : k \in (0 .. Q - 1) \ {m.V.k}} ELSE {})
  \cup (IF "T" \in DOMAIN m THEN {[m EXCEPT !.T = Noise]} ELSE {})

(* K0 and K1 come from <K>_2l || <Va>_2l || <Vb>_2l || helloa || hellob.   *)
KeyOf(p, K, Va, Vb) ==
  [K |-> XOf(K), Va |-> XOf(Va), Vb |-> XOf(Vb), hello |-> conf[p].hello]

Tag(kind, key) == [kind |-> kind, of |-> key]
TagIf(flag, kind, key) == IF flag THEN Tag(kind, key) ELSE NoTag

(* bakeBPACEStep2().                                                       *)
Step2(r) == Done([st["B"] EXCEPT !.r = r], <<M1(Encr(conf["B"].pwd, r))>>)

(* bakeBPACEStep3(): ua and the x-coordinate of Va are kept.               *)
Step3(m, r, u) ==
  LET V == Pt(<<r, Decr(conf["A"].pwd, m.y)>>, u)
  IN Done([st["A"] EXCEPT !.u = u, !.v = V],
          <<M2(Encr(conf["A"].pwd, r), V)>>)

(* bakeBPACEStep4().                                                       *)
Step4(m, u) ==
  LET s == st["B"]
      V == Pt(<<Decr(conf["B"].pwd, m.y), s.r>>, u)
      key == KeyOf("B", Mul(u, m.V), m.V, V)
  IN IF m.V.k = 0 THEN Error("ERR_BAD_POINT", s)
     ELSE Done([s EXCEPT !.u = u, !.v = V, !.key = key],
               <<M3(V, TagIf(conf["B"].kcb, "Tb", key))>>)

(* bakeBPACEStep5().                                                       *)
Step5(m) ==
  LET s == st["A"]
      key == KeyOf("A", Mul(s.u, m.V), s.v, m.V)
      k == [s EXCEPT !.key = key]
  IN CASE m.V.k = 0 -> Error("ERR_BAD_POINT", s)
       [] m.V.k # 0 /\ conf["A"].kcb /\ m.T # Tag("Tb", key) -> Error("ERR_AUTH", k)
       [] OTHER -> Done(k, IF conf["A"].kca THEN <<M4(Tag("Ta", key))>> ELSE <<>>)

(* bakeBPACEStep6().                                                       *)
Step6(m) ==
  IF m.T = Tag("Ta", st["B"].key) THEN Done(st["B"], <<>>)
  ELSE Error("ERR_AUTH", st["B"])
-----------------------------------------------------------------------------
Outside(label) ==
  CASE label \in {"read3", "read4"} -> {"ERR_FILE", "ERR_BAD_RNG"}
    [] label \in {"read5", "read6"} -> {"ERR_FILE"}
    [] OTHER -> {}

(* M3 without Tb is shorter than A asks for when its kcb is set.           *)
Short == file["A"] # <<>> /\ conf["A"].kcb /\ Head(file["A"]).T = NoTag

(* A message with all the octets asked for has come.                       *)
Hears(p, label) ==
  /\ pc[p] = label /\ file[p] # <<>>
  /\ label = "read5" => ~ Short

(* read() gives A less than it asks for, and nothing more comes.           *)
ShortRead ==
  /\ pc["A"] = "read5" /\ Short /\ pc["B"] = "end"
  /\ Return("A", "ERR_FILE", {"blob"})
  /\ UNCHANGED <<conf, st, file, faults>>

(* bakeBPACERunB().                                                        *)
RunB ==
  \/ Start("B", "step2")
  \/ /\ pc["B"] = "step2"
     /\ \E r \in Rs : /\ st' = [st EXCEPT !["B"] = Step2(r).st]
                      /\ file' = [file EXCEPT !["A"] = Step2(r).send]
     /\ pc' = [pc EXCEPT !["B"] = "read4"]
     /\ UNCHANGED <<conf, result, heap, faults>>
  \/ /\ Hears("B", "read4")
     /\ \E m \in Heard("B", Spoil), u \in Points :
          Turn("B", m, Step4(m, u), IF conf["B"].kca THEN "read6" ELSE "stepG")
     /\ UNCHANGED conf
  \/ /\ Hears("B", "read6")
     /\ \E m \in Heard("B", Spoil) : Turn("B", m, Step6(m), "stepG")
     /\ UNCHANGED conf
  \/ WriteFails("B", {"read4", IF conf["B"].kca THEN "read6" ELSE "stepG"})
  \/ Breaks("B", Outside, {"blob"}) \/ StepG("B")

(* bakeBPACERunA().                                                        *)
RunA ==
  \/ Start("A", "read3")
  \/ /\ Hears("A", "read3")
     /\ \E m \in Heard("A", Spoil), r \in Rs, u \in Points :
          Turn("A", m, Step3(m, r, u), "read5")
     /\ UNCHANGED conf
  \/ /\ Hears("A", "read5")
     /\ \E m \in Heard("A", Spoil) : Turn("A", m, Step5(m), "stepG")
     /\ UNCHANGED conf
  \/ ShortRead \/ WriteFails("A", IF conf["A"].kca THEN {"read5", "stepG"} ELSE {"read5"})
  \/ Breaks("A", Outside, {"blob"}) \/ StepG("A")
-----------------------------------------------------------------------------
Due == {p \in Parties : IF p = "A" THEN conf[p].kcb ELSE conf[p].kca}

(* A party the key was confirmed to has a partner with the same key and    *)
(* the same hellos.                                                        *)
OneKey ==
  \A p \in Due : Finished(p) =>
    /\ st[p].key = st[Other(p)].key
    /\ conf[p].hello = conf[Other(p)].hello

(* The partner of such a party knows the password (as long as the line     *)
(* does not guess both ciphertexts).                                       *)
Bound ==
  \A p \in Due : Finished(p) => conf[p].pwd = conf[Other(p)].pwd

(* Parties with one password whose line and memory served them both end    *)
(* with the same key.                                                      *)
Honest ==
  conf["A"] = conf["B"] /\ faults = 0 =>
    /\ \A p \in Parties : result[p] \in {"running", "ERR_OK"}
    /\ (\A p \in Parties : Finished(p)) => st["A"].key = st["B"].key

(* A waits for a Tb that B does not send, and B for M4: A has set kcb, B   *)
(* has not, but kca.                                                       *)
Deadlock ==
  /\ conf["A"].kcb /\ ~ conf["B"].kcb /\ conf["B"].kca
  /\ pc["A"] = "read5" /\ Short
  /\ pc["B"] = "read6" /\ file["B"] = <<>>
=============================================================================
