------------------------------ MODULE BakeBSTS ------------------------------
(***************************************************************************)
(* The protocol BSTS of STB 34.101.66, bakeBSTSStart() .. bakeBSTSStepG()  *)
(* and the runs bakeBSTSRunA() and bakeBSTSRunB() of src/src/crypto/bake.c.*)
(*    M1 (B to A): Vb                                                      *)
(*    M2 (A to B): Va, Ya = Encr(sa, certa), Ta    M3 (B to A): Yb, Tb     *)
(* M2 and M3 have any length: they are read in blocks of 512 octets, what  *)
(* came before is kept in a blob that grows with each block.               *)
(***************************************************************************)
EXTENDS BakeLine

CONSTANTS
  PrivKeys,      \* long-term private keys
  Hellos,        \* hello messages
  MaxBlocks      \* full blocks in the longest M2 or M3

(* The private key, the public key of the own certificate, the hellos, and *)
(* how many full blocks the own certificate makes of M2 or M3.             *)
Confs == [d : PrivKeys, own : PrivKeys, hello : Hellos, blocks : 0 .. MaxBlocks]

Init == conf \in [Parties -> Confs] /\ LineInit

(* K0, K1 and K2 come from <ua Vb>_2l || helloa || hellob.                 *)
KeyOf(p, u, v) == [x |-> X((u * v) % Q), hello |-> conf[p].hello]

NoText == [key |-> NoiseKey, pad |-> 2, s |-> 0, cert |-> 0]

(* Y and its tag: encrypted and authenticated under one key, with the      *)
(* initial value and the last block 0^128 or 1^128.                        *)
Sealed(key, pad, s, cert) == [key |-> key, pad |-> pad, s |-> s, cert |-> cert]

M1(v) == [v |-> v]
M2(v, y, b) == [v |-> v, y |-> y, t |-> y, blocks |-> b]
M3(y, b) == [y |-> y, t |-> y, blocks |-> b]

(* The line replaces a point, the text Y or its tag.                       *)
Spoil(m) ==
  LET points == IF "v" \in DOMAIN m
                THEN {[m EXCEPT !.v = v] : v \in (0 .. Q - 1) \ {m.v}} ELSE {}
  IN points \cup (IF "y" \in DOMAIN m
                  THEN {[m EXCEPT !.y = NoText], [m EXCEPT !.t = NoText]} ELSE {})

(* bakeBSTSStep2().                                                        *)
Step2(u) == Done([st["B"] EXCEPT !.u = u, !.v = u], <<M1(u)>>)

(* bakeBSTSStep3(); the signature of A ties both one-time points.          *)
Step3(m, u) ==
  LET key == KeyOf("A", u, m.v)
      c == Factor(X(u), X(m.v))
      y == Sealed(key, 0, Sign(c, u, conf["A"].d), conf["A"].own)
  IN IF m.v = 0 THEN Error("ERR_BAD_POINT", st["A"])
     ELSE Done([st["A"] EXCEPT !.u = u, !.v = m.v, !.t = c, !.key = key],
               <<M2(u, y, conf["A"].blocks)>>)

(* Faulty variant: a signature is compared by the x-coordinate only.       *)
Opened_x(s, m, pad, c, v) ==
  LET R == Restored(c, m.y.s, m.y.cert)
  IN CASE m.t # m.y \/ m.t.key # s.key \/ m.t.pad # pad -> "ERR_AUTH"
       [] R = 0 -> "ERR_BAD_PARAMS"
       [] X(R) # X(v) -> "ERR_AUTH"
       [] OTHER -> "ERR_OK"

(* The tag, then the certificate, then the signature of the other party.   *)
Opened(s, m, pad, c, v) ==
  LET R == Restored(c, m.y.s, m.y.cert)
  IN CASE m.t # m.y \/ m.t.key # s.key \/ m.t.pad # pad -> "ERR_AUTH"
       [] R = 0 -> "ERR_BAD_PARAMS"
       [] R # v -> "ERR_AUTH"
       [] OTHER -> "ERR_OK"

(* bakeBSTSStep4().                                                        *)
Step4(m) ==
  LET s == st["B"]
      k == [s EXCEPT !.key = KeyOf("B", s.u, m.v), !.r = m.v]
      c == Factor(X(m.v), X(s.v))
      code == Opened(k, m, 0, c, m.v)
      y == Sealed(k.key, 1, Sign(c, s.u, conf["B"].d), conf["B"].own)
  IN CASE m.v = 0 -> Error("ERR_BAD_POINT", s)
       [] m.v # 0 /\ code # "ERR_OK" -> Error(code, k)
       [] OTHER -> Done([k EXCEPT !.peer = m.y.cert], <<M3(y, conf["B"].blocks)>>)

(* bakeBSTSStep5(), with the t of step 3.                                  *)
Step5(m) ==
  LET s == st["A"]
      code == Opened(s, m, 1, s.t, s.v)
  IN IF code # "ERR_OK" THEN Error(code, s)
     ELSE Done([s EXCEPT !.peer = m.y.cert], <<>>)
-----------------------------------------------------------------------------
(* M2 and M3 in blocks.                                                    *)

Reading(p) == pc[p] \in {"read4", "read5"} /\ file[p] # <<>>

(* One full block: blobResize() makes room for it in the copy of the       *)
(* message.  When it cannot, the copy is lost: 0 has been assigned to it.  *)
ReadBlock(p) ==
  /\ Reading(p) /\ st[p].got < Head(file[p]).blocks
  /\ \/ /\ st' = [st EXCEPT ![p].got = @ + 1]
        /\ heap' = [heap EXCEPT ![p] = @ \cup {"M"}]
        /\ UNCHANGED <<pc, result, faults>>
     \/ /\ Fault /\ Return(p, "ERR_OUTOFMEMORY", {"blob"}) /\ UNCHANGED st
  /\ UNCHANGED <<conf, file>>

(* The end of the message did not fit into the copy.                       *)
LastFails(p) ==
  /\ Reading(p) /\ st[p].got = Head(file[p]).blocks /\ st[p].got > 0
  /\ Fault /\ Return(p, "ERR_OUTOFMEMORY", {"blob"})
  /\ UNCHANGED <<conf, st, file>>

(* Faulty variant: the octets after the last full block are not copied.    *)
Whole_cut(m, got) == IF got > 0 THEN [m EXCEPT !.y = NoText] ELSE m

(* What is given to the step: all the blocks, in their order.              *)
Whole(m, got) == IF got = m.blocks THEN m ELSE [m EXCEPT !.y = NoText]

(* read() says ERR_MAX: the message has come to its end.                   *)
ReadLast(p, m) ==
  /\ Reading(p) /\ st[p].got = m.blocks /\ m \in Heard(p, Spoil)

-----------------------------------------------------------------------------
(* Faulty variant: the copy of a message is forgotten.                     *)
Broken_open(p) == {"blob"}

(* What is closed when read() fails, or the step on a whole message.       *)
Broken(p) == IF st[p].got > 0 THEN {"blob", "M"} ELSE {"blob"}

Outside(label) ==
  CASE label = "step2" -> {"ERR_BAD_RNG"}
    [] label = "read3" -> {"ERR_FILE", "ERR_BAD_RNG"}
    [] label \in {"read4", "read5"} -> {"ERR_FILE", "ERR_BAD_CERT", "ERR_OUTOFMEMORY"}
    [] OTHER -> {}

(* bakeBSTSRunB().                                                         *)
RunB ==
  \/ Start("B", "step2")
  \/ /\ pc["B"] = "step2"
     /\ \E u \in Points : LET r == Step2(u)
                          IN /\ st' = [st EXCEPT !["B"] = r.st]
                             /\ file' = [file EXCEPT !["A"] = r.send]
     /\ pc' = [pc EXCEPT !["B"] = "read4"]
     /\ UNCHANGED <<conf, result, heap, faults>>
  \/ ReadBlock("B") \/ LastFails("B")
  \/ /\ pc["B"] = "read4" /\ Reading("B")
     /\ \E m \in Heard("B", Spoil) :
          /\ ReadLast("B", m)
          /\ Turn("B", m, Step4(Whole(m, st["B"].got)), "stepG")
     /\ UNCHANGED conf
  \/ WriteFails("B", {"read4", "stepG"}) \/ Breaks("B", Outside, Broken("B")) \/ StepG("B")

(* bakeBSTSRunA().                                                         *)
RunA ==
  \/ Start("A", "read3")
  \/ /\ pc["A"] = "read3" /\ file["A"] # <<>>
     /\ \E m \in Heard("A", Spoil), u \in Points : Turn("A", m, Step3(m, u), "read5")
     /\ UNCHANGED conf
  \/ ReadBlock("A") \/ LastFails("A")
  \/ /\ pc["A"] = "read5" /\ Reading("A")
     /\ \E m \in Heard("A", Spoil) :
          /\ ReadLast("A", m)
          /\ Turn("A", m, Step5(Whole(m, st["A"].got)), "stepG")
     /\ UNCHANGED conf
  \/ WriteFails("A", {"read5"}) \/ Breaks("A", Outside, Broken("A")) \/ StepG("A")
-----------------------------------------------------------------------------
(* A party that ends well has a partner with the same key and the same     *)
(* hellos, and has accepted the certificate of its partner.                *)
OneKey ==
  \A p \in Parties : Finished(p) =>
    LET o == Other(p)
    IN /\ st[p].key = st[o].key /\ conf[p].hello = conf[o].hello
       /\ st[p].peer = conf[o].own

(* The partner's private key belongs to the certificate that was accepted  *)
(* and both have the same one-time point of the partner: neither fails     *)
(* alone (a group this small cannot exclude that a wrong key signs a wrong *)
(* point by chance).                                                       *)
SamePoint(p) == st[Other(p)].u = (IF p = "A" THEN st[p].v ELSE st[p].r)
Bound ==
  \A p \in Parties : Finished(p) =>
    conf[Other(p)].own = conf[Other(p)].d <=> SamePoint(p)

(* Parties that were given what fits together and whose line and memory    *)
(* served them both end well, however many blocks a message takes.         *)
Honest ==
  /\ \A p \in Parties : conf[p].own = conf[p].d
  /\ conf["A"].hello = conf["B"].hello /\ faults = 0
  => \A p \in Parties : result[p] \in {"running", "ERR_OK"}
=============================================================================
