----------------------------- MODULE BtokBAuth -----------------------------
(***************************************************************************)
(* The protocol BAUTH between a card (CT) and a terminal (T), the steps of *)
(* src/src/crypto/btok/btok_bauth.c.  CT is "B" and T is "A".              *)
(*    M1 (CT to T): Vct, Zct = Wrap(Rct)    M2 (T to CT): Tt, Rt if kcb    *)
(*    M3 (CT to T), if kcb: Encr(sct, certct), Tct                         *)
(* The library has the steps; an application moves the messages.           *)
(***************************************************************************)
EXTENDS BakeLine

CONSTANTS
  PrivKeys,      \* private keys, no two of them opposite
  Hellos,        \* hello messages
  Levels         \* security levels l

Nonces == {1, 2}

(* The private key and the key of the own certificate, the certificate of  *)
(* T that CT is given, the settings (kca is TRUE), the level.              *)
Confs == [d : PrivKeys, own : PrivKeys, certt : PrivKeys, hello : Hellos,
          kcb : BOOLEAN, l : Levels]

Init ==
  /\ conf \in [Parties -> Confs] /\ LineInit
  /\ conf["A"].kcb = conf["B"].kcb /\ conf["A"].l = conf["B"].l
  /\ conf["A"].certt = conf["A"].own

Wrapped(k, r) == [k |-> k, r |-> r]
M1(v, z) == [v |-> v, z |-> z]
M2(T, rt) == [T |-> T, rt |-> rt]
M3(y) == [y |-> y, t |-> y]

NoText == [key |-> NoiseKey, s |-> 0, cert |-> 0]

(* The line replaces a point, a wrapped key, a tag, a nonce, a text.       *)
Spoil(m) ==
  CASE "z" \in DOMAIN m ->
         {[m EXCEPT !.v = v] : v \in (0 .. Q - 1) \ {m.v}}
         \cup {[m EXCEPT !.z = Wrapped(0, 0)]}
    [] "rt" \in DOMAIN m ->
         {[m EXCEPT !.T = Noise]}
         \cup (IF m.rt # 0 THEN {[m EXCEPT !.rt = 3 - m.rt]} ELSE {})
    [] OTHER -> {[m EXCEPT !.y = NoText], [m EXCEPT !.t = NoText]}

(* K0, K1 and K2 come from <Rct>_l || [<Rt>] || helloa || hellob.          *)
KeyOf(p, rct, rt) == [r |-> rct, rt |-> rt, hello |-> conf[p].hello]

(* btokBAuthCTStep2().                                                     *)
CTStep2(u, r) ==
  Done([st["B"] EXCEPT !.u = u, !.r = r],
       <<M1(u, Wrapped(X((u * conf["B"].certt) % Q), r))>>)

(* btokBAuthTStep3(): Rt is of 16 octets.                                  *)
TStep3(m, n) ==
  LET s == st["A"]
      rt == IF conf["A"].kcb THEN n ELSE 0
      key == KeyOf("A", m.z.r, rt)
  IN CASE m.v = 0 -> Error("ERR_BAD_POINT", s)
       [] m.v # 0 /\ m.z.k # X((conf["A"].d * m.v) % Q) -> Error("ERR_AUTH", s)
       [] OTHER -> Done([s EXCEPT !.v = m.v, !.r = rt, !.key = key],
                        <<M2([of |-> key], rt)>>)

(* Rt as CT hashes it: l / 8 octets of M2, of which the last ones are past *)
(* the end of M2 when l > 128.                                             *)
RtRead(m) ==
  CASE ~ conf["B"].kcb -> 0
    [] conf["B"].kcb /\ conf["B"].l = 128 -> m.rt
    [] OTHER -> m.rt + Cardinality(Nonces)

(* t <- <beltHash(<Vct>_2l || Rt)>_l.                                      *)
Challenge(v, rt) == Factor(X(v), rt)

(* btokBAuthCTStep4().                                                     *)
CTStep4(m) ==
  LET s == st["B"]
      key == KeyOf("B", s.r, RtRead(m))
      k == [s EXCEPT !.key = key, !.peer = conf["B"].certt]
      y == [key |-> key, s |-> Sign(Challenge(s.u, m.rt), s.u, conf["B"].d),
            cert |-> conf["B"].own]
  IN CASE m.T # [of |-> key] -> Error("ERR_AUTH", k)
       [] m.T = [of |-> key] /\ conf["B"].kcb -> Done(k, <<M3(y)>>)
       [] OTHER -> Done(k, <<>>)

(* btokBAuthTStep5().                                                      *)
TStep5(m) ==
  LET s == st["A"]
      R == Restored(Challenge(s.v, s.r), m.y.s, m.y.cert)
  IN CASE m.t # m.y \/ m.t.key # s.key -> Error("ERR_AUTH", s)
       [] m.t = m.y /\ m.t.key = s.key /\ R = 0 -> Error("ERR_BAD_PARAMS", s)
       [] m.t = m.y /\ m.t.key = s.key /\ R # 0 /\ R # s.v -> Error("ERR_AUTH", s)
       [] OTHER -> Done([s EXCEPT !.peer = m.y.cert], <<>>)
-----------------------------------------------------------------------------
Outside(label) ==
  CASE label = "step2" -> {"ERR_BAD_CERT", "ERR_BAD_RNG"}
    [] label \in {"read3", "read4"} -> {"ERR_FILE"}
    [] label = "read5" -> {"ERR_FILE", "ERR_OUTOFMEMORY", "ERR_BAD_CERT"}
    [] OTHER -> {}

Hears(p, label) == pc[p] = label /\ file[p] # <<>>

(* CT: Start, Step2, Step4, StepG.                                         *)
RunCT ==
  \/ Start("B", "step2")
  \/ /\ pc["B"] = "step2"
     /\ \E u \in Points, r \in Nonces :
          /\ st' = [st EXCEPT !["B"] = CTStep2(u, r).st]
          /\ file' = [file EXCEPT !["A"] = CTStep2(u, r).send]
     /\ pc' = [pc EXCEPT !["B"] = "read4"]
     /\ UNCHANGED <<conf, result, heap, faults>>
  \/ /\ Hears("B", "read4")
     /\ \E m \in Heard("B", Spoil) : Turn("B", m, CTStep4(m), "stepG")
     /\ UNCHANGED conf
  \/ Breaks("B", Outside, {"blob"}) \/ StepG("B")

(* T: Start, Step3, Step5 when CT is to be authenticated, StepG.           *)
RunT ==
  \/ Start("A", "read3")
  \/ /\ Hears("A", "read3")
     /\ \E m \in Heard("A", Spoil), n \in Nonces :
          Turn("A", m, TStep3(m, n), IF conf["A"].kcb THEN "read5" ELSE "stepG")
     /\ UNCHANGED conf
  \/ /\ Hears("A", "read5")
     /\ \E m \in Heard("A", Spoil) : Turn("A", m, TStep5(m), "stepG")
     /\ UNCHANGED conf
  \/ Breaks("A", Outside, {"blob"}) \/ StepG("A")
-----------------------------------------------------------------------------
Due == IF conf["A"].kcb THEN Parties ELSE {"B"}

(* CT that ends well and T that has asked for it have a partner with the   *)
(* same key and the same hellos; T has accepted the certificate of CT.     *)
OneKey ==
  \A p \in Due : Finished(p) =>
    /\ st[p].key = st[Other(p)].key
    /\ conf[p].hello = conf[Other(p)].hello
    /\ p = "A" => st[p].peer = conf["B"].own

(* CT has talked to the owner of the certificate it was given; the private *)
(* key of CT belongs to the certificate T has accepted.  (When the line    *)
(* has changed the point too, a group this small lets another key open the *)
(* wrapped one by chance.)                                                 *)
Bound ==
  \A p \in Due : Finished(p) /\ X(st["A"].v) = X(st["B"].u) =>
    /\ p = "B" => conf["A"].d = conf["B"].certt
    /\ p = "A" => (conf["B"].own = conf["B"].d <=> st["A"].v = st["B"].u)

(* Parties that were given what fits together and whose line and memory    *)
(* served them both end, with the same key.                                *)
Fits ==
  /\ \A p \in Parties : conf[p].own = conf[p].d
  /\ conf["B"].certt = conf["A"].own /\ conf["A"].hello = conf["B"].hello
HonestAt(levels) ==
  Fits /\ faults = 0 /\ conf["A"].l \in levels =>
    /\ \A p \in Parties : result[p] \in {"running", "ERR_OK"}
    /\ (\A p \in Parties : Finished(p)) => st["A"].key = st["B"].key
=============================================================================
