------------------------------ MODULE BakeBMQV ------------------------------
(***************************************************************************)
(* The protocol BMQV of STB 34.101.66: the steps bakeBMQVStart() ..        *)
(* bakeBMQVStepG() and the runs bakeBMQVRunA() and bakeBMQVRunB() of       *)
(* src/src/crypto/bake.c.  Two parties exchange                            *)
(*    M1 (B to A): Vb     M2 (A to B): Va, Ta if kca     M3 (B to A): Tb   *)
(* over a line that may spoil or lose a message.                           *)
(*                                                                         *)
(* Data.  The points of the group of prime order Q are the multiples of    *)
(* its base; a point is its multiplier, 0 is what octets that are not a    *)
(* point stand for (O has no octets).  Opposite points share their x.  The *)
(* hash t of two x-coordinates is a table.  A key is all that is hashed to *)
(* make it; a tag is its kind and its key: beltHash, beltKRP and beltMAC   *)
(* are taken to be free of collisions.                                     *)
(***************************************************************************)
EXTENDS Integers, Sequences, FiniteSets

CONSTANTS
  Q,             \* the order of the group, a prime
  TwoL,          \* 2^l
  HashT,         \* beltHash of two x-coordinates, reduced modulo 2^l
  PrivKeys,      \* long-term private keys
  Flags,         \* pairs <<kca, kcb>> of settings
  Hellos,        \* pairs of hello messages
  MaxSlips,      \* how much of what the parties are given may disagree
  MaxFaults      \* how many failures of the line, rng, memory are explored

Points == 1 .. Q - 1

(* x-coordinates: opposite points share it.                                *)
X(k) == IF 2 * k > Q THEN Q - k ELSE k

Xs == {X(k) : k \in Points}

ASSUME BMQVAssumption ==
  /\ Q \in Nat /\ TwoL \in Nat \ {0} /\ 2 * TwoL <= Q
  /\ \A a, b \in Points : (a * b) % Q # 0
  /\ HashT \in [Xs \X Xs -> 0 .. TwoL - 1]
  /\ PrivKeys \subseteq Points
  /\ Flags \subseteq BOOLEAN \X BOOLEAN
  /\ MaxSlips \in Nat /\ MaxFaults \in Nat

Parties == {"A", "B"}
Other(p) == IF p = "A" THEN "B" ELSE "A"

VARIABLES
  conf,          \* what each party is given before the run
  pc,            \* where each party's run is
  u,             \* bake_bmqv_o::u, the one-time private key
  key,           \* K0 and K1 of bake_bmqv_o, by what they are made from
  out,           \* the block out of each run
  in,            \* the block in of each run
  file,          \* file[p]: messages on their way to p
  result,        \* the code each run returns
  faults         \* failures so far

bmqvVars == <<conf, pc, u, key, out, in, file, result, faults>>

(* The private key, the public key in the own certificate, the public key  *)
(* in the certificate of the other party, the settings.                    *)
Confs == [d : PrivKeys, own : Points, peer : Points,
          kca : BOOLEAN, kcb : BOOLEAN, hello : Hellos]

Keys == [x : Xs, qa : Points, qb : Points, hello : Hellos]
NoKey == [x |-> 0]

Tag(kind, k) == [kind |-> kind, of |-> k]
Noise == Tag("noise", NoKey)
NoTag == Tag("none", NoKey)
Tags == {Noise, NoTag} \cup [kind : {"Ta", "Tb"}, of : Keys \cup {NoKey}]

(* A message: a point (0: not a point or none) and a tag.                  *)
Msg(v, tag) == [v |-> v, tag |-> tag]
NoMsg == Msg(0, NoTag)
Msgs == [v : {0} \cup Points, tag : Tags]

(* Where a run may be.                                                     *)
Labels(p) ==
  IF p = "A" THEN {"start", "read3", "step3", "write3", "read5", "step5",
                   "stepG", "end"}
             ELSE {"start", "step2", "write2", "read4", "step4", "write4",
                   "stepG", "end"}

Codes == {"running", "ok", "ERR_OUTOFMEMORY", "ERR_BAD_CERT", "ERR_BAD_RNG",
          "ERR_BAD_POINT", "ERR_BAD_PARAMS", "ERR_AUTH", "ERR_FILE"}

(* What may disagree: a private key and its certificate, a certificate and *)
(* the copy of it the other party has, the flags, the hellos.              *)
Slips(c) ==
  Cardinality({p \in Parties : c[p].own # c[p].d})
  + Cardinality({p \in Parties : c[p].peer # c[Other(p)].own})
  + Cardinality({f \in {1, 2, 3} :
      \/ f = 1 /\ c["A"].kca # c["B"].kca
      \/ f = 2 /\ c["A"].kcb # c["B"].kcb
      \/ f = 3 /\ c["A"].hello # c["B"].hello})

Init ==
  /\ conf \in {[p \in Parties |->
                  [d |-> g[p].d, own |-> g[p].own, peer |-> g[p].peer,
                   kca |-> g[p].fl[1], kcb |-> g[p].fl[2],
                   hello |-> g[p].hello]] :
                g \in [Parties -> [d : PrivKeys, own : PrivKeys,
                                  peer : PrivKeys, fl : Flags,
                                  hello : Hellos]]}
  /\ Slips(conf) <= MaxSlips
  /\ pc = [p \in Parties |-> "start"]
  /\ u = [p \in Parties |-> 0]
  /\ key = [p \in Parties |-> NoKey]
  /\ out = [p \in Parties |-> NoMsg]
  /\ in = [p \in Parties |-> NoMsg]
  /\ file = [p \in Parties |-> <<>>]
  /\ result = [p \in Parties |-> "running"]
  /\ faults = 0
-----------------------------------------------------------------------------
At(p, label) == pc[p] = label
Goto(p, label) == pc' = [pc EXCEPT ![p] = label] /\ UNCHANGED result

(* ERR_CALL_HANDLE(code, blobClose(blob)): the run ends.                   *)
End(p, code) ==
  /\ pc' = [pc EXCEPT ![p] = "end"]
  /\ result' = [result EXCEPT ![p] = code]

Fault == faults < MaxFaults /\ faults' = faults + 1
-----------------------------------------------------------------------------
(* The runs up to the first message.                                       *)

(* Faulty variant: B waits for A before it sends M1.                       *)
AfterStart_wait(p) == IF p = "A" THEN "read3" ELSE "read4"

(* RunB goes on with step 2, RunA waits for M1.                            *)
AfterStart(p) == IF p = "A" THEN "read3" ELSE "step2"

(* blobCreate() and bakeBMQVStart(): the memory, the own certificate.      *)
Start(p) ==
  /\ At(p, "start")
  /\ \/ Goto(p, AfterStart(p)) /\ UNCHANGED faults
     \/ Fault /\ End(p, "ERR_OUTOFMEMORY")
     \/ Fault /\ End(p, "ERR_BAD_CERT")
  /\ UNCHANGED <<conf, u, key, out, in, file>>

(* bakeBMQVStep2().                                                        *)
Step2 ==
  /\ At("B", "step2")
  /\ \/ /\ \E k \in Points :
             /\ u' = [u EXCEPT !["B"] = k]
             /\ out' = [out EXCEPT !["B"] = Msg(k, NoTag)]
        /\ Goto("B", "write2")
        /\ UNCHANGED faults
     \/ Fault /\ End("B", "ERR_BAD_RNG") /\ UNCHANGED <<u, out>>
  /\ UNCHANGED <<conf, key, in, file>>
-----------------------------------------------------------------------------
(* The line.                                                               *)

AfterWrite(p) ==
  CASE At(p, "write2") -> "read4"
    [] At(p, "write3") -> IF conf[p].kcb THEN "read5" ELSE "stepG"
    [] At(p, "write4") -> "stepG"

(* write(): an error may come when the message is already on its way.      *)
Write(p) ==
  /\ pc[p] \in {"write2", "write3", "write4"}
  /\ \/ /\ file' = [file EXCEPT ![Other(p)] = Append(@, out[p])]
        /\ Goto(p, AfterWrite(p))
        /\ UNCHANGED faults
     \/ /\ Fault
        /\ file' \in {file, [file EXCEPT ![Other(p)] = Append(@, out[p])]}
        /\ End(p, "ERR_FILE")
  /\ UNCHANGED <<conf, u, key, out, in>>

Reading(p) == pc[p] \in {"read3", "read4", "read5"}

(* The next message has all the octets asked for.                          *)
Complete(p) ==
  /\ file[p] # <<>>
  /\ At(p, "read4") /\ conf[p].kca => Head(file[p]).tag # NoTag

AfterRead(p) ==
  CASE At(p, "read3") -> "step3"
    [] At(p, "read4") -> "step4"
    [] At(p, "read5") -> "step5"

(* What the line makes of a message: a point or no point for the point, a  *)
(* wrong tag for the tag.                                                  *)
Spoiled(m) ==
  {Msg(v, m.tag) : v \in (0 .. Q - 1) \ {m.v}} \cup {Msg(m.v, Noise)}

Read(p) ==
  /\ Reading(p) /\ Complete(p)
  /\ \/ in' = [in EXCEPT ![p] = Head(file[p])] /\ UNCHANGED faults
     \/ /\ Fault
        /\ \E m \in Spoiled(Head(file[p])) : in' = [in EXCEPT ![p] = m]
  /\ file' = [file EXCEPT ![p] = Tail(@)]
  /\ Goto(p, AfterRead(p))
  /\ UNCHANGED <<conf, u, key, out>>

(* read() returns an error: the message is lost, or nothing more comes     *)
(* because the other run has ended.                                        *)
ReadFails(p) ==
  /\ Reading(p)
  /\ \/ Complete(p) /\ Fault
     \/ ~ Complete(p) /\ At(Other(p), "end") /\ UNCHANGED faults
  /\ End(p, "ERR_FILE")
  /\ UNCHANGED <<conf, u, key, out, in, file>>
-----------------------------------------------------------------------------
(* The keys.                                                               *)

(* 2^l + t.  The x-coordinates of Va and Vb are hashed in this order by    *)
(* both parties.                                                           *)
Factor(p, own, other) ==
  TwoL + (IF p = "A" THEN HashT[<<X(own), X(other)>>]
                     ELSE HashT[<<X(other), X(own)>>])

(* sa <- (ua - (2^l + t)da) mod q.                                         *)
Scalar(c, k, d) == (k - c * d) % Q

(* V - (2^l + t)Q of the other party; 0 is O.                              *)
PeerPoint(c, v, q) == (v - c * q) % Q

(* K: the base point when the point is O.                                  *)
SharedX(s, m) == IF m = 0 THEN X(1) ELSE X((s * m) % Q)

(* Faulty variant: hellob is left out of the hash, helloa is too.          *)
KeyOf_bare(p, x) ==
  [x |-> x,
   qa |-> IF p = "A" THEN conf[p].own ELSE conf[p].peer,
   qb |-> IF p = "B" THEN conf[p].own ELSE conf[p].peer,
   hello |-> CHOOSE h \in Hellos : TRUE]

(* beltHash(<K>_2l || certa || certb || helloa || hellob).                 *)
KeyOf(p, x) ==
  [x |-> x,
   qa |-> IF p = "A" THEN conf[p].own ELSE conf[p].peer,
   qb |-> IF p = "B" THEN conf[p].own ELSE conf[p].peer,
   hello |-> conf[p].hello]

(* The part common to steps 3 and 4, with the one-time key k of p: the     *)
(* second ecMulA() refuses the scalar 0.                                   *)
Derive(p, k) ==
  LET v == in[p].v
      c == Factor(p, k, v)
      s == Scalar(c, k, conf[p].d)
      m == PeerPoint(c, v, conf[p].peer)
  IN IF m # 0 /\ s = 0 THEN NoKey ELSE KeyOf(p, SharedX(s, m))

(* The certificate of the other party and its point are looked at.         *)
InputBad(p) ==
  \/ Fault /\ End(p, "ERR_BAD_CERT")
  \/ in[p].v = 0 /\ End(p, "ERR_BAD_POINT") /\ UNCHANGED faults

(* bakeBMQVStep3().                                                        *)
Step3 ==
  /\ At("A", "step3")
  /\ \/ InputBad("A") /\ UNCHANGED <<u, key, out>>
     \/ /\ in["A"].v # 0 /\ Fault
        /\ End("A", "ERR_BAD_RNG")
        /\ UNCHANGED <<u, key, out>>
     \/ /\ in["A"].v # 0
        /\ \E k \in Points :
             LET K == Derive("A", k)
             IN /\ u' = [u EXCEPT !["A"] = k]
                /\ key' = [key EXCEPT !["A"] = K]
                /\ IF K = NoKey
                   THEN End("A", "ERR_BAD_PARAMS") /\ UNCHANGED out
                   ELSE /\ Goto("A", "write3")
                        /\ out' = [out EXCEPT !["A"] =
                             Msg(k, IF conf["A"].kca THEN Tag("Ta", K)
                                                     ELSE NoTag)]
        /\ UNCHANGED faults
  /\ UNCHANGED <<conf, in, file>>

(* Faulty variant: the kind of a tag is checked and not its key.           *)
TagOK_kind(p, kind, K) == in[p].tag.kind = kind

(* beltMACStepV(): the tag read is the tag of the key.                     *)
TagOK(p, kind, K) == in[p].tag = Tag(kind, K)

(* bakeBMQVStep4().                                                        *)
Step4 ==
  /\ At("B", "step4")
  /\ \/ InputBad("B") /\ UNCHANGED <<key, out>>
     \/ /\ in["B"].v # 0
        /\ LET K == Derive("B", u["B"])
           IN /\ key' = [key EXCEPT !["B"] = K]
              /\ IF K = NoKey
                 THEN End("B", "ERR_BAD_PARAMS") /\ UNCHANGED out
                 ELSE IF conf["B"].kca /\ ~ TagOK("B", "Ta", K)
                 THEN End("B", "ERR_AUTH") /\ UNCHANGED out
                 ELSE IF conf["B"].kcb
                 THEN /\ Goto("B", "write4")
                      /\ out' = [out EXCEPT !["B"] = Msg(0, Tag("Tb", K))]
                 ELSE Goto("B", "stepG") /\ UNCHANGED out
        /\ UNCHANGED faults
  /\ UNCHANGED <<conf, u, in, file>>

(* bakeBMQVStep5().                                                        *)
Step5 ==
  /\ At("A", "step5")
  /\ IF TagOK("A", "Tb", key["A"]) THEN Goto("A", "stepG")
                                   ELSE End("A", "ERR_AUTH")
  /\ UNCHANGED <<conf, u, key, out, in, file, faults>>

(* bakeBMQVStepG() and the end of the run.                                 *)
StepG(p) ==
  /\ At(p, "stepG")
  /\ End(p, "ok")
  /\ UNCHANGED <<conf, u, key, out, in, file, faults>>

Step(p) ==
  \/ Start(p) \/ Write(p) \/ Read(p) \/ ReadFails(p) \/ StepG(p)
  \/ p = "A" /\ (Step3 \/ Step5)
  \/ p = "B" /\ (Step2 \/ Step4)

Next == \E p \in Parties : Step(p)

Spec == Init /\ [][Next]_bmqvVars

(* A run whose callback has something to return goes on.                   *)
FairSpec == Spec /\ \A p \in Parties : WF_bmqvVars(Step(p))
-----------------------------------------------------------------------------
(* Properties.                                                             *)

(* The state of bake_bmqv_o, of the blocks and of the line.                *)
TypeOK ==
  /\ conf \in [Parties -> Confs]
  /\ pc \in [Parties -> Labels("A") \cup Labels("B")]
  /\ \A p \in Parties : pc[p] \in Labels(p)
  /\ u \in [Parties -> {0} \cup Points]
  /\ key \in [Parties -> Keys \cup {NoKey}]
  /\ out \in [Parties -> Msgs] /\ in \in [Parties -> Msgs]
  /\ file \in [Parties -> Seq(Msgs)]
  /\ result \in [Parties -> Codes]
  /\ faults \in 0 .. MaxFaults

(* The party the other one has to confirm the key to, by its own settings. *)
Due == {p \in Parties : IF p = "A" THEN conf[p].kcb ELSE conf[p].kca}

(* bakeBMQVRunA() with kcb and bakeBMQVRunB() with kca return ERR_OK only  *)
(* when the other party has built the very same key, whatever the line did *)
(* and whatever the parties were given.                                    *)
Confirmed ==
  \A p \in Due : result[p] = "ok" => key[p] = key[Other(p)]

(* A confirmed key ties the parties to one view of the run: the same two   *)
(* certificates and the same hello messages.                               *)
SameView ==
  \A p \in Due : result[p] = "ok" =>
    /\ conf[p].own = conf[Other(p)].peer
    /\ conf[p].peer = conf[Other(p)].own
    /\ conf[p].hello = conf[Other(p)].hello

(* Parties that were given the same and whose line and memory served them  *)
(* fail for no reason but a zero scalar, and build the same key.           *)
HonestAgree ==
  Slips(conf) = 0 /\ faults = 0 =>
    /\ \A p \in Parties :
         result[p] \in {"running", "ok", "ERR_BAD_PARAMS", "ERR_FILE"}
    /\ \A p \in Parties : result[p] = "ERR_FILE" =>
         result[Other(p)] = "ERR_BAD_PARAMS"
    /\ (\A p \in Parties : result[p] = "ok") => key["A"] = key["B"]

(* B waits for a Ta that A does not send, and A for M3: B has set kca, A   *)
(* has not, but kcb.                                                       *)
Deadlock ==
  /\ conf["B"].kca /\ ~ conf["A"].kca /\ conf["A"].kcb
  /\ At("B", "read4") /\ file["B"] # <<>> /\ Head(file["B"]).tag = NoTag
  /\ At("A", "read5") /\ file["A"] = <<>>

(* The run is a key agreement as KeyAgreement.tla states it.               *)
Outcome(p) ==
  CASE result[p] \in {"running", "ok"} -> result[p]
    [] OTHER -> "failed"

Agreement == INSTANCE KeyAgreement WITH
  due <- Due, derived <- key, result <- [p \in Parties |-> Outcome(p)]

Agrees == Agreement!Spec
=============================================================================
