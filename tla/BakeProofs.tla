----------------------------- MODULE BakeProofs -----------------------------
(***************************************************************************)
(* What the four protocols promise for every group of prime order, every   *)
(* hash and every number of failures: the types, that a confirmed key is   *)
(* the key of both parties and ties them to one view of the run, and that  *)
(* parties who fit and whom nothing fails end without an error.            *)
(*                                                                         *)
(* A tag is made when its party has its key and is never made again, and   *)
(* the line makes no tags: whoever sees the tag of a key sees the key the  *)
(* other party has.  TagsTrue says so of the tags in every block and in    *)
(* the line, ConfirmInv carries it to the end of the run.                  *)
(***************************************************************************)
EXTENDS MCBake, SequenceTheorems, FiniteSetTheorems, TLAPS

(* The labels a party passes before it has its key.                        *)
Early(p) ==
  IF p = "A" THEN {"start", "read3", "step3"}
             ELSE {"start", "step2", "write2", "read4", "step4"}

(* The one-time key of B is drawn before M2 is looked at.                  *)
DrawnInv ==
  pc["B"] \in {"write2", "read4", "step4"} => u["B"] \in Points

TypeInv == TypeOK /\ DrawnInv

TagTrue(t) ==
  /\ t.kind = "Ta" => t.of = key["A"] /\ pc["A"] \notin Early("A")
  /\ t.kind = "Tb" => t.of = key["B"] /\ pc["B"] \notin Early("B")

TagsTrue ==
  \A p \in Parties :
    /\ TagTrue(in[p].tag)
    /\ TagTrue(out[p].tag)
    /\ \A i \in 1 .. Len(file[p]) : TagTrue(file[p][i].tag)

(* A party past its derivation that has not failed has a key, and the key  *)
(* is made of what the party was given.                                    *)
KeyInv ==
  \A p \in Parties :
    /\ result[p] = "ok" => pc[p] = "end"
    /\ pc[p] \notin Early(p) \cup {"end"} \/ result[p] = "ok" =>
         key[p] # NoKey
    /\ \/ key[p] = NoKey
       \/ /\ key[p].qa = (IF p = "A" THEN conf[p].own ELSE conf[p].peer)
          /\ key[p].qb = (IF p = "B" THEN conf[p].own ELSE conf[p].peer)
          /\ key[p].hello = conf[p].hello

(* The labels at which a party has checked the tag it is owed.             *)
Checked(p) == IF p = "A" THEN {"stepG"} ELSE {"write4", "stepG"}

ConfirmInv ==
  \A p \in Due :
    pc[p] \in Checked(p) \/ result[p] = "ok" =>
      /\ key[p] = key[Other(p)]
      /\ pc[Other(p)] \notin Early(Other(p))

SafeInv == TagsTrue /\ KeyInv /\ ConfirmInv
-----------------------------------------------------------------------------
LEMMA OnePoint == 1 \in Points /\ Q \in Nat /\ Q >= 2
BY BMQVAssumption DEF Points

(* A shared point has an x-coordinate.                                     *)
LEMMA SharedXType ==
  ASSUME NEW s \in 0 .. Q - 1, NEW m \in 0 .. Q - 1, m = 0 \/ s # 0
  PROVE  SharedX(s, m) \in Xs
<1>1. CASE m = 0
  BY <1>1, OnePoint DEF SharedX, Xs
<1>2. CASE m # 0
  <2>1. s \in Points /\ m \in Points
    BY <1>2, OnePoint DEF Points
  <2>2. (s * m) % Q # 0
    BY <2>1, BMQVAssumption
  <2>3. (s * m) % Q \in 0 .. Q - 1
    BY <2>1, OnePoint DEF Points
  <2>4. (s * m) % Q \in Points
    BY <2>2, <2>3, OnePoint DEF Points
  <2> QED
    BY <1>2, <2>4 DEF SharedX, Xs
<1> QED
  BY <1>1, <1>2

(* What is derived from a point and given data is a key or none.           *)
LEMMA DeriveType ==
  ASSUME TypeOK, NEW p \in Parties, NEW k \in Points, in[p].v \in Points
  PROVE  /\ Derive(p, k) \in Keys \cup {NoKey}
         /\ \/ Derive(p, k) = NoKey
            \/ /\ Derive(p, k).qa = (IF p = "A" THEN conf[p].own
                                                ELSE conf[p].peer)
               /\ Derive(p, k).qb = (IF p = "B" THEN conf[p].own
                                                ELSE conf[p].peer)
               /\ Derive(p, k).hello = conf[p].hello
<1> DEFINE v == in[p].v
           c == Factor(p, k, v)
           s == Scalar(c, k, conf[p].d)
           m == PeerPoint(c, v, conf[p].peer)
<1>1. conf[p] \in Confs
  BY DEF TypeOK
<1>2. conf[p].d \in Points /\ conf[p].own \in Points /\ conf[p].peer \in Points
      /\ conf[p].hello \in Hellos
  BY <1>1, BMQVAssumption DEF Confs
<1>3. X(k) \in Xs /\ X(v) \in Xs
  BY DEF Xs
<1>4. c \in Int
  <2>1. ASSUME NEW x \in Xs, NEW y \in Xs
        PROVE  HashT[<<x, y>>] \in 0 .. TwoL - 1
    BY BMQVAssumption
  <2>2. HashT[<<X(k), X(v)>>] \in 0 .. TwoL - 1 /\ HashT[<<X(v), X(k)>>] \in 0 .. TwoL - 1
    BY <1>3, <2>1
  <2> QED
    BY <2>2, BMQVAssumption DEF Factor
<1>5. s \in 0 .. Q - 1
  <2>1. k - c * conf[p].d \in Int
    BY <1>2, <1>4, OnePoint DEF Points
  <2> QED
    BY <2>1, OnePoint DEF Scalar
<1>6. m \in 0 .. Q - 1
  <2>1. v - c * conf[p].peer \in Int
    BY <1>2, <1>4, OnePoint DEF Points
  <2> QED
    BY <2>1, OnePoint DEF PeerPoint
<1>7. CASE m # 0 /\ s = 0
  BY <1>7 DEF Derive
<1>8. CASE ~ (m # 0 /\ s = 0)
  <2>1. Derive(p, k) = KeyOf(p, SharedX(s, m))
    BY <1>8 DEF Derive
  <2>2. SharedX(s, m) \in Xs
    BY <1>5, <1>6, <1>8, SharedXType
  <2> QED
    BY <2>1, <2>2, <1>2 DEF KeyOf, Keys
<1> QED
  BY <1>7, <1>8
-----------------------------------------------------------------------------
LEMMA TagTypes == NoMsg \in Msgs /\ NoTag \in Tags /\ Noise \in Tags
BY DEF NoMsg, Msg, Msgs, NoTag, Noise, Tag, Tags

LEMMA KeyTags ==
  ASSUME NEW K \in Keys \cup {NoKey}, NEW kind \in {"Ta", "Tb"}
  PROVE  Tag(kind, K) \in Tags
BY DEF Tag, Tags

LEMMA MsgType ==
  ASSUME NEW v \in {0} \cup Points, NEW t \in Tags
  PROVE  Msg(v, t) \in Msgs
BY DEF Msg, Msgs

(* What the line makes of a message is a message.                          *)
LEMMA SpoiledType ==
  ASSUME NEW m \in Msgs
  PROVE  Spoiled(m) \subseteq Msgs
BY TagTypes, OnePoint DEF Spoiled, Msg, Msgs, Points

(* The places a run may be at, and the parties.                            *)
LEMMA Places ==
  /\ Parties = {"A", "B"}
  /\ Other("A") = "B" /\ Other("B") = "A"
  /\ \A p \in Parties : Other(p) \in Parties /\ Other(p) # p
BY DEF Parties, Other

LEMMA TypeInvariant == Spec => []TypeInv
<1>1. Init => TypeInv
  <2> SUFFICES ASSUME Init
               PROVE  TypeInv
    OBVIOUS
  <2>1. conf \in [Parties -> Confs]
    BY BMQVAssumption DEF Init, Confs
  <2>2. /\ pc \in [Parties -> Labels("A") \cup Labels("B")]
        /\ \A p \in Parties : pc[p] \in Labels(p)
    BY DEF Init, Labels
  <2>3. /\ u \in [Parties -> {0} \cup Points]
        /\ key \in [Parties -> Keys \cup {NoKey}]
        /\ result \in [Parties -> Codes]
        /\ faults \in 0 .. MaxFaults
    BY BMQVAssumption DEF Init, Codes
  <2>4. out \in [Parties -> Msgs] /\ in \in [Parties -> Msgs]
    BY TagTypes DEF Init
  <2>5. file \in [Parties -> Seq(Msgs)]
    BY DEF Init
  <2>6. DrawnInv
    BY Places DEF Init, DrawnInv
  <2> QED
    BY <2>1, <2>2, <2>3, <2>4, <2>5, <2>6 DEF TypeInv, TypeOK
<1>2. TypeInv /\ [Next]_bmqvVars => TypeInv'
  <2> SUFFICES ASSUME TypeInv, [Next]_bmqvVars
               PROVE  TypeInv'
    OBVIOUS
  <2> USE BMQVAssumption, Places DEF TypeInv, TypeOK, DrawnInv
  <2>1. ASSUME NEW p \in Parties, Start(p)
        PROVE  TypeInv'
    BY <2>1 DEF Start, At, Goto, End, Fault, AfterStart, Labels, Codes
  <2>2. ASSUME Step2
        PROVE  TypeInv'
    <3>1. ASSUME NEW k \in Points
          PROVE  Msg(k, NoTag) \in Msgs
      BY TagTypes, MsgType
    <3> QED
      BY <2>2, <3>1 DEF Step2, At, Goto, End, Fault, Labels, Codes
  <2>3. ASSUME NEW p \in Parties, Write(p)
        PROVE  TypeInv'
    <3> DEFINE s == Append(file[Other(p)], out[p])
    <3>1. s \in Seq(Msgs)
      <4>1. Other(p) \in Parties
        OBVIOUS
      <4>2. file[Other(p)] \in Seq(Msgs) /\ out[p] \in Msgs
        BY <4>1
      <4> QED
        BY <4>2, AppendProperties
    <3>2. file' \in [Parties -> Seq(Msgs)]
      <4>1. file' = file \/ file' = [file EXCEPT ![Other(p)] = s]
        BY <2>3 DEF Write
      <4> HIDE DEF s
      <4> QED
        BY <3>1, <4>1
    <3>3. AfterWrite(p) \in Labels(p) \ {"write2", "step4"}
          /\ (p = "B" /\ AfterWrite(p) = "read4" => pc[p] = "write2")
      BY <2>3 DEF Write, AfterWrite, At, Labels
    <3>4. /\ pc' \in [Parties -> Labels("A") \cup Labels("B")]
          /\ \A r \in Parties : pc'[r] \in Labels(r)
          /\ result' \in [Parties -> Codes]
          /\ faults' \in 0 .. MaxFaults
      BY <2>3, <3>3 DEF Write, Goto, End, Fault, Labels, Codes
    <3>5. DrawnInv'
      BY <2>3, <3>3 DEF Write, Goto, End
    <3> QED
      BY <2>3, <3>2, <3>4, <3>5 DEF Write
  <2>4. ASSUME NEW p \in Parties, Read(p)
        PROVE  TypeInv'
    <3>1. file[p] \in Seq(Msgs) /\ file[p] # <<>>
      BY <2>4 DEF Read, Complete
    <3>2. Head(file[p]) \in Msgs /\ Tail(file[p]) \in Seq(Msgs)
      BY <3>1
    <3>3. in' \in [Parties -> Msgs] /\ faults' \in 0 .. MaxFaults
      BY <2>4, <3>2, SpoiledType DEF Read, Fault
    <3>4. AfterRead(p) \in Labels(p)
          /\ (p = "B" => pc[p] = "read4" /\ AfterRead(p) = "step4")
      BY <2>4 DEF Read, Reading, AfterRead, At, Labels
    <3>5. /\ pc' \in [Parties -> Labels("A") \cup Labels("B")]
          /\ \A r \in Parties : pc'[r] \in Labels(r)
          /\ DrawnInv'
      BY <2>4, <3>4 DEF Read, Goto
    <3> QED
      BY <2>4, <3>2, <3>3, <3>5 DEF Read, Goto
  <2>5. ASSUME NEW p \in Parties, ReadFails(p)
        PROVE  TypeInv'
    BY <2>5 DEF ReadFails, End, Fault, Labels, Codes
  <2>6. ASSUME Step3
        PROVE  TypeInv'
    <3>1. ASSUME in["A"].v # 0, NEW k \in Points
          PROVE  /\ Derive("A", k) \in Keys \cup {NoKey}
                 /\ Msg(k, IF conf["A"].kca THEN Tag("Ta", Derive("A", k))
                                            ELSE NoTag) \in Msgs
      <4>1. in["A"].v \in Points
        BY <3>1 DEF Msgs
      <4>2. Derive("A", k) \in Keys \cup {NoKey}
        BY <4>1, DeriveType
      <4> QED
        BY <4>2, KeyTags, TagTypes, MsgType
    <3>2. /\ pc' \in [Parties -> Labels("A") \cup Labels("B")]
          /\ \A r \in Parties : pc'[r] \in Labels(r)
          /\ result' \in [Parties -> Codes]
          /\ faults' \in 0 .. MaxFaults
      BY <2>6 DEF Step3, InputBad, At, Goto, End, Fault, Labels, Codes
    <3>3. /\ u' \in [Parties -> {0} \cup Points]
          /\ key' \in [Parties -> Keys \cup {NoKey}]
          /\ out' \in [Parties -> Msgs]
      BY <2>6, <3>1 DEF Step3
    <3>4. pc'["B"] = pc["B"] /\ u'["B"] = u["B"]
      BY <2>6 DEF Step3, InputBad, Goto, End
    <3> QED
      BY <2>6, <3>2, <3>3, <3>4 DEF Step3
  <2>7. ASSUME Step4
        PROVE  TypeInv'
    <3> DEFINE K == Derive("B", u["B"])
    <3>1. ASSUME in["B"].v # 0
          PROVE  K \in Keys \cup {NoKey} /\ Msg(0, Tag("Tb", K)) \in Msgs
      <4>1. in["B"].v \in Points /\ u["B"] \in Points
        BY <2>7, <3>1 DEF Step4, At, Msgs
      <4>2. K \in Keys \cup {NoKey}
        BY <4>1, DeriveType
      <4> QED
        BY <4>2, KeyTags, MsgType
    <3>2. /\ pc' \in [Parties -> Labels("A") \cup Labels("B")]
          /\ \A r \in Parties : pc'[r] \in Labels(r)
          /\ result' \in [Parties -> Codes]
          /\ faults' \in 0 .. MaxFaults
      BY <2>7 DEF Step4, InputBad, At, Goto, End, Fault, Labels, Codes
    <3>3. /\ key' \in [Parties -> Keys \cup {NoKey}]
          /\ out' \in [Parties -> Msgs]
      BY <2>7, <3>1 DEF Step4
    <3>4. pc'["B"] \in {"end", "write4", "stepG"}
      BY <2>7 DEF Step4, InputBad, Goto, End
    <3> QED
      BY <2>7, <3>2, <3>3, <3>4 DEF Step4
  <2>8. ASSUME Step5
        PROVE  TypeInv'
    BY <2>8 DEF Step5, At, Goto, End, Labels, Codes
  <2>9. ASSUME NEW p \in Parties, StepG(p)
        PROVE  TypeInv'
    BY <2>9 DEF StepG, At, End, Labels, Codes
  <2>10. CASE UNCHANGED bmqvVars
    BY <2>10 DEF bmqvVars
  <2> QED
    BY <2>1, <2>2, <2>3, <2>4, <2>5, <2>6, <2>7, <2>8, <2>9, <2>10
       DEF Next, Step
<1> QED
  BY <1>1, <1>2, PTL DEF Spec

(* Every variable of the protocol keeps its range.                         *)
THEOREM TypeCorrect == Spec => []TypeOK
<1>1. TypeInv => TypeOK
  BY DEF TypeInv
<1> QED
  BY <1>1, TypeInvariant, PTL
-----------------------------------------------------------------------------
(* A party that has its key keeps it and never goes back.                  *)
LEMMA KeyKept ==
  ASSUME TypeOK, Next, NEW p \in Parties, pc[p] \notin Early(p)
  PROVE  pc'[p] \notin Early(p) /\ key'[p] = key[p]
<1> USE Places DEF TypeOK, Early, At, Goto, End
<1>1. ASSUME NEW r \in Parties, Start(r) \/ ReadFails(r) \/ StepG(r)
      PROVE  pc'[p] \notin Early(p) /\ key'[p] = key[p]
  BY <1>1 DEF Start, ReadFails, Reading, StepG, AfterStart
<1>2. ASSUME NEW r \in Parties, Write(r)
      PROVE  pc'[p] \notin Early(p) /\ key'[p] = key[p]
  BY <1>2 DEF Write, AfterWrite, Labels
<1>3. ASSUME NEW r \in Parties, Read(r)
      PROVE  pc'[p] \notin Early(p) /\ key'[p] = key[p]
  BY <1>3 DEF Read, Reading, AfterRead, Labels
<1>4. CASE Step2 \/ Step5
  BY <1>4 DEF Step2, Step5
<1>5. CASE Step3
  BY <1>5 DEF Step3, InputBad
<1>6. CASE Step4
  BY <1>6 DEF Step4, InputBad
<1> QED
  BY <1>1, <1>2, <1>3, <1>4, <1>5, <1>6 DEF Next, Step

(* A tag that is true stays true.                                          *)
LEMMA TagKept ==
  ASSUME TypeOK, Next, NEW t, TagTrue(t)
  PROVE  TagTrue(t)'
BY KeyKept, Places DEF TagTrue

(* The line makes no tags.                                                 *)
LEMMA SpoiledTrue ==
  ASSUME NEW m, TagTrue(m.tag), NEW n \in Spoiled(m)
  PROVE  TagTrue(n.tag)
BY DEF Spoiled, Msg, TagTrue, Noise, Tag

(* Only the tags of the two parties are ever on their way.                 *)
LEMMA TagsStep ==
  ASSUME TypeOK, TagsTrue, Next
  PROVE  TagsTrue'
<1> USE Places
<1>1. ASSUME UNCHANGED <<out, in, file>>
      PROVE  TagsTrue'
  <2> SUFFICES ASSUME NEW p \in Parties
               PROVE  /\ TagTrue(in[p].tag)'
                      /\ TagTrue(out[p].tag)'
                      /\ \A i \in 1 .. Len(file[p]) :
                           TagTrue(file[p][i].tag)'
    BY <1>1 DEF TagsTrue
  <2>1. in' = in /\ out' = out /\ file' = file
    BY <1>1
  <2>2. ASSUME NEW t, TagTrue(t)
        PROVE  TagTrue(t)'
    BY <2>2, TagKept
  <2> QED
    BY <2>1, <2>2 DEF TagsTrue, TagTrue
<1>2. ASSUME NEW p \in Parties, Write(p)
      PROVE  TagsTrue'
  <2>1. ASSUME NEW r \in Parties
        PROVE  /\ TagTrue(in[r].tag) /\ TagTrue(out[r].tag)
               /\ \A i \in 1 .. Len(file'[r]) : TagTrue(file'[r][i].tag)
    <3>1. file' = file
          \/ file' = [file EXCEPT ![Other(p)] = Append(@, out[p])]
      BY <1>2 DEF Write
    <3>2. \A q \in Parties : file[q] \in Seq(Msgs) /\ out[q] \in Msgs
      BY DEF TypeOK
    <3>3. CASE file' = [file EXCEPT ![Other(p)] = Append(@, out[p])]
      <4>1. CASE r = Other(p)
        <5>1. file'[r] = Append(file[r], out[p])
          BY <3>3, <4>1 DEF TypeOK
        <5>2. /\ Len(file'[r]) = Len(file[r]) + 1
              /\ \A i \in 1 .. Len(file[r]) : file'[r][i] = file[r][i]
              /\ file'[r][Len(file[r]) + 1] = out[p]
          BY <5>1, <3>2
        <5>3. Len(file[r]) \in Nat
          BY <3>2
        <5>4. ASSUME NEW i \in 1 .. Len(file'[r])
              PROVE  TagTrue(file'[r][i].tag)
          <6>1. CASE i \in 1 .. Len(file[r])
            BY <5>2, <6>1 DEF TagsTrue
          <6>2. CASE i = Len(file[r]) + 1
            BY <5>2, <6>2 DEF TagsTrue
          <6> QED
            BY <5>2, <5>3, <5>4, <6>1, <6>2
        <5> QED
          BY <5>4 DEF TagsTrue
      <4>2. CASE r # Other(p)
        BY <3>3, <4>2 DEF TagsTrue, TypeOK
      <4> QED
        BY <4>1, <4>2
    <3> QED
      BY <3>1, <3>3 DEF TagsTrue
  <2>2. in' = in /\ out' = out
    BY <1>2 DEF Write
  <2>3. ASSUME NEW t, TagTrue(t)
        PROVE  TagTrue(t)'
    BY <2>3, TagKept
  <2> QED
    BY <2>1, <2>2, <2>3 DEF TagsTrue, TagTrue
<1>3. ASSUME NEW p \in Parties, Read(p)
      PROVE  TagsTrue'
  <2>1. /\ file[p] \in Seq(Msgs) /\ file[p] # <<>>
        /\ file' = [file EXCEPT ![p] = Tail(@)]
        /\ out' = out
    BY <1>3 DEF Read, Complete, TypeOK
  <2>2. TagTrue(Head(file[p]).tag)
    BY <2>1 DEF TagsTrue
  <2>3. ASSUME NEW r \in Parties
        PROVE  TagTrue(in'[r].tag)
    <3>1. CASE in' = [in EXCEPT ![p] = Head(file[p])]
      BY <3>1, <2>2 DEF TagsTrue, TypeOK
    <3>2. ASSUME NEW m \in Spoiled(Head(file[p])),
                 in' = [in EXCEPT ![p] = m]
          PROVE  TagTrue(in'[r].tag)
      <4>1. TagTrue(m.tag)
        BY <2>2, SpoiledTrue
      <4> QED
        BY <3>2, <4>1 DEF TagsTrue, TypeOK
    <3> QED
      BY <1>3, <3>1, <3>2 DEF Read
  <2>4. ASSUME NEW r \in Parties
        PROVE  \A i \in 1 .. Len(file'[r]) : TagTrue(file'[r][i].tag)
    <3>1. CASE r = p
      <4>1. /\ file'[r] = Tail(file[p]) /\ Len(file[p]) \in Nat
            /\ Len(file'[r]) = Len(file[p]) - 1
            /\ \A i \in 1 .. Len(file[p]) - 1 : file'[r][i] = file[p][i + 1]
        BY <2>1, <3>1 DEF TypeOK
      <4> QED
        BY <4>1 DEF TagsTrue
    <3>2. CASE r # p
      BY <2>1, <3>2 DEF TagsTrue, TypeOK
    <3> QED
      BY <3>1, <3>2
  <2>5. ASSUME NEW t, TagTrue(t)
        PROVE  TagTrue(t)'
    BY <2>5, TagKept
  <2> QED
    BY <2>1, <2>3, <2>4, <2>5, SMTT(40) DEF TagsTrue, TagTrue
<1>4. ASSUME NEW p \in Parties, UNCHANGED <<in, file>>,
             out' = out \/ \E m : /\ out' = [out EXCEPT ![p] = m]
                                  /\ TagTrue(m.tag)'
      PROVE  TagsTrue'
  <2>1. ASSUME NEW t, TagTrue(t)
        PROVE  TagTrue(t)'
    BY <2>1, TagKept
  <2>2. CASE out' = out
    BY <1>1, <1>4, <2>2
  <2>3. ASSUME NEW m, out' = [out EXCEPT ![p] = m], TagTrue(m.tag)'
        PROVE  TagsTrue'
    <3>1. ASSUME NEW r \in Parties
          PROVE  out'[r] = (IF r = p THEN m ELSE out[r])
      BY <2>3 DEF TypeOK
    <3>2. in' = in /\ file' = file
      BY <1>4
    <3> QED
      BY <2>1, <2>3, <3>1, <3>2 DEF TagsTrue, TagTrue
  <2> QED
    BY <1>4, <2>2, <2>3
<1>5. CASE Step2
  <2>1. ASSUME NEW k
        PROVE  TagTrue(Msg(k, NoTag).tag)'
    BY DEF TagTrue, Msg, NoTag, Tag
  <2> QED
    BY <1>4, <1>5, <2>1 DEF Step2
<1>6. CASE Step3
  <2>1. ASSUME NEW k, NEW K, key' = [key EXCEPT !["A"] = K],
               Goto("A", "write3")
        PROVE  TagTrue(Msg(k, IF conf["A"].kca THEN Tag("Ta", K)
                                               ELSE NoTag).tag)'
    BY <1>6, <2>1 DEF TagTrue, Msg, NoTag, Tag, Early, Goto, TypeOK, Step3
  <2> QED
    BY <1>4, <1>6, <2>1 DEF Step3
<1>7. CASE Step4
  <2>1. ASSUME NEW K, key' = [key EXCEPT !["B"] = K],
               Goto("B", "write4")
        PROVE  TagTrue(Msg(0, Tag("Tb", K)).tag)'
    BY <2>1 DEF TagTrue, Msg, Tag, Early, Goto, TypeOK
  <2> QED
    BY <1>4, <1>7, <2>1 DEF Step4
<1>8. ASSUME NEW p \in Parties, Start(p) \/ ReadFails(p) \/ StepG(p) \/ Step5
      PROVE  TagsTrue'
  BY <1>1, <1>8 DEF Start, ReadFails, StepG, Step5
<1> QED
  BY <1>2, <1>3, <1>5, <1>6, <1>7, <1>8 DEF Next, Step
-----------------------------------------------------------------------------
(* A party that has not failed has the key of its own view.                *)
LEMMA KeyStep ==
  ASSUME TypeInv, KeyInv, Next
  PROVE  KeyInv'
<1> USE Places DEF TypeInv, TypeOK, KeyInv, Early, Goto, End, At
<1>1. ASSUME NEW p \in Parties, Start(p) \/ ReadFails(p) \/ StepG(p)
      PROVE  KeyInv'
  BY <1>1 DEF Start, AfterStart, ReadFails, StepG
<1>2. ASSUME NEW p \in Parties, Write(p)
      PROVE  KeyInv'
  BY <1>2 DEF Write, AfterWrite, Labels
<1>3. ASSUME NEW p \in Parties, Read(p)
      PROVE  KeyInv'
  BY <1>3 DEF Read, Reading, AfterRead, Labels
<1>4. CASE Step2 \/ Step5
  BY <1>4 DEF Step2, Step5
<1>5. CASE Step3
  <2>1. CASE UNCHANGED key /\ (InputBad("A") \/ End("A", "ERR_BAD_RNG"))
    BY <1>5, <2>1 DEF Step3, InputBad
  <2>2. ASSUME in["A"].v # 0, NEW k \in Points,
               key' = [key EXCEPT !["A"] = Derive("A", k)],
               IF Derive("A", k) = NoKey THEN End("A", "ERR_BAD_PARAMS")
                                         ELSE Goto("A", "write3")
        PROVE  KeyInv'
    <3>1. in["A"].v \in Points
      BY <2>2 DEF Msgs
    <3>2. conf' = conf
      BY <1>5 DEF Step3
    <3> DEFINE K == Derive("A", k)
    <3>3. \/ K = NoKey
          \/ /\ K.qa = conf["A"].own /\ K.qb = conf["A"].peer
             /\ K.hello = conf["A"].hello
      BY <3>1, DeriveType
    <3>4. /\ key'["A"] = K /\ key'["B"] = key["B"]
          /\ result'["A"] # "ok" /\ result'["B"] = result["B"]
          /\ pc'["B"] = pc["B"]
          /\ pc'["A"] = "end" \/ K # NoKey
      BY <1>5, <2>2 DEF Step3
    <3> HIDE DEF K
    <3> QED
      BY <3>2, <3>3, <3>4
  <2> QED
    BY <1>5, <2>1, <2>2 DEF Step3
<1>6. CASE Step4
  <2>1. CASE InputBad("B") /\ UNCHANGED key
    BY <1>6, <2>1 DEF Step4, InputBad
  <2>2. ASSUME in["B"].v # 0,
               key' = [key EXCEPT !["B"] = Derive("B", u["B"])],
               \/ End("B", "ERR_BAD_PARAMS")
               \/ End("B", "ERR_AUTH")
               \/ Derive("B", u["B"]) # NoKey /\ Goto("B", "write4")
               \/ Derive("B", u["B"]) # NoKey /\ Goto("B", "stepG")
        PROVE  KeyInv'
    <3>1. in["B"].v \in Points /\ u["B"] \in Points
      BY <1>6, <2>2 DEF Step4, Msgs, DrawnInv
    <3>2. conf' = conf
      BY <1>6 DEF Step4
    <3> DEFINE K == Derive("B", u["B"])
    <3>3. \/ K = NoKey
          \/ /\ K.qa = conf["B"].peer /\ K.qb = conf["B"].own
             /\ K.hello = conf["B"].hello
      BY <3>1, DeriveType
    <3>4. /\ key'["B"] = K /\ key'["A"] = key["A"]
          /\ result'["B"] # "ok" /\ result'["A"] = result["A"]
          /\ pc'["A"] = pc["A"]
          /\ pc'["B"] = "end" \/ K # NoKey
      BY <1>6, <2>2 DEF Step4
    <3> HIDE DEF K
    <3> QED
      BY <3>2, <3>3, <3>4
  <2> QED
    BY <1>6, <2>1, <2>2 DEF Step4
<1> QED
  BY <1>1, <1>2, <1>3, <1>4, <1>5, <1>6 DEF Next, Step

(* A party owed a tag is past its check only when the other one has built  *)
(* the same key.                                                           *)
LEMMA ConfirmStep ==
  ASSUME TypeInv, SafeInv, Next
  PROVE  ConfirmInv'
<1> SUFFICES ASSUME NEW p \in Parties, p \in Due',
                    pc'[p] \in Checked(p) \/ result'[p] = "ok"
             PROVE  /\ key'[p] = key'[Other(p)]
                    /\ pc'[Other(p)] \notin Early(Other(p))
  BY DEF ConfirmInv, Due
<1>1. p \in Due
  <2>1. conf' = conf
    BY DEF Next, Step, Start, Step2, Write, Read, ReadFails, Step3, Step4,
           Step5, StepG
  <2> QED
    BY <2>1 DEF Due
<1>2. CASE pc[p] \in Checked(p) \/ result[p] = "ok"
  <2>1. /\ key[p] = key[Other(p)]
        /\ pc[Other(p)] \notin Early(Other(p))
    BY <1>1, <1>2 DEF SafeInv, ConfirmInv
  <2>2. pc[p] \notin Early(p) \/ pc[p] = "end"
    BY <1>2, Places DEF Checked, Early, SafeInv, KeyInv
  <2>3. pc[p] \notin Early(p)
    BY <2>2, Places DEF Early
  <2> QED
    BY <2>1, <2>3, KeyKept, Places DEF TypeInv
<1>3. CASE ~ (pc[p] \in Checked(p) \/ result[p] = "ok")
  <2> USE Places DEF TypeInv, TypeOK, Checked, At, Goto, End
  <2>1. CASE p = "A"
    <3>1. Step5 /\ TagOK("A", "Tb", key["A"])
      <4>1. ASSUME NEW r \in Parties,
                   Start(r) \/ ReadFails(r) \/ StepG(r) \/ Read(r)
            PROVE  FALSE
        BY <1>3, <2>1, <4>1 DEF Start, AfterStart, ReadFails, StepG, Read,
             AfterRead, Reading
      <4>2. ASSUME NEW r \in Parties, Write(r)
            PROVE  FALSE
        BY <1>1, <1>3, <2>1, <4>2 DEF Write, AfterWrite, Labels, Due
      <4>3. ~ Step2 /\ ~ Step3 /\ ~ Step4
        BY <1>3, <2>1 DEF Step2, Step3, Step4, InputBad
      <4>4. Step5
        BY <4>1, <4>2, <4>3 DEF Next, Step
      <4> QED
        BY <1>3, <2>1, <4>4 DEF Step5
    <3>2. in["A"].tag.kind = "Tb" /\ in["A"].tag.of = key["A"]
      BY <3>1 DEF TagOK, Tag
    <3>3. key["A"] = key["B"] /\ pc["B"] \notin Early("B")
      BY <3>2 DEF SafeInv, TagsTrue, TagTrue
    <3>4. key' = key /\ pc'["B"] = pc["B"]
      BY <3>1 DEF Step5
    <3> QED
      BY <2>1, <3>3, <3>4
  <2>2. CASE p = "B"
    <3>1. /\ Step4
          /\ key' = [key EXCEPT !["B"] = Derive("B", u["B"])]
          /\ TagOK("B", "Ta", Derive("B", u["B"]))
          /\ pc'["A"] = pc["A"]
      <4>1. ASSUME NEW r \in Parties,
                   \/ Start(r) \/ ReadFails(r) \/ StepG(r) \/ Read(r)
                   \/ Write(r)
            PROVE  FALSE
        BY <1>3, <2>2, <4>1 DEF Start, AfterStart, ReadFails, StepG, Read,
             AfterRead, Reading, Write, AfterWrite, Labels
      <4>2. ~ Step2 /\ ~ Step3 /\ ~ Step5
        BY <1>3, <2>2 DEF Step2, Step3, Step5, InputBad
      <4>3. Step4
        BY <4>1, <4>2 DEF Next, Step
      <4>4. conf["B"].kca
        BY <1>1, <2>2 DEF Due
      <4> QED
        BY <1>3, <2>2, <4>3, <4>4 DEF Step4, InputBad
    <3>2. in["B"].tag.kind = "Ta" /\ in["B"].tag.of = Derive("B", u["B"])
      BY <3>1 DEF TagOK, Tag
    <3>3. Derive("B", u["B"]) = key["A"] /\ pc["A"] \notin Early("A")
      BY <3>2 DEF SafeInv, TagsTrue, TagTrue
    <3>4. key'["B"] = key["A"] /\ key'["A"] = key["A"]
      BY <3>1, <3>3
    <3> QED
      BY <2>2, <3>1, <3>3, <3>4
  <2> QED
    BY <2>1, <2>2
<1> QED
  BY <1>2, <1>3

LEMMA SafeInit == Init => SafeInv
<1> SUFFICES ASSUME Init
             PROVE  SafeInv
  OBVIOUS
<1>1. TagsTrue
  BY DEF Init, TagsTrue, TagTrue, NoMsg, Msg, NoTag, Tag
<1>2. KeyInv
  BY Places DEF Init, KeyInv, Early
<1>3. ConfirmInv
  BY Places DEF Init, ConfirmInv, Due, Checked
<1> QED
  BY <1>1, <1>2, <1>3 DEF SafeInv

LEMMA SafeInvariant == Spec => []SafeInv
<1>1. TypeInv /\ TypeInv' /\ SafeInv /\ [Next]_bmqvVars => SafeInv'
  <2>1. CASE Next
    BY <2>1, TagsStep, KeyStep, ConfirmStep DEF SafeInv, TypeInv
  <2>2. CASE UNCHANGED bmqvVars
    BY <2>2 DEF bmqvVars, SafeInv, TagsTrue, TagTrue, KeyInv, ConfirmInv, Due
  <2> QED
    BY <2>1, <2>2
<1> QED
  BY <1>1, SafeInit, TypeInvariant, PTL DEF Spec

(* A run that was owed a tag and returns ERR_OK has the key of the other   *)
(* party.                                                                  *)
THEOREM ConfirmedCorrect == Spec => []Confirmed
<1>1. SafeInv => Confirmed
  BY DEF SafeInv, ConfirmInv, Confirmed
<1> QED
  BY <1>1, SafeInvariant, PTL

(* Both then have the same certificates and hello messages.                *)
THEOREM SameViewCorrect == Spec => []SameView
<1>1. SafeInv => SameView
  <2> SUFFICES ASSUME SafeInv, NEW p \in Due, result[p] = "ok"
               PROVE  /\ conf[p].own = conf[Other(p)].peer
                      /\ conf[p].peer = conf[Other(p)].own
                      /\ conf[p].hello = conf[Other(p)].hello
    BY DEF SameView
  <2>1. p \in Parties /\ p \in {"A", "B"}
    BY Places DEF Due
  <2>2. key[p] = key[Other(p)] /\ key[p] # NoKey
    BY <2>1 DEF SafeInv, ConfirmInv, KeyInv
  <2> QED
    BY <2>1, <2>2, Places DEF SafeInv, KeyInv
<1> QED
  BY <1>1, SafeInvariant, PTL
-----------------------------------------------------------------------------
(* A run that has not ended has returned nothing, and a party has no key   *)
(* before its derivation.                                                  *)
RunInv ==
  \A p \in Parties :
    /\ pc[p] # "end" => result[p] = "running"
    /\ pc[p] \in Early(p) => key[p] = NoKey

(* A party moves on, or ends with a code, and the keys stay.               *)
LEMMA RunMoves ==
  ASSUME TypeOK, RunInv, NEW p \in Parties, pc[p] # "end", key' = key,
         NEW l, l \in Early(p) => pc[p] \in Early(p),
         pc' = [pc EXCEPT ![p] = l],
         \/ result' = result
         \/ l = "end" /\ \E c : result' = [result EXCEPT ![p] = c]
  PROVE  RunInv'
<1> SUFFICES ASSUME NEW q \in Parties
             PROVE  /\ pc'[q] # "end" => result'[q] = "running"
                    /\ pc'[q] \in Early(q) => key'[q] = NoKey
  BY DEF RunInv
<1>1. /\ pc[q] # "end" => result[q] = "running"
      /\ pc[q] \in Early(q) => key[q] = NoKey
  BY DEF RunInv
<1>2. pc \in [Parties -> Labels("A") \cup Labels("B")]
      /\ result \in [Parties -> Codes]
  BY DEF TypeOK
<1>3. CASE q = p
  <2>1. pc'[q] = l
    BY <1>2, <1>3
  <2> QED
    BY <1>1, <1>2, <1>3, <2>1
<1>4. CASE q # p
  BY <1>1, <1>2, <1>4
<1> QED
  BY <1>3, <1>4

LEMMA RunStep ==
  ASSUME TypeInv, RunInv, Next
  PROVE  RunInv'
<1> USE Places DEF Goto, End, At
<1>0. TypeOK
  BY DEF TypeInv
<1>1. ASSUME NEW p \in Parties, Start(p) \/ ReadFails(p) \/ StepG(p)
      PROVE  RunInv'
  <2>1. /\ pc[p] # "end" /\ key' = key
        /\ \E l \in {AfterStart(p), "end"} :
             /\ l \in Early(p) => pc[p] \in Early(p)
             /\ pc' = [pc EXCEPT ![p] = l]
             /\ \/ result' = result
                \/ l = "end" /\ \E c : result' = [result EXCEPT ![p] = c]
    BY <1>1 DEF Start, AfterStart, ReadFails, Reading, StepG, Early
  <2> QED
    BY <1>0, <2>1, RunMoves
<1>2. ASSUME NEW p \in Parties, Write(p)
      PROVE  RunInv'
  <2>1. /\ pc[p] # "end" /\ key' = key
        /\ \E l \in {AfterWrite(p), "end"} :
             /\ pc' = [pc EXCEPT ![p] = l]
             /\ \/ result' = result
                \/ l = "end" /\ \E c : result' = [result EXCEPT ![p] = c]
    BY <1>2 DEF Write
  <2>2. AfterWrite(p) \in Early(p) => pc[p] \in Early(p)
    BY <1>0, <1>2 DEF Write, AfterWrite, Early, TypeOK, Labels
  <2>3. "end" \notin Early(p)
    BY DEF Early
  <2> QED
    BY <1>0, <2>1, <2>2, <2>3, RunMoves
<1>3. ASSUME NEW p \in Parties, Read(p)
      PROVE  RunInv'
  <2>1. /\ pc[p] # "end" /\ key' = key /\ result' = result
        /\ pc' = [pc EXCEPT ![p] = AfterRead(p)]
    BY <1>3 DEF Read, Reading
  <2>2. AfterRead(p) \in Early(p) => pc[p] \in Early(p)
    BY <1>0, <1>3 DEF Read, Reading, AfterRead, Early, TypeOK, Labels
  <2> QED
    BY <1>0, <2>1, <2>2, RunMoves
<1>4. CASE Step2 \/ Step5
  <2>1. PICK p \in Parties, l \in {"write2", "stepG", "end"} :
          /\ pc[p] # "end" /\ key' = key
          /\ l \in Early(p) => pc[p] \in Early(p)
          /\ pc' = [pc EXCEPT ![p] = l]
          /\ \/ result' = result
             \/ l = "end" /\ \E c : result' = [result EXCEPT ![p] = c]
    BY <1>4 DEF Step2, Step5, Early
  <2> QED
    BY <1>0, <2>1, RunMoves
<1>5. CASE Step3
  <2>1. /\ pc["A"] = "step3"
        /\ \/ pc' = [pc EXCEPT !["A"] = "end"]
           \/ pc' = [pc EXCEPT !["A"] = "write3"] /\ result' = result
        /\ \/ result' = result
           \/ \E c : result' = [result EXCEPT !["A"] = c]
        /\ key' = key \/ \E K : key' = [key EXCEPT !["A"] = K]
    BY <1>5 DEF Step3, InputBad
  <2>2. /\ pc \in [Parties -> Labels("A") \cup Labels("B")]
        /\ result \in [Parties -> Codes]
        /\ key \in [Parties -> Keys \cup {NoKey}]
    BY <1>0 DEF TypeOK
  <2>3. /\ pc'["B"] = pc["B"] /\ result'["B"] = result["B"]
        /\ key'["B"] = key["B"]
    BY <2>1, <2>2
  <2>4. /\ pc'["A"] # "end" => result'["A"] = result["A"]
        /\ pc'["A"] \in {"end", "write3"}
    BY <2>1, <2>2
  <2>5. pc'["A"] \notin Early("A")
    BY <2>4 DEF Early
  <2>6. result["A"] = "running"
    BY <2>1 DEF RunInv
  <2> QED
    BY <2>3, <2>4, <2>5, <2>6 DEF RunInv
<1>6. CASE Step4
  <2>1. /\ pc["B"] = "step4"
        /\ \/ pc' = [pc EXCEPT !["B"] = "end"]
           \/ /\ \E l \in {"write4", "stepG"} : pc' = [pc EXCEPT !["B"] = l]
              /\ result' = result
        /\ \/ result' = result
           \/ \E c : result' = [result EXCEPT !["B"] = c]
        /\ key' = key \/ \E K : key' = [key EXCEPT !["B"] = K]
    BY <1>6 DEF Step4, InputBad
  <2>2. /\ pc \in [Parties -> Labels("A") \cup Labels("B")]
        /\ result \in [Parties -> Codes]
        /\ key \in [Parties -> Keys \cup {NoKey}]
    BY <1>0 DEF TypeOK
  <2>3. /\ pc'["A"] = pc["A"] /\ result'["A"] = result["A"]
        /\ key'["A"] = key["A"]
    BY <2>1, <2>2
  <2>4. /\ pc'["B"] # "end" => result'["B"] = result["B"]
        /\ pc'["B"] \in {"end", "write4", "stepG"}
    BY <2>1, <2>2
  <2>5. pc'["B"] \notin Early("B")
    BY <2>4 DEF Early
  <2>6. result["B"] = "running"
    BY <2>1 DEF RunInv
  <2> QED
    BY <2>3, <2>4, <2>5, <2>6 DEF RunInv
<1> QED
  BY <1>1, <1>2, <1>3, <1>4, <1>5, <1>6 DEF Next, Step

LEMMA RunInvariant == Spec => []RunInv
<1>1. Init => RunInv
  BY Places DEF Init, RunInv
<1>2. TypeInv /\ RunInv /\ [Next]_bmqvVars => RunInv'
  <2>1. CASE UNCHANGED bmqvVars
    BY <2>1 DEF bmqvVars, RunInv
  <2> QED
    BY <2>1, RunStep
<1> QED
  BY <1>1, <1>2, TypeInvariant, PTL DEF Spec
-----------------------------------------------------------------------------
(* What the actions of KeyAgreement are here.  The settings never change.  *)
LEMMA DueKept ==
  ASSUME conf' = conf
  PROVE  Due' = Due
BY DEF Due

LEMMA FailMaps ==
  ASSUME TypeOK, UNCHANGED <<conf, key>>, NEW p \in Parties,
         result[p] = "running",
         NEW ret, ret \notin {"running", "ok"},
         result' = [result EXCEPT ![p] = ret]
  PROVE  Agreement!Fail(p)
BY DueKept DEF TypeOK, Agreement!Fail, Outcome

LEMMA FinishMaps ==
  ASSUME TypeOK, UNCHANGED <<conf, key>>, NEW p \in Parties,
         result[p] = "running", key[p] # NoKey,
         p \in Due => \A r \in Parties : key[r] = key[p],
         result' = [result EXCEPT ![p] = "ok"]
  PROVE  Agreement!Finish(p)
BY DueKept DEF TypeOK, Agreement!Finish, Outcome

LEMMA DeriveMaps ==
  ASSUME TypeOK, UNCHANGED conf, NEW p \in Parties,
         result[p] = "running", key[p] = NoKey,
         NEW K \in Keys, key' = [key EXCEPT ![p] = K],
         NEW ret, ret # "ok", result' = [result EXCEPT ![p] = ret]
  PROVE  Agreement!Derive(p)
BY DueKept DEF TypeOK, Agreement!Derive, Outcome

(* Every step of a run is a step of the agreement or changes nothing in it.*)
LEMMA StepMaps ==
  ASSUME TypeInv, SafeInv, RunInv, Next
  PROVE  [Agreement!Next]_Agreement!agreementVars
<1> DEFINE Goal == [Agreement!Next]_Agreement!agreementVars
<1> USE Places DEF Goto, End, At
<1>0. conf' = conf /\ TypeOK
  BY DEF TypeInv, Next, Step, Start, Step2, Write, Read, ReadFails, Step3,
         Step4, Step5, StepG
<1>1. ASSUME UNCHANGED <<key, result>>
      PROVE  Goal
  BY <1>0, <1>1, DueKept DEF Agreement!agreementVars, Outcome
<1>2. ASSUME NEW p \in Parties, pc[p] # "end", key' = key,
             NEW ret, ret \notin {"running", "ok"},
             result' = [result EXCEPT ![p] = ret]
      PROVE  Goal
  BY <1>0, <1>2, FailMaps DEF RunInv, Agreement!Next
<1>3. ASSUME NEW p \in Parties, pc[p] \in Early(p), pc[p] # "end",
             NEW K \in Keys, key' = [key EXCEPT ![p] = K],
             NEW ret, ret # "ok",
             result' = [result EXCEPT ![p] = ret]
      PROVE  Goal
  BY <1>0, <1>3, DeriveMaps DEF RunInv, Agreement!Next
<1>4. ASSUME NEW p \in Parties, Start(p) \/ Write(p) \/ Read(p) \/ ReadFails(p)
      PROVE  Goal
  <2>1. pc[p] # "end" /\ key' = key
    BY <1>4 DEF Start, Write, Read, ReadFails, Reading
  <2>2. \/ result' = result
        \/ \E ret : /\ ret \notin {"running", "ok"}
                    /\ result' = [result EXCEPT ![p] = ret]
    BY <1>4 DEF Start, Write, Read, ReadFails
  <2> QED
    BY <1>1, <1>2, <2>1, <2>2
<1>5. CASE Step2 \/ Step5
  <2>1. PICK p \in Parties :
          /\ pc[p] # "end" /\ key' = key
          /\ \/ result' = result
             \/ \E ret : /\ ret \notin {"running", "ok"}
                         /\ result' = [result EXCEPT ![p] = ret]
    BY <1>5 DEF Step2, Step5
  <2> QED
    BY <1>1, <1>2, <2>1
<1>6. CASE Step3
  <2>1. pc["A"] = "step3" /\ pc["A"] \in Early("A")
    BY <1>6 DEF Step3, Early
  <2>2. CASE UNCHANGED key /\ (InputBad("A") \/ End("A", "ERR_BAD_RNG"))
    BY <1>2, <2>1, <2>2 DEF InputBad
  <2>3. ASSUME in["A"].v # 0, NEW k \in Points,
               key' = [key EXCEPT !["A"] = Derive("A", k)],
               IF Derive("A", k) = NoKey THEN End("A", "ERR_BAD_PARAMS")
                                         ELSE UNCHANGED result
        PROVE  Goal
    <3> DEFINE K == Derive("A", k)
    <3>1. K \in Keys \cup {NoKey}
      <4>1. in["A"].v \in Points
        BY <1>0, <2>3 DEF TypeOK, Msgs
      <4> QED
        BY <1>0, <4>1, DeriveType
    <3>2. key' = [key EXCEPT !["A"] = K]
          /\ (IF K = NoKey THEN End("A", "ERR_BAD_PARAMS") ELSE result' = result)
      BY <2>3
    <3> HIDE DEF K
    <3>3. CASE K = NoKey
      <4>1. key' = key
        BY <1>0, <2>1, <3>2, <3>3 DEF RunInv, TypeOK
      <4> QED
        BY <1>2, <2>1, <3>2, <3>3, <4>1
    <3>4. CASE K # NoKey
      <4>1. result' = [result EXCEPT !["A"] = "running"]
        BY <1>0, <2>1, <3>2, <3>4 DEF RunInv, TypeOK
      <4> QED
        BY <1>3, <2>1, <3>1, <3>2, <3>4, <4>1
    <3> QED
      BY <3>3, <3>4
  <2> QED
    BY <1>6, <2>2, <2>3 DEF Step3
<1>7. CASE Step4
  <2>1. pc["B"] = "step4" /\ pc["B"] \in Early("B")
    BY <1>7 DEF Step4, Early
  <2>2. CASE UNCHANGED key /\ InputBad("B")
    BY <1>2, <2>1, <2>2 DEF InputBad
  <2>3. ASSUME in["B"].v # 0,
               key' = [key EXCEPT !["B"] = Derive("B", u["B"])],
               \/ Derive("B", u["B"]) = NoKey /\ End("B", "ERR_BAD_PARAMS")
               \/ Derive("B", u["B"]) # NoKey /\ End("B", "ERR_AUTH")
               \/ Derive("B", u["B"]) # NoKey /\ UNCHANGED result
        PROVE  Goal
    <3> DEFINE K == Derive("B", u["B"])
    <3>1. K \in Keys \cup {NoKey}
      <4>1. in["B"].v \in Points /\ u["B"] \in Points
        BY <2>1, <2>3 DEF TypeInv, DrawnInv, TypeOK, Msgs
      <4> QED
        BY <1>0, <4>1, DeriveType
    <3>2. /\ key' = [key EXCEPT !["B"] = K]
          /\ \/ K = NoKey /\ End("B", "ERR_BAD_PARAMS")
             \/ K # NoKey /\ End("B", "ERR_AUTH")
             \/ K # NoKey /\ result' = result
      BY <2>3
    <3> HIDE DEF K
    <3>3. CASE K = NoKey
      <4>1. key' = key
        BY <1>0, <2>1, <3>2, <3>3 DEF RunInv, TypeOK
      <4> QED
        BY <1>2, <2>1, <3>2, <3>3, <4>1
    <3>4. CASE K # NoKey
      <4>1. \/ result' = [result EXCEPT !["B"] = "running"]
            \/ result' = [result EXCEPT !["B"] = "ERR_AUTH"]
        BY <1>0, <2>1, <3>2, <3>4 DEF RunInv, TypeOK
      <4> QED
        BY <1>3, <2>1, <3>1, <3>2, <3>4, <4>1
    <3> QED
      BY <3>3, <3>4
  <2> QED
    BY <1>7, <2>2, <2>3 DEF Step4
<1>8. ASSUME NEW p \in Parties, StepG(p)
      PROVE  Goal
  <2>1. /\ pc[p] = "stepG" /\ key' = key
        /\ result' = [result EXCEPT ![p] = "ok"]
    BY <1>8 DEF StepG
  <2>2. result[p] = "running" /\ key[p] # NoKey
    BY <2>1 DEF RunInv, SafeInv, KeyInv, Early
  <2>3. p \in Due => \A r \in Parties : key[r] = key[p]
    BY <2>1 DEF SafeInv, ConfirmInv, Checked
  <2>4. Agreement!Finish(p)
    BY <1>0, <2>1, <2>2, <2>3, FinishMaps
  <2> QED
    BY <2>4 DEF Agreement!Next
<1> QED
  BY <1>4, <1>5, <1>6, <1>7, <1>8 DEF Next, Step

(* The two runs of BMQV are a key agreement as KeyAgreement states it: a   *)
(* party derives at most one key, ends once, and ends well on a key it is  *)
(* owed the confirmation of only when the other party has derived it.      *)
THEOREM AgreesCorrect == Spec => Agrees
<1>1. Init => Agreement!Init
  BY DEF Init, Due, Agreement!Init, Outcome
<1>2. TypeInv /\ SafeInv /\ RunInv /\ [Next]_bmqvVars
        => [Agreement!Next]_Agreement!agreementVars
  <2>1. CASE UNCHANGED bmqvVars
    BY <2>1, DueKept DEF bmqvVars, Agreement!agreementVars, Outcome
  <2> QED
    BY <2>1, StepMaps
<1> QED
  BY <1>1, <1>2, TypeInvariant, SafeInvariant, RunInvariant, PTL
     DEF Spec, Agrees, Agreement!Spec
-----------------------------------------------------------------------------
(***************************************************************************)
(* Parties of BMQV that were given the same and whose line and memory      *)
(* serve them: where the two are, what is on the line between them and     *)
(* what each has kept of it.                                               *)
(***************************************************************************)

(* The factor both hash from the one-time keys a of A and b of B, the      *)
(* scalar of p, which is the multiplier its partner sees, and the key.     *)
Common(a, b) == TwoL + HashT[<<X(a), X(b)>>]
ScalarOf(p, a, b) ==
  Scalar(Common(a, b), IF p = "A" THEN a ELSE b, conf[p].d)
DueKey(p, a, b) ==
  LET s == ScalarOf(p, a, b)
      m == ScalarOf(Other(p), a, b)
  IN IF m # 0 /\ s = 0 THEN NoKey ELSE KeyOf(p, SharedX(s, m))

FirstMsg == Msg(u["B"], NoTag)
SecondMsg ==
  Msg(u["A"], IF conf["A"].kca THEN Tag("Ta", key["A"]) ELSE NoTag)
ThirdMsg == Msg(0, Tag("Tb", key["B"]))

OnLine(a, b) == file["A"] = a /\ file["B"] = b
Good(p) == pc[p] = "stepG" \/ (pc[p] = "end" /\ result[p] = "ok")
Gone(p, c) == pc[p] = "end" /\ result[p] = c

(* A has derived its key, and has sent M2.                                 *)
Keyed ==
  /\ u["A"] \in Points /\ u["B"] \in Points
  /\ key["A"] = DueKey("A", u["A"], u["B"]) /\ key["A"] # NoKey
Replied == IF conf["A"].kcb THEN pc["A"] = "read5" ELSE Good("A")

Beginning ==
  /\ pc["A"] \in {"start", "read3"}
  /\ \/ pc["B"] \in {"start", "step2"} /\ OnLine(<<>>, <<>>)
     \/ /\ pc["B"] = "write2" /\ u["B"] \in Points /\ out["B"] = FirstMsg
        /\ OnLine(<<>>, <<>>)
     \/ /\ pc["B"] = "read4" /\ u["B"] \in Points
        /\ OnLine(<<FirstMsg>>, <<>>)
Replying ==
  /\ pc["B"] = "read4"
  /\ \/ /\ pc["A"] = "step3" /\ u["B"] \in Points /\ in["A"] = FirstMsg
        /\ OnLine(<<>>, <<>>)
     \/ pc["A"] = "write3" /\ Keyed /\ out["A"] = SecondMsg /\ OnLine(<<>>, <<>>)
     \/ Replied /\ Keyed /\ OnLine(<<>>, <<SecondMsg>>)
Checking ==
  pc["B"] = "step4" /\ Replied /\ Keyed /\ in["B"] = SecondMsg /\ OnLine(<<>>, <<>>)
Confirming ==
  /\ key["A"] = key["B"]
  /\ \/ /\ conf["A"].kcb /\ pc["A"] = "read5"
        /\ \/ pc["B"] = "write4" /\ out["B"] = ThirdMsg /\ OnLine(<<>>, <<>>)
           \/ Good("B") /\ OnLine(<<ThirdMsg>>, <<>>)
     \/ pc["A"] = "step5" /\ in["A"] = ThirdMsg /\ Good("B") /\ OnLine(<<>>, <<>>)
     \/ Good("A") /\ Good("B") /\ OnLine(<<>>, <<>>)

(* A party whose scalar is zero gives up, and its partner hears no more.   *)
Refusing ==
  /\ OnLine(<<>>, <<>>)
  /\ \/ Gone("A", "ERR_BAD_PARAMS") /\ (pc["B"] = "read4" \/ Gone("B", "ERR_FILE"))
     \/ Gone("B", "ERR_BAD_PARAMS") /\ (Replied \/ Gone("A", "ERR_FILE"))

InStep == Beginning \/ Replying \/ Checking \/ Confirming \/ Refusing
InStepInv == Slips(conf) = 0 /\ faults = 0 => InStep

(* Nothing disagrees when nothing is counted.                              *)
LEMMA NoSlips ==
  ASSUME Slips(conf) = 0
  PROVE  /\ \A p \in Parties : conf[p].own = conf[p].d
         /\ \A p \in Parties : conf[p].peer = conf[Other(p)].own
         /\ conf["A"].kca = conf["B"].kca /\ conf["A"].kcb = conf["B"].kcb
         /\ conf["A"].hello = conf["B"].hello
<1> DEFINE S == {p \in Parties : conf[p].own # conf[p].d}
           T == {p \in Parties : conf[p].peer # conf[Other(p)].own}
           R == {f \in {1, 2, 3} :
                   \/ f = 1 /\ conf["A"].kca # conf["B"].kca
                   \/ f = 2 /\ conf["A"].kcb # conf["B"].kcb
                   \/ f = 3 /\ conf["A"].hello # conf["B"].hello}
<1>1. IsFiniteSet(Parties) /\ IsFiniteSet({1, 2, 3})
  <2>1. IsFiniteSet({"A"}) /\ IsFiniteSet({1})
    BY FS_Singleton
  <2>2. IsFiniteSet({"A"} \cup {"B"}) /\ IsFiniteSet({1} \cup {2})
    BY <2>1, FS_AddElement
  <2>3. IsFiniteSet(({1} \cup {2}) \cup {3})
    BY <2>2, FS_AddElement
  <2>4. {"A"} \cup {"B"} = Parties /\ ({1} \cup {2}) \cup {3} = {1, 2, 3}
    BY DEF Parties
  <2> QED
    BY <2>2, <2>3, <2>4
<1>2. S \subseteq Parties /\ T \subseteq Parties /\ R \subseteq {1, 2, 3}
  OBVIOUS
<1>3. Cardinality(S) + Cardinality(T) + Cardinality(R) = 0
  BY DEF Slips
<1> HIDE DEF S, T, R
<1>4. IsFiniteSet(S) /\ IsFiniteSet(T) /\ IsFiniteSet(R)
  BY <1>1, <1>2, FS_Subset
<1>5. Cardinality(S) \in Nat /\ Cardinality(T) \in Nat /\ Cardinality(R) \in Nat
  BY <1>4, FS_CardinalityType
<1>6. Cardinality(S) = 0 /\ Cardinality(T) = 0 /\ Cardinality(R) = 0
  BY <1>3, <1>5
<1>7. S = {} /\ T = {} /\ R = {}
  BY <1>4, <1>6, FS_EmptySet
<1>8. 1 \notin R /\ 2 \notin R /\ 3 \notin R
  BY <1>7
<1> QED
  BY <1>7, <1>8 DEF S, T, R

(* What is given and drawn makes numbers.                                  *)
LEMMA ScalarType ==
  ASSUME TypeOK, NEW p \in Parties, NEW a \in Points, NEW b \in Points
  PROVE  Common(a, b) \in Int /\ ScalarOf(p, a, b) \in Int
<1>1. conf[p].d \in Points
  BY BMQVAssumption DEF TypeOK, Confs
<1>2. X(a) \in Xs /\ X(b) \in Xs
  BY DEF Xs
<1>3. ASSUME NEW x \in Xs, NEW y \in Xs
      PROVE  HashT[<<x, y>>] \in 0 .. TwoL - 1
  BY BMQVAssumption
<1>4. Common(a, b) \in Int
  BY <1>2, <1>3, BMQVAssumption DEF Common
<1>5. (IF p = "A" THEN a ELSE b) - Common(a, b) * conf[p].d \in Int
  BY <1>1, <1>4, OnePoint DEF Points
<1> QED
  BY <1>4, <1>5, OnePoint DEF ScalarOf, Scalar

(* What each derives from the point of the other.                          *)
LEMMA DueDerived ==
  ASSUME TypeOK, Slips(conf) = 0, NEW a \in Points, NEW b \in Points
  PROVE  /\ in["A"].v = b => Derive("A", a) = DueKey("A", a, b)
         /\ in["B"].v = a => Derive("B", b) = DueKey("B", a, b)
<1>1. /\ conf["A"].peer = conf["B"].d /\ conf["B"].peer = conf["A"].d
      /\ Other("A") = "B" /\ Other("B") = "A"
  BY NoSlips, Places
<1>2. Factor("A", a, b) = Common(a, b) /\ Factor("B", b, a) = Common(a, b)
  BY DEF Factor, Common
<1>3. /\ ScalarOf("A", a, b) = Scalar(Common(a, b), a, conf["A"].d)
      /\ ScalarOf("B", a, b) = Scalar(Common(a, b), b, conf["B"].d)
  BY DEF ScalarOf
<1>4. /\ PeerPoint(Common(a, b), b, conf["A"].peer) = ScalarOf("B", a, b)
      /\ PeerPoint(Common(a, b), a, conf["B"].peer) = ScalarOf("A", a, b)
  BY <1>1, <1>3 DEF PeerPoint, Scalar
<1>5. in["A"].v = b => Derive("A", a) = DueKey("A", a, b)
  BY <1>1, <1>2, <1>3, <1>4 DEF Derive, DueKey
<1>6. in["B"].v = a => Derive("B", b) = DueKey("B", a, b)
  BY <1>1, <1>2, <1>3, <1>4 DEF Derive, DueKey
<1> QED
  BY <1>5, <1>6

(* Two keys are one key.                                                   *)
LEMMA KeysMeet ==
  ASSUME TypeOK, Slips(conf) = 0, NEW a \in Points, NEW b \in Points,
         DueKey("A", a, b) # NoKey, DueKey("B", a, b) # NoKey
  PROVE  DueKey("A", a, b) = DueKey("B", a, b)
<1> DEFINE s == ScalarOf("A", a, b)
           m == ScalarOf("B", a, b)
<1>1. s \in Int /\ m \in Int
  BY ScalarType, Places
<1>2. /\ DueKey("A", a, b) = IF m # 0 /\ s = 0 THEN NoKey ELSE KeyOf("A", SharedX(s, m))
      /\ DueKey("B", a, b) = IF s # 0 /\ m = 0 THEN NoKey ELSE KeyOf("B", SharedX(m, s))
  BY Places DEF DueKey
<1> HIDE DEF s, m
<1>3. s = 0 <=> m = 0
  BY <1>2
<1>4. SharedX(s, m) = SharedX(m, s)
  <2>1. s * m = m * s
    BY <1>1
  <2> QED
    BY <1>3, <2>1 DEF SharedX
<1>5. \A x : KeyOf("A", x) = KeyOf("B", x)
  BY NoSlips, Places DEF KeyOf
<1> QED
  BY <1>2, <1>3, <1>4, <1>5

(* The steps of parties that fit, while nothing fails.                     *)
Calm == TypeInv /\ RunInv /\ Slips(conf) = 0 /\ faults = 0 /\ faults' = 0

LEMMA StartInStep ==
  ASSUME Calm, InStep, NEW p \in Parties, Start(p)
  PROVE  InStep'
<1> USE Places DEF Calm, TypeInv, TypeOK, At, Goto
<1>1. /\ pc[p] = "start" /\ pc' = [pc EXCEPT ![p] = AfterStart(p)]
      /\ UNCHANGED <<conf, u, key, out, in, file, result>>
  BY DEF Start, Fault
<1>2. Beginning
  BY <1>1 DEF InStep, Beginning, Replying, Checking, Confirming, Refusing,
              Replied, Good, Gone
<1>3. Beginning'
  BY <1>1, <1>2 DEF Beginning, AfterStart, OnLine, FirstMsg
<1> QED
  BY <1>3 DEF InStep

LEMMA Step2InStep ==
  ASSUME Calm, InStep, Step2
  PROVE  InStep'
<1> USE Places DEF Calm, TypeInv, TypeOK, At, Goto
<1>1. PICK k \in Points :
        /\ u' = [u EXCEPT !["B"] = k]
        /\ out' = [out EXCEPT !["B"] = Msg(k, NoTag)]
  BY DEF Step2, Fault
<1>2. /\ pc["B"] = "step2" /\ pc' = [pc EXCEPT !["B"] = "write2"]
      /\ UNCHANGED <<conf, key, in, file, result>>
  BY DEF Step2, Fault
<1>3. Beginning
  BY <1>2 DEF InStep, Beginning, Replying, Checking, Confirming, Refusing,
              Replied, Good, Gone
<1>4. Beginning'
  BY <1>1, <1>2, <1>3 DEF Beginning, OnLine, FirstMsg
<1> QED
  BY <1>4 DEF InStep

LEMMA WriteInStep ==
  ASSUME Calm, InStep, NEW p \in Parties, Write(p)
  PROVE  InStep'
<1> USE Places DEF Calm, TypeInv, TypeOK, At, Goto
<1>1. /\ pc[p] \in {"write2", "write3", "write4"}
      /\ file' = [file EXCEPT ![Other(p)] = Append(@, out[p])]
      /\ pc' = [pc EXCEPT ![p] = AfterWrite(p)]
      /\ UNCHANGED <<conf, u, key, out, in, result>>
  BY DEF Write, Fault
<1>2. pc[p] \in Labels(p)
  OBVIOUS
<1>3. \A m : Append(<<>>, m) = <<m>>
  OBVIOUS
<1>4. CASE pc[p] = "write2"
  <2>1. p = "B" /\ Beginning
    BY <1>2, <1>4 DEF Labels, InStep, Beginning, Replying, Checking, Confirming,
                      Refusing, Replied, Good, Gone
  <2>2. file' = [file EXCEPT !["A"] = Append(<<>>, FirstMsg)]
    BY <1>1, <1>4, <2>1 DEF Beginning, OnLine
  <2>3. /\ file'["A"] = <<FirstMsg>> /\ file'["B"] = <<>>
        /\ pc'["B"] = "read4" /\ pc'["A"] = pc["A"]
    BY <1>1, <1>3, <1>4, <2>1, <2>2 DEF Beginning, OnLine, AfterWrite
  <2>4. Beginning'
    BY <1>1, <1>4, <2>1, <2>3 DEF Beginning, OnLine, FirstMsg
  <2> QED
    BY <2>4 DEF InStep
<1>5. CASE pc[p] = "write3"
  <2>1. p = "A" /\ Replying /\ Keyed /\ out["A"] = SecondMsg /\ OnLine(<<>>, <<>>)
    BY <1>2, <1>5 DEF Labels, InStep, Beginning, Replying, Checking, Confirming,
                      Refusing, Replied, Good, Gone
  <2>2. file' = [file EXCEPT !["B"] = Append(<<>>, SecondMsg)]
    BY <1>1, <2>1 DEF OnLine
  <2>3. /\ file'["A"] = <<>> /\ file'["B"] = <<SecondMsg>>
        /\ pc'["B"] = "read4" /\ pc'["A"] = IF conf["A"].kcb THEN "read5" ELSE "stepG"
    BY <1>1, <1>3, <1>5, <2>1, <2>2 DEF Replying, OnLine, AfterWrite
  <2>4. Keyed' /\ SecondMsg' = SecondMsg
    BY <1>1, <2>1 DEF Keyed, SecondMsg, DueKey, ScalarOf, KeyOf
  <2>5. Replied'
    BY <1>1, <2>3 DEF Replied, Good
  <2>6. Replying'
    BY <2>3, <2>4, <2>5 DEF Replying, OnLine
  <2> QED
    BY <2>6 DEF InStep
<1>6. CASE pc[p] = "write4"
  <2>1. p = "B" /\ key["A"] = key["B"] /\ conf["A"].kcb /\ pc["A"] = "read5"
        /\ out["B"] = ThirdMsg /\ OnLine(<<>>, <<>>)
    BY <1>2, <1>6 DEF Labels, InStep, Beginning, Replying, Checking, Confirming,
                      Refusing, Replied, Good, Gone
  <2>2. file' = [file EXCEPT !["A"] = Append(<<>>, ThirdMsg)]
    BY <1>1, <2>1 DEF OnLine
  <2>3. /\ file'["A"] = <<ThirdMsg>> /\ file'["B"] = <<>>
        /\ pc'["B"] = "stepG" /\ pc'["A"] = "read5"
    BY <1>1, <1>3, <1>6, <2>1, <2>2 DEF OnLine, AfterWrite
  <2>4. Confirming'
    BY <1>1, <2>1, <2>3 DEF Confirming, OnLine, ThirdMsg, Good
  <2> QED
    BY <2>4 DEF InStep
<1> QED
  BY <1>1, <1>4, <1>5, <1>6

LEMMA ReadInStep ==
  ASSUME Calm, InStep, NEW p \in Parties, Read(p)
  PROVE  InStep'
<1> USE Places DEF Calm, TypeInv, TypeOK, At, Goto
<1>1. /\ pc[p] \in {"read3", "read4", "read5"} /\ file[p] # <<>>
      /\ in' = [in EXCEPT ![p] = Head(file[p])]
      /\ file' = [file EXCEPT ![p] = Tail(@)]
      /\ pc' = [pc EXCEPT ![p] = AfterRead(p)]
      /\ UNCHANGED <<conf, u, key, out, result>>
  BY DEF Read, Reading, Complete, Fault
<1>2. pc[p] \in Labels(p)
  OBVIOUS
<1>3. \A m : Head(<<m>>) = m /\ Tail(<<m>>) = <<>>
  OBVIOUS
<1>4. CASE pc[p] = "read3"
  <2>1. p = "A" /\ pc["B"] = "read4" /\ u["B"] \in Points /\ OnLine(<<FirstMsg>>, <<>>)
    BY <1>1, <1>2, <1>4 DEF Labels, InStep, Beginning, Replying, Checking,
                            Confirming, Refusing, Replied, Good, Gone, OnLine
  <2>2. /\ file'["A"] = <<>> /\ file'["B"] = <<>> /\ in'["A"] = FirstMsg
        /\ pc'["A"] = "step3" /\ pc'["B"] = "read4"
    BY <1>1, <1>3, <1>4, <2>1 DEF OnLine, AfterRead
  <2>3. Replying'
    BY <1>1, <2>1, <2>2 DEF Replying, OnLine, FirstMsg
  <2> QED
    BY <2>3 DEF InStep
<1>5. CASE pc[p] = "read4"
  <2>1. p = "B" /\ Replied /\ Keyed /\ OnLine(<<>>, <<SecondMsg>>)
    BY <1>1, <1>2, <1>5 DEF Labels, InStep, Beginning, Replying, Checking,
                            Confirming, Refusing, Good, Gone, OnLine
  <2>2. /\ file'["A"] = <<>> /\ file'["B"] = <<>> /\ in'["B"] = SecondMsg
        /\ pc'["B"] = "step4" /\ pc'["A"] = pc["A"]
    BY <1>1, <1>3, <1>5, <2>1 DEF OnLine, AfterRead
  <2>3. Keyed' /\ Replied' /\ SecondMsg' = SecondMsg
    BY <1>1, <2>1, <2>2 DEF Keyed, Replied, Good, SecondMsg, DueKey, ScalarOf, KeyOf
  <2>4. Checking'
    BY <2>2, <2>3 DEF Checking, OnLine
  <2> QED
    BY <2>4 DEF InStep
<1>6. CASE pc[p] = "read5"
  <2>1. p = "A" /\ key["A"] = key["B"] /\ Good("B") /\ OnLine(<<ThirdMsg>>, <<>>)
    BY <1>1, <1>2, <1>6 DEF Labels, InStep, Beginning, Replying, Checking,
                            Confirming, Refusing, Good, Gone, OnLine
  <2>2. /\ file'["A"] = <<>> /\ file'["B"] = <<>> /\ in'["A"] = ThirdMsg
        /\ pc'["A"] = "step5" /\ pc'["B"] = pc["B"]
    BY <1>1, <1>3, <1>6, <2>1 DEF OnLine, AfterRead
  <2>3. Confirming'
    BY <1>1, <2>1, <2>2 DEF Confirming, OnLine, ThirdMsg, Good
  <2> QED
    BY <2>3 DEF InStep
<1> QED
  BY <1>1, <1>4, <1>5, <1>6

(* A read fails only when the other party has had a zero scalar.           *)
LEMMA ReadFailsInStep ==
  ASSUME Calm, InStep, NEW p \in Parties, ReadFails(p)
  PROVE  InStep'
<1> USE Places DEF Calm, TypeInv, TypeOK, At, End
<1>1. /\ pc[p] \in {"read3", "read4", "read5"} /\ ~ Complete(p)
      /\ pc[Other(p)] = "end" /\ pc' = [pc EXCEPT ![p] = "end"]
      /\ result' = [result EXCEPT ![p] = "ERR_FILE"]
      /\ UNCHANGED <<conf, u, key, out, in, file>>
  BY DEF ReadFails, Reading, Fault
<1>2. pc[p] \in Labels(p)
  OBVIOUS
<1>3. conf["A"].kca = conf["B"].kca
  BY NoSlips
<1>4. ~ (Replying /\ p = "B")
  <2> SUFFICES ASSUME Replying, p = "B"
               PROVE  FALSE
    OBVIOUS
  <2>1. OnLine(<<>>, <<SecondMsg>>) /\ pc["B"] = "read4"
    BY <1>1 DEF Replying
  <2>2. file["B"] # <<>> /\ Head(file["B"]) = SecondMsg
    BY <2>1 DEF OnLine
  <2>3. conf["B"].kca => SecondMsg.tag # NoTag
    BY <1>3 DEF SecondMsg, Msg, Tag, NoTag
  <2> QED
    BY <1>1, <2>2, <2>3 DEF Complete
<1>5. ~ (p = "A" /\ file["A"] # <<>>)
  BY <1>1, <1>2 DEF Complete, Labels
<1>6. ASSUME NEW m
      PROVE  <<m>> # <<>>
  OBVIOUS
<1>7. Refusing
  BY <1>1, <1>2, <1>4, <1>5, <1>6
     DEF Labels, InStep, Beginning, Replying, Checking, Confirming, Refusing,
         Replied, Good, Gone, OnLine
<1>8. Refusing'
  BY <1>1, <1>2, <1>7 DEF Labels, Refusing, Replied, Good, Gone, OnLine
<1> QED
  BY <1>8 DEF InStep

(* A derives the key from the point of B and answers, or has a zero scalar.*)
LEMMA Step3InStep ==
  ASSUME Calm, InStep, Step3
  PROVE  InStep'
<1> USE Places DEF Calm, TypeInv, TypeOK, At
<1>1. pc["A"] = "step3" /\ UNCHANGED <<conf, in, file>>
  BY DEF Step3
<1>2. /\ pc["B"] = "read4" /\ u["B"] \in Points /\ in["A"] = FirstMsg
      /\ OnLine(<<>>, <<>>)
  BY <1>1 DEF InStep, Beginning, Replying, Checking, Confirming, Refusing,
              Replied, Good, Gone
<1>3. in["A"].v = u["B"] /\ u["B"] # 0
  BY <1>2 DEF FirstMsg, Msg, Points
<1>4. PICK k \in Points :
        LET K == Derive("A", k)
        IN /\ u' = [u EXCEPT !["A"] = k]
           /\ key' = [key EXCEPT !["A"] = K]
           /\ IF K = NoKey
              THEN End("A", "ERR_BAD_PARAMS") /\ UNCHANGED out
              ELSE /\ Goto("A", "write3")
                   /\ out' = [out EXCEPT !["A"] =
                        Msg(k, IF conf["A"].kca THEN Tag("Ta", K)
                                                ELSE NoTag)]
  BY <1>1, <1>3 DEF Step3, InputBad, Fault
<1> DEFINE K == Derive("A", k)
<1>5. K = DueKey("A", k, u["B"])
  BY <1>2, <1>3, DueDerived
<1> HIDE DEF K
<1>6. u'["A"] = k /\ u'["B"] = u["B"] /\ key'["A"] = K
  BY <1>4 DEF K
<1>7. CASE K = NoKey
  <2>1. Gone("A", "ERR_BAD_PARAMS")' /\ pc'["B"] = "read4"
    BY <1>2, <1>4, <1>7 DEF K, End, Gone
  <2>2. Refusing'
    BY <1>1, <1>2, <2>1 DEF Refusing, OnLine
  <2> QED
    BY <2>2 DEF InStep
<1>8. CASE K # NoKey
  <2>1. /\ pc'["A"] = "write3" /\ pc'["B"] = "read4"
        /\ out'["A"] = Msg(k, IF conf["A"].kca THEN Tag("Ta", K) ELSE NoTag)
    BY <1>2, <1>4, <1>8 DEF K, Goto
  <2>2. out'["A"] = SecondMsg'
    BY <1>1, <1>6, <2>1 DEF SecondMsg
  <2>3. Keyed'
    <3>1. DueKey("A", u["A"], u["B"])' = DueKey("A", k, u["B"])
      BY <1>1, <1>6 DEF DueKey, ScalarOf, KeyOf
    <3> QED
      BY <1>2, <1>5, <1>6, <1>8, <3>1 DEF Keyed
  <2>4. Replying'
    BY <1>1, <1>2, <2>1, <2>2, <2>3 DEF Replying, OnLine
  <2> QED
    BY <2>4 DEF InStep
<1> QED
  BY <1>7, <1>8

(* B derives the same key and finds its tag, or has a zero scalar.         *)
LEMMA Step4InStep ==
  ASSUME Calm, InStep, Step4
  PROVE  InStep'
<1> USE Places DEF Calm, TypeInv, TypeOK, At
<1> DEFINE a == u["A"]
           b == u["B"]
           K == Derive("B", b)
<1>1. pc["B"] = "step4" /\ UNCHANGED <<conf, u, in, file>>
  BY DEF Step4
<1>2. Checking
  BY <1>1 DEF InStep, Beginning, Replying, Checking, Confirming, Refusing,
              Replied, Good, Gone
<1>3. /\ in["B"].v = a /\ a \in Points /\ b \in Points /\ a # 0
      /\ in["B"].tag = (IF conf["A"].kca THEN Tag("Ta", key["A"]) ELSE NoTag)
  BY <1>2 DEF Checking, Keyed, SecondMsg, Msg, Points
<1>4. /\ key' = [key EXCEPT !["B"] = K]
      /\ IF K = NoKey
         THEN End("B", "ERR_BAD_PARAMS") /\ UNCHANGED out
         ELSE IF conf["B"].kca /\ ~ TagOK("B", "Ta", K)
         THEN End("B", "ERR_AUTH") /\ UNCHANGED out
         ELSE IF conf["B"].kcb
         THEN /\ Goto("B", "write4")
              /\ out' = [out EXCEPT !["B"] = Msg(0, Tag("Tb", K))]
         ELSE Goto("B", "stepG") /\ UNCHANGED out
  BY <1>1, <1>3 DEF Step4, InputBad, Fault
<1>5. K = DueKey("B", a, b)
  BY <1>3, DueDerived
<1>6. key["A"] = DueKey("A", a, b) /\ key["A"] # NoKey
  BY <1>2 DEF Checking, Keyed
<1> HIDE DEF K
<1>7. key'["B"] = K /\ key'["A"] = key["A"]
  BY <1>4
<1>8. CASE K = NoKey
  <2>1. Gone("B", "ERR_BAD_PARAMS")' /\ pc'["A"] = pc["A"] /\ result'["A"] = result["A"]
    BY <1>4, <1>8 DEF End, Gone
  <2>2. Replied'
    BY <1>1, <1>2, <2>1 DEF Checking, Replied, Good
  <2>3. Refusing'
    BY <1>1, <1>2, <2>1, <2>2 DEF Refusing, OnLine, Checking
  <2> QED
    BY <2>3 DEF InStep
<1>9. CASE K # NoKey
  <2>1. K = key["A"]
    BY <1>3, <1>5, <1>6, <1>9, KeysMeet
  <2>2. conf["A"].kca = conf["B"].kca /\ conf["A"].kcb = conf["B"].kcb
    BY NoSlips
  <2>3. conf["B"].kca => TagOK("B", "Ta", K)
    BY <1>3, <2>1, <2>2 DEF TagOK
  <2>4. pc'["A"] = pc["A"] /\ result' = result
    BY <1>4, <1>9, <2>3 DEF Goto
  <2>5. Replied' /\ key'["A"] = key'["B"] /\ OnLine(<<>>, <<>>)'
    BY <1>1, <1>2, <1>7, <2>1, <2>4 DEF Checking, Replied, Good, OnLine
  <2>6. CASE conf["B"].kcb
    <3>1. pc'["B"] = "write4" /\ out'["B"] = Msg(0, Tag("Tb", K))
      BY <1>4, <1>9, <2>3, <2>6 DEF Goto
    <3>2. out'["B"] = ThirdMsg'
      BY <1>7, <3>1 DEF ThirdMsg
    <3>3. Confirming'
      BY <1>1, <2>2, <2>5, <2>6, <3>1, <3>2 DEF Confirming, Replied
    <3> QED
      BY <3>3 DEF InStep
  <2>7. CASE ~ conf["B"].kcb
    <3>1. pc'["B"] = "stepG"
      BY <1>4, <1>9, <2>3, <2>7 DEF Goto
    <3>2. Confirming'
      BY <1>1, <2>2, <2>5, <2>7, <3>1 DEF Confirming, Replied, Good
    <3> QED
      BY <3>2 DEF InStep
  <2> QED
    BY <2>6, <2>7
<1> QED
  BY <1>8, <1>9

LEMMA EndInStep ==
  ASSUME Calm, InStep, Step5 \/ \E p \in Parties : StepG(p)
  PROVE  InStep'
<1> USE Places DEF Calm, TypeInv, TypeOK, At
<1>1. CASE Step5
  <2>1. /\ pc["A"] = "step5" /\ UNCHANGED <<conf, u, key, out, in, file, faults>>
        /\ IF TagOK("A", "Tb", key["A"]) THEN Goto("A", "stepG") ELSE End("A", "ERR_AUTH")
    BY <1>1 DEF Step5
  <2>2. /\ key["A"] = key["B"] /\ in["A"] = ThirdMsg /\ Good("B") /\ OnLine(<<>>, <<>>)
    BY <2>1 DEF InStep, Beginning, Replying, Checking, Confirming, Refusing,
                Replied, Good, Gone
  <2>3. TagOK("A", "Tb", key["A"])
    BY <2>2 DEF TagOK, ThirdMsg, Msg
  <2>4. pc' = [pc EXCEPT !["A"] = "stepG"] /\ result' = result
    BY <2>1, <2>3 DEF Goto
  <2>5. Confirming'
    BY <2>1, <2>2, <2>4 DEF Confirming, Good, OnLine
  <2> QED
    BY <2>5 DEF InStep
<1>2. ASSUME NEW p \in Parties, StepG(p)
      PROVE  InStep'
  <2>1. /\ pc[p] = "stepG" /\ pc' = [pc EXCEPT ![p] = "end"]
        /\ result' = [result EXCEPT ![p] = "ok"]
        /\ UNCHANGED <<conf, u, key, out, in, file>>
    BY <1>2 DEF StepG, End
  <2>2. /\ \A q \in Parties : Good(q) => Good(q)'
        /\ \A q \in Parties : pc[q] \notin {"stepG"} => pc'[q] = pc[q] /\ result'[q] = result[q]
        /\ Good(p)
    BY <2>1 DEF Good
  <2>3. Replied => Replied'
    BY <2>1, <2>2 DEF Replied
  <2>4. Keyed => Keyed'
    BY <2>1 DEF Keyed, DueKey, ScalarOf, KeyOf
  <2>5. \A a, b : OnLine(a, b) => OnLine(a, b)'
    BY <2>1 DEF OnLine
  <2>6. ~ Beginning
    BY <2>1 DEF Beginning
  <2>7. Replying => Replying'
    BY <2>1, <2>2, <2>3, <2>4 DEF Replying, OnLine, SecondMsg
  <2>8. Checking => Checking'
    BY <2>1, <2>2, <2>3, <2>4 DEF Checking, OnLine, SecondMsg
  <2>9. Confirming => Confirming'
    BY <2>1, <2>2 DEF Confirming, OnLine, ThirdMsg
  <2>10. Refusing => Refusing'
    BY <2>1, <2>2, <2>3 DEF Refusing, OnLine, Gone
  <2> QED
    BY <2>6, <2>7, <2>8, <2>9, <2>10 DEF InStep
<1> QED
  BY <1>1, <1>2

LEMMA InStepKept ==
  ASSUME TypeInv, RunInv, InStepInv, Next
  PROVE  InStepInv'
<1> SUFFICES ASSUME Slips(conf') = 0, faults' = 0
             PROVE  InStep'
  BY DEF InStepInv, Slips
<1>1. conf' = conf /\ faults' \in {faults, faults + 1}
  BY DEF Next, Step, Start, Write, Read, ReadFails, StepG, Step2, Step3, Step4,
         Step5, InputBad, Fault
<1>2. faults = 0
  BY <1>1 DEF TypeInv, TypeOK
<1>3. Calm /\ InStep
  BY <1>1, <1>2 DEF Calm, InStepInv
<1> QED
  BY <1>3, StartInStep, Step2InStep, WriteInStep, ReadInStep, ReadFailsInStep,
     Step3InStep, Step4InStep, EndInStep DEF Next, Step

LEMMA InStepInvariant == Spec => []InStepInv
<1>1. Init => InStepInv
  <2> SUFFICES ASSUME Init
               PROVE  Beginning
    BY DEF InStepInv, InStep
  <2> QED
    BY Places DEF Init, Beginning, OnLine
<1>2. TypeInv /\ RunInv /\ InStepInv /\ [Next]_bmqvVars => InStepInv'
  <2>1. CASE UNCHANGED bmqvVars
    BY <2>1 DEF bmqvVars, InStepInv, InStep, Beginning, Replying, Checking,
       Confirming, Refusing, Replied, Keyed, Good, Gone, OnLine, FirstMsg,
       SecondMsg, ThirdMsg, DueKey, ScalarOf, KeyOf, Slips
  <2> QED
    BY <2>1, InStepKept
<1> QED
  BY <1>1, <1>2, TypeInvariant, RunInvariant, PTL DEF Spec

(* Parties that were given the same and whose line and memory served them  *)
(* fail for no reason but a zero scalar, and build the same key.           *)
THEOREM HonestAgreeCorrect == Spec => []HonestAgree
<1>1. TypeInv /\ RunInv /\ SafeInv /\ InStepInv => HonestAgree
  <2> SUFFICES ASSUME TypeInv, RunInv, SafeInv, InStepInv, Slips(conf) = 0, faults = 0
               PROVE  /\ \A p \in Parties :
                           result[p] \in {"running", "ok", "ERR_BAD_PARAMS", "ERR_FILE"}
                      /\ \A p \in Parties : result[p] = "ERR_FILE" =>
                           result[Other(p)] = "ERR_BAD_PARAMS"
                      /\ (\A p \in Parties : result[p] = "ok") => key["A"] = key["B"]
    BY DEF HonestAgree
  <2>1. InStep /\ \A p \in Parties : /\ pc[p] # "end" => result[p] = "running"
                                     /\ result[p] = "ok" => pc[p] = "end"
    BY DEF InStepInv, RunInv, SafeInv, KeyInv
  <2> QED
    BY <2>1, Places DEF InStep, Beginning, Replying, Checking, Confirming,
       Refusing, Replied, Good, Gone
<1> QED
  BY <1>1, TypeInvariant, RunInvariant, SafeInvariant, InStepInvariant, PTL
-----------------------------------------------------------------------------
(***************************************************************************)
(* BSTS, BPACE and BAUTH: what their runs over a line have in common.      *)
(***************************************************************************)
Fields == {"u", "v", "t", "r", "key", "peer", "got"}

(* What is in a queue, and what is in it behind the head.                  *)
Queued(s) == {s[i] : i \in 1 .. Len(s)}
Behind(s) == {s[i] : i \in 2 .. Len(s)}

Shapes ==
  /\ DOMAIN at = Parties /\ DOMAIN obj = Parties /\ DOMAIN line = Parties
  /\ DOMAIN code = Parties /\ DOMAIN blobs = Parties
  /\ \A p \in Parties :
       /\ DOMAIN obj[p] = Fields /\ obj[p].got \in Nat
       /\ line[p] \in Seq(Queued(line[p]))

(* A run holds its own block until it ends, and the copy of a message      *)
(* while it reads the blocks of one.                                       *)
Held(p) == IF obj[p].got > 0 THEN {"blob", "M"} ELSE {"blob"}
MemInv ==
  \A p \in Parties :
    /\ at[p] = "start" => blobs[p] = {}
    /\ at[p] \notin {"start", "end"} => blobs[p] \subseteq Held(p)
    /\ at[p] = "stepG" => obj[p].got = 0
    /\ at[p] = "end" /\ code[p] # "ERR_OUTOFMEMORY" => blobs[p] = {}

(* What a step may do to a queue.                                          *)
LEMMA QueueTyped ==
  ASSUME NEW S, NEW s \in Seq(S)
  PROVE  s \in Seq(Queued(s)) /\ Queued(s) \subseteq S /\ Behind(s) \subseteq Queued(s)
<1>1. Len(s) \in Nat /\ s \in [1 .. Len(s) -> S]
  OBVIOUS
<1>2. Queued(s) \subseteq S
  BY <1>1 DEF Queued
<1>3. s \in [1 .. Len(s) -> Queued(s)]
  BY <1>1 DEF Queued
<1>4. s \in Seq(Queued(s))
  BY <1>1, <1>3, SeqDef
<1>5. Behind(s) \subseteq Queued(s)
  BY <1>1 DEF Queued, Behind
<1>6. QED
  BY <1>2, <1>4, <1>5

LEMMA QueueTail ==
  ASSUME NEW S, NEW s \in Seq(S), s # <<>>
  PROVE  /\ Tail(s) \in Seq(Queued(Tail(s)))
         /\ Queued(Tail(s)) = Behind(s) /\ Behind(Tail(s)) \subseteq Behind(s)
         /\ Head(s) \in Queued(s)
<1>1. Tail(s) \in Seq(S) /\ Len(s) \in Nat /\ Len(s) > 0 /\ Len(Tail(s)) = Len(s) - 1
  OBVIOUS
<1>2. \A i \in 1 .. Len(s) - 1 : Tail(s)[i] = s[i + 1]
  OBVIOUS
<1>3. Queued(Tail(s)) = Behind(s)
  <2>1. Queued(Tail(s)) \subseteq Behind(s)
    BY <1>1, <1>2 DEF Queued, Behind
  <2>2. ASSUME NEW i \in 2 .. Len(s) PROVE s[i] \in Queued(Tail(s))
    <3>1. i - 1 \in 1 .. Len(s) - 1 /\ Tail(s)[i - 1] = s[(i - 1) + 1] /\ (i - 1) + 1 = i
      BY <1>1, <1>2
    <3>2. QED
      BY <1>1, <3>1 DEF Queued
  <2>3. QED
    BY <2>1, <2>2 DEF Behind
<1>4. Head(s) \in Queued(s)
  BY <1>1 DEF Queued
<1>5. QED
  BY <1>1, <1>3, <1>4, QueueTyped

LEMMA QueueAppend ==
  ASSUME NEW S, NEW s \in Seq(S), NEW m
  PROVE  /\ s \o <<>> = s
         /\ s \o <<m>> \in Seq(Queued(s \o <<m>>))
         /\ Queued(s \o <<m>>) = Queued(s) \cup {m}
         /\ Behind(s \o <<m>>) \subseteq Behind(s) \cup {m}
         /\ s = <<>> => Behind(s \o <<m>>) = {}
<1> DEFINE r == s \o <<m>>
           U == S \cup {m}
<1>1. s \in Seq(U) /\ <<m>> \in Seq(U)
  <2>1. s \in Seq(S) /\ S \subseteq U
    OBVIOUS
  <2>2. Len(s) \in Nat /\ s \in [1 .. Len(s) -> S]
    OBVIOUS
  <2>3. s \in [1 .. Len(s) -> U]
    BY <2>2
  <2>4. QED
    BY <2>2, <2>3, SeqDef
<1>2. Len(s) \in Nat /\ r \in Seq(U) /\ Len(r) = Len(s) + 1
  BY <1>1
<1>3. r[Len(s) + 1] = m /\ \A i \in 1 .. Len(s) : r[i] = s[i]
  BY <1>1
<1>4. Queued(r) = Queued(s) \cup {m}
  BY <1>2, <1>3 DEF Queued
<1>5. Behind(r) \subseteq Behind(s) \cup {m}
  BY <1>2, <1>3 DEF Behind
<1>6. s = <<>> => Behind(r) = {}
  BY <1>2 DEF Behind
<1>7. s \o <<>> = s
  OBVIOUS
<1>8. r \in Seq(Queued(r))
  BY <1>2, QueueTyped
<1>9. QED
  BY <1>4, <1>5, <1>6, <1>7, <1>8

LEMMA QueueCut ==
  ASSUME NEW S, NEW s \in Seq(S), s # <<>>
  PROVE  LET r == SubSeq(s, 1, Len(s) - 1)
         IN /\ r \in Seq(Queued(r)) /\ Queued(r) \subseteq Queued(s)
            /\ Behind(r) \subseteq Behind(s)
<1> DEFINE r == SubSeq(s, 1, Len(s) - 1)
<1>1. Len(s) \in Nat /\ Len(s) > 0
  OBVIOUS
<1>2. r \in Seq(S) /\ Len(r) = Len(s) - 1 /\ \A i \in 1 .. Len(s) - 1 : r[i] = s[i]
  <2> DEFINE n == Len(s) - 1
  <2>1. n \in Nat /\ \A i \in 1 .. n : s[i] \in S
    BY <1>1
  <2> HIDE DEF n
  <2>2. /\ SubSeq(s, 1, n) \in Seq(S)
        /\ Len(SubSeq(s, 1, n)) = IF 1 <= n THEN n - 1 + 1 ELSE 0
        /\ \A i \in 1 .. n - 1 + 1 : SubSeq(s, 1, n)[i] = s[1 + i - 1]
    BY <2>1, SubSeqProperties
  <2>3. /\ Len(SubSeq(s, 1, n)) = n
        /\ \A i \in 1 .. n : SubSeq(s, 1, n)[i] = s[i]
    BY <2>1, <2>2
  <2>4. QED
    BY <2>2, <2>3 DEF n
<1>3. Queued(r) \subseteq Queued(s) /\ Behind(r) \subseteq Behind(s)
  BY <1>1, <1>2 DEF Queued, Behind
<1>4. QED
  BY <1>2, <1>3, QueueTyped
-----------------------------------------------------------------------------
(* The ways a party p of the three protocols may step.  It starts.         *)
Started(p, next) ==
  /\ at[p] = "start" /\ next \notin {"start", "end", "stepG", "read5", "read6"}
  /\ next = (IF p = "A" THEN "read3" ELSE "step2")
  /\ at' = [at EXCEPT ![p] = next] /\ blobs' = [blobs EXCEPT ![p] = {"blob"}]
  /\ UNCHANGED <<con, obj, line, code>>

(* It ends with an error, before a step or between two of them; what it    *)
(* sent last may be lost.                                                  *)
Stopped(p, c, bs) ==
  /\ at[p] # "end" /\ c # "ERR_OK"
  /\ at' = [at EXCEPT ![p] = "end"] /\ code' = [code EXCEPT ![p] = c]
  /\ blobs' = [blobs EXCEPT ![p] = @ \ bs]
  /\ c = "ERR_OUTOFMEMORY" \/ blobs[p] \subseteq bs
  /\ \/ line' = line
     \/ /\ line[Other(p)] # <<>>
        /\ line' = [line EXCEPT ![Other(p)] = SubSeq(@, 1, Len(@) - 1)]
  /\ UNCHANGED <<con, obj>>

(* It ends well.                                                           *)
Ended(p) ==
  /\ at[p] = "stepG"
  /\ at' = [at EXCEPT ![p] = "end"] /\ code' = [code EXCEPT ![p] = "ERR_OK"]
  /\ blobs' = [blobs EXCEPT ![p] = @ \ {"blob"}]
  /\ UNCHANGED <<con, obj, line>>

(* It reads a block of a long message.                                     *)
Grown(p) ==
  /\ at[p] \notin {"start", "end", "stepG"}
  /\ obj' = [obj EXCEPT ![p].got = @ + 1]
  /\ blobs' = [blobs EXCEPT ![p] = @ \cup {"M"}]
  /\ UNCHANGED <<con, at, line, code>>

(* B sends the first message.                                              *)
Opening(s, m) ==
  /\ at["B"] = "step2" /\ at' = [at EXCEPT !["B"] = "read4"]
  /\ obj' = [obj EXCEPT !["B"] = s] /\ line' = [line EXCEPT !["A"] = <<m>>]
  /\ UNCHANGED <<con, code, blobs>>

(* It takes a message and answers it.                                      *)
Turned(p, r, next) ==
  /\ at[p] \notin {"start", "end", "stepG"} /\ line[p] # <<>>
  /\ next \notin {"start", "end"}
  /\ obj' = [obj EXCEPT ![p] = [r.st EXCEPT !.got = 0]]
  /\ line' = [line EXCEPT ![p] = Tail(@), ![Other(p)] = @ \o r.send]
  /\ IF r.code # "ERR_OK"
     THEN /\ at' = [at EXCEPT ![p] = "end"]
          /\ code' = [code EXCEPT ![p] = r.code]
          /\ blobs' = [blobs EXCEPT ![p] = @ \ {"blob", "M"}]
     ELSE /\ at' = [at EXCEPT ![p] = next] /\ code' = code
          /\ blobs' = [blobs EXCEPT ![p] = @ \ {"M"}]
  /\ con' = con

(* What a step on a message returns.                                       *)
Returned(r) ==
  /\ DOMAIN r.st = Fields
  /\ r.send = <<>> \/ \E m : r.send = <<m>>

(* Whatever the step, the variables keep their shapes and the blobs are    *)
(* given back.                                                             *)
LEMMA StartedKeeps ==
  ASSUME Shapes, MemInv, NEW p \in Parties, NEW next, Started(p, next)
  PROVE  Shapes' /\ MemInv'
BY DEF Shapes, MemInv, Started, Held

LEMMA StoppedKeeps ==
  ASSUME Shapes, MemInv, NEW p \in Parties, NEW c, NEW bs, Stopped(p, c, bs)
  PROVE  Shapes' /\ MemInv'
<1>1. MemInv'
  BY DEF Shapes, MemInv, Stopped, Held
<1>2. \A q \in Parties : line'[q] \in Seq(Queued(line'[q]))
  <2>1. CASE line' = line
    BY <2>1 DEF Shapes
  <2>2. CASE /\ line[Other(p)] # <<>>
             /\ line' = [line EXCEPT ![Other(p)] = SubSeq(@, 1, Len(@) - 1)]
    <3>1. Other(p) \in Parties /\ line[Other(p)] \in Seq(Queued(line[Other(p)]))
      BY DEF Shapes, Other, Parties
    <3>2. SubSeq(line[Other(p)], 1, Len(line[Other(p)]) - 1)
            \in Seq(Queued(SubSeq(line[Other(p)], 1, Len(line[Other(p)]) - 1)))
      BY <2>2, <3>1, QueueCut
    <3>3. QED
      BY <2>2, <3>1, <3>2 DEF Shapes
  <2>3. QED
    BY <2>1, <2>2 DEF Stopped
<1>3. DOMAIN line' = Parties
  BY DEF Shapes, Stopped
<1>4. Shapes'
  BY <1>2, <1>3 DEF Shapes, Stopped
<1>5. QED
  BY <1>1, <1>4

LEMMA EndedKeeps ==
  ASSUME Shapes, MemInv, NEW p \in Parties, Ended(p)
  PROVE  Shapes' /\ MemInv'
BY DEF Shapes, MemInv, Ended, Held

LEMMA GrownKeeps ==
  ASSUME Shapes, MemInv, NEW p \in Parties, Grown(p)
  PROVE  Shapes' /\ MemInv'
<1>1. DOMAIN obj[p] = Fields /\ obj[p].got \in Nat
  BY DEF Shapes
<1>2. obj'[p] = [obj[p] EXCEPT !.got = @ + 1] /\ DOMAIN obj' = Parties
      /\ \A q \in Parties : q # p => obj'[q] = obj[q]
  BY DEF Grown, Shapes
<1>3. DOMAIN obj'[p] = Fields /\ obj'[p].got = obj[p].got + 1
  BY <1>1, <1>2 DEF Fields
<1>4. Shapes'
  BY <1>1, <1>2, <1>3 DEF Shapes, Grown
<1>5. MemInv'
  BY <1>1, <1>2, <1>3 DEF MemInv, Shapes, Grown, Held
<1>6. QED
  BY <1>4, <1>5

LEMMA OpeningKeeps ==
  ASSUME Shapes, MemInv, NEW s, NEW m, Opening(s, m), DOMAIN s = Fields,
         s.got = obj["B"].got
  PROVE  Shapes' /\ MemInv'
<1>1. "A" \in Parties /\ "B" \in Parties
  BY DEF Parties
<1>2. obj'["B"] = s /\ DOMAIN obj' = Parties
      /\ \A q \in Parties : q # "B" => obj'[q] = obj[q]
  BY <1>1 DEF Opening, Shapes
<1>3. MemInv'
  BY <1>1, <1>2 DEF MemInv, Shapes, Opening, Held
<1>4. <<m>> \in Seq(Queued(<<m>>))
  BY QueueTyped, <<m>> \in Seq({m})
<1>5. Shapes'
  BY <1>1, <1>2, <1>4 DEF Shapes, Opening
<1>6. QED
  BY <1>3, <1>5

(* The queues after a turn.                                                *)
LEMMA TurnedQueues ==
  ASSUME Shapes, NEW p \in Parties, NEW r, NEW next, Turned(p, r, next),
         Returned(r)
  PROVE  LET q == Other(p)
         IN /\ q \in Parties /\ q # p
            /\ \A o \in Parties : line'[o] \in Seq(Queued(line'[o]))
            /\ Queued(line'[p]) = Behind(line[p])
            /\ Behind(line'[p]) \subseteq Behind(line[p])
            /\ Behind(line[p]) \subseteq Queued(line[p])
            /\ Head(line[p]) \in Queued(line[p])
            /\ r.send = <<>> => line'[q] = line[q]
            /\ \A m : r.send = <<m>> =>
                 /\ Queued(line'[q]) = Queued(line[q]) \cup {m}
                 /\ Behind(line'[q]) \subseteq Behind(line[q]) \cup {m}
                 /\ line[q] = <<>> => Behind(line'[q]) = {}
<1> DEFINE q == Other(p)
<1>1. q \in Parties /\ q # p
  BY DEF Other, Parties
<1>2. line[p] \in Seq(Queued(line[p])) /\ line[q] \in Seq(Queued(line[q]))
  BY <1>1 DEF Shapes
<1>3. line'[p] = Tail(line[p]) /\ line'[q] = line[q] \o r.send /\ line[p] # <<>>
  BY <1>1 DEF Shapes, Turned
<1>4. /\ line'[p] \in Seq(Queued(line'[p]))
      /\ Queued(line'[p]) = Behind(line[p])
      /\ Behind(line'[p]) \subseteq Behind(line[p])
      /\ Head(line[p]) \in Queued(line[p])
  BY <1>2, <1>3, QueueTail
<1>5. r.send = <<>> => line'[q] = line[q]
  BY <1>2, <1>3, QueueAppend
<1>6. ASSUME NEW m, r.send = <<m>>
      PROVE  /\ line'[q] \in Seq(Queued(line'[q]))
             /\ Queued(line'[q]) = Queued(line[q]) \cup {m}
             /\ Behind(line'[q]) \subseteq Behind(line[q]) \cup {m}
             /\ line[q] = <<>> => Behind(line'[q]) = {}
  BY <1>2, <1>3, <1>6, QueueAppend
<1>7. line'[q] \in Seq(Queued(line'[q]))
  BY <1>2, <1>5, <1>6 DEF Returned
<1>8. Behind(line[p]) \subseteq Queued(line[p])
  BY <1>2, QueueTyped
<1>9. \A o \in Parties : o = p \/ o = q
  BY DEF Other, Parties
<1>10. QED
  BY <1>1, <1>4, <1>5, <1>6, <1>7, <1>8, <1>9

LEMMA TurnedKeeps ==
  ASSUME Shapes, MemInv, NEW p \in Parties, NEW r, NEW next, Turned(p, r, next),
         Returned(r)
  PROVE  Shapes' /\ MemInv' /\ obj'[p].got = 0
         /\ \A f \in Fields \ {"got"} : obj'[p][f] = r.st[f]
<1>1. obj'[p] = [r.st EXCEPT !.got = 0] /\ DOMAIN obj' = Parties
      /\ \A o \in Parties : o # p => obj'[o] = obj[o]
  BY DEF Turned, Shapes
<1>2. DOMAIN obj'[p] = Fields /\ obj'[p].got = 0
      /\ \A f \in Fields \ {"got"} : obj'[p][f] = r.st[f]
  BY <1>1 DEF Returned, Fields
<1>3. \A o \in Parties : line'[o] \in Seq(Queued(line'[o]))
  BY TurnedQueues
<1>4. DOMAIN line' = Parties /\ DOMAIN at' = Parties /\ DOMAIN code' = Parties
      /\ DOMAIN blobs' = Parties
  BY DEF Turned, Shapes
<1>5. Shapes'
  <2>1. ASSUME NEW o \in Parties
        PROVE  DOMAIN obj'[o] = Fields /\ obj'[o].got \in Nat
    <3>1. CASE o = p
      BY <1>2, <3>1
    <3>2. CASE o # p
      BY <1>1, <3>2 DEF Shapes
    <3>3. QED
      BY <3>1, <3>2
  <2>2. QED
    BY <1>1, <1>3, <1>4, <2>1 DEF Shapes
<1>6. MemInv'
  <2>1. blobs[p] \subseteq {"blob", "M"}
    BY DEF MemInv, Turned, Held
  <2>2. at'[p] # "start" /\ at'[p] # "end" => blobs'[p] \subseteq Held(p)'
    BY <1>2, <2>1 DEF Turned, Shapes, Held
  <2>3. at'[p] = "end" => blobs'[p] = {}
    BY <2>1 DEF Turned, Shapes
  <2>4. at'[p] # "start"
    BY DEF Turned, Shapes
  <2>5. ASSUME NEW o \in Parties, o # p
        PROVE  /\ at'[o] = at[o] /\ blobs'[o] = blobs[o] /\ code'[o] = code[o]
               /\ Held(o)' = Held(o) /\ obj'[o] = obj[o]
    BY <1>1, <2>5 DEF Turned, Shapes, Held
  <2>6. QED
    BY <1>2, <2>2, <2>3, <2>4, <2>5 DEF MemInv
<1>7. QED
  BY <1>2, <1>5, <1>6
(* The steps of p that send and take nothing: queues only lose, keys stay. *)
Quiet(p) ==
  /\ con' = con
  /\ \A q \in Parties :
       /\ obj'[q].key = obj[q].key /\ obj'[q].peer = obj[q].peer
       /\ Queued(line'[q]) \subseteq Queued(line[q])
       /\ Behind(line'[q]) \subseteq Behind(line[q])
       /\ line[q] = <<>> => line'[q] = <<>>
       /\ q # p => at'[q] = at[q] /\ code'[q] = code[q]
  /\ \/ at'[p] = at[p] /\ code'[p] = code[p]
     \/ /\ at[p] = "start" /\ code'[p] = code[p]
        /\ at'[p] = (IF p = "A" THEN "read3" ELSE "step2")
     \/ /\ at[p] # "end" /\ at'[p] = "end"
        /\ code'[p] # "ERR_OK" \/ at[p] = "stepG"

LEMMA QuietSteps ==
  ASSUME Shapes, NEW p \in Parties,
         \/ \E next : Started(p, next)
         \/ \E c, bs : Stopped(p, c, bs)
         \/ Ended(p)
         \/ Grown(p)
  PROVE  Quiet(p)
<1>1. ASSUME NEW next, Started(p, next) PROVE Quiet(p)
  BY <1>1 DEF Quiet, Started, Shapes
<1>2. ASSUME NEW c, NEW bs, Stopped(p, c, bs) PROVE Quiet(p)
  <2> DEFINE o == Other(p)
             cut == SubSeq(line[o], 1, Len(line[o]) - 1)
  <2>1. o \in Parties /\ line[o] \in Seq(Queued(line[o]))
    BY DEF Shapes, Other, Parties
  <2>2. line[o] # <<>> => Queued(cut) \subseteq Queued(line[o]) /\ Behind(cut) \subseteq Behind(line[o])
    BY <2>1, QueueCut
  <2>3. \/ line' = line
        \/ line[o] # <<>> /\ line'[o] = cut /\ \A q \in Parties : q # o => line'[q] = line[q]
    BY <1>2, <2>1 DEF Stopped, Shapes
  <2>4. \A q \in Parties :
          /\ Queued(line'[q]) \subseteq Queued(line[q])
          /\ Behind(line'[q]) \subseteq Behind(line[q])
          /\ line[q] = <<>> => line'[q] = <<>>
    BY <2>2, <2>3
  <2>5. QED
    BY <1>2, <2>4 DEF Quiet, Stopped, Shapes
<1>3. ASSUME Ended(p) PROVE Quiet(p)
  BY <1>3 DEF Quiet, Ended, Shapes
<1>4. ASSUME Grown(p) PROVE Quiet(p)
  <2>1. DOMAIN obj[p] = Fields
    BY DEF Shapes
  <2>2. obj'[p] = [obj[p] EXCEPT !.got = @ + 1] /\ \A q \in Parties : q # p => obj'[q] = obj[q]
    BY <1>4 DEF Grown, Shapes
  <2>3. obj'[p].key = obj[p].key /\ obj'[p].peer = obj[p].peer
    BY <2>1, <2>2 DEF Fields
  <2>4. QED
    BY <1>4, <2>2, <2>3 DEF Quiet, Grown
<1>5. QED
  BY <1>1, <1>2, <1>3, <1>4
-----------------------------------------------------------------------------
(***************************************************************************)
(* BSTS: a text Y names the party that sealed it by its pad, and was       *)
(* sealed under the key that party has, with the party's certificate.      *)
(***************************************************************************)
Past(p) == IF p = "A" THEN at["A"] \notin {"start", "read3"}
                      ELSE at["B"] \notin {"start", "step2", "read4"}

SealedBy(p, y) ==
  /\ y.key = obj[p].key /\ y.cert = con[p].own
  /\ obj[p].key.hello = con[p].hello /\ Past(p)

TextTrue(y) ==
  /\ y.pad = 0 => SealedBy("A", y)
  /\ y.pad = 1 => SealedBy("B", y)

(* A message that may be read at read4 or read5 has a text.                *)
BstsLine ==
  /\ \A p \in Parties : \A m \in Queued(line[p]) : "y" \in DOMAIN m => TextTrue(m.y)
  /\ \A m \in Queued(line["B"]) \cup Behind(line["A"]) : "y" \in DOMAIN m
  /\ at["A"] = "read5" => \A m \in Queued(line["A"]) : "y" \in DOMAIN m
  /\ at["B"] \in {"start", "step2"} => line["A"] = <<>> /\ at["A"] # "read5"
  /\ at["A"] = "read5" => obj["A"].key.hello = con["A"].hello

(* What a party knows of its partner past the check of the partner's text. *)
Knows(p, q) ==
  /\ obj[p].key = obj[q].key /\ con[p].hello = con[q].hello /\ Past(q)

BstsEnds ==
  \A p \in Parties :
    /\ code[p] = "ERR_OK" => at[p] = "end"
    /\ at[p] = "stepG" \/ code[p] = "ERR_OK" =>
         Knows(p, Other(p)) /\ obj[p].peer = con[Other(p)].own

BstsInv == BstsLine /\ BstsEnds

(* What the steps return.                                                  *)
LEMMA BstsStep3 ==
  ASSUME Shapes, NEW m, NEW n, NEW r, r = BSTS!Step3(m, n)
  PROVE  /\ Returned(r)
         /\ r.code # "ERR_OK" => r.st = obj["A"] /\ r.send = <<>>
         /\ r.code = "ERR_OK" =>
              /\ r.st.key.hello = con["A"].hello
              /\ \E w : /\ r.send = <<w>> /\ "y" \in DOMAIN w
                        /\ w.y.key = r.st.key /\ w.y.cert = con["A"].own
                        /\ w.y.pad = 0
<1> DEFINE k == BSTS!KeyOf("A", n, m.v)
           c == BSTS!Factor(BSTS!X(n), BSTS!X(m.v))
           y == BSTS!Sealed(k, 0, BSTS!Sign(c, n, con["A"].d), con["A"].own)
           s == [obj["A"] EXCEPT !.u = n, !.v = m.v, !.t = c, !.key = k]
           w == BSTS!M2(n, y, con["A"].blocks)
<1>1. DOMAIN obj["A"] = Fields
  BY DEF Shapes, Parties
<1>2. r = IF m.v = 0 THEN BSTS!Error("ERR_BAD_POINT", obj["A"]) ELSE BSTS!Done(s, <<w>>)
  BY DEF BSTS!Step3
<1>3. k.hello = con["A"].hello
  BY DEF BSTS!KeyOf
<1>4. "y" \in DOMAIN w /\ w.y = y
  BY DEF BSTS!M2
<1>5. y.key = k /\ y.cert = con["A"].own /\ y.pad = 0
  BY DEF BSTS!Sealed
<1> HIDE DEF k, c, y, w
<1>6. DOMAIN s = Fields /\ s.key = k
  BY <1>1 DEF Fields
<1> HIDE DEF s
<1>7. CASE m.v = 0
  BY <1>1, <1>2, <1>7 DEF BSTS!Error, Returned
<1>8. CASE m.v # 0
  <2>1. r.code = "ERR_OK" /\ r.st = s /\ r.send = <<w>>
    BY <1>2, <1>8 DEF BSTS!Done
  <2>2. QED
    BY <1>3, <1>4, <1>5, <1>6, <2>1 DEF Returned
<1>9. QED
  BY <1>7, <1>8

(* A text that is opened was sealed, by the party its pad says, under the  *)
(* key of the one who opens it.                                            *)
LEMMA BstsOpened ==
  ASSUME NEW s, NEW m, NEW pad, NEW c, NEW v, BSTS!Opened(s, m, pad, c, v) = "ERR_OK"
  PROVE  m.t = m.y /\ m.y.key = s.key /\ m.y.pad = pad
BY DEF BSTS!Opened

LEMMA BstsStep4 ==
  ASSUME Shapes, NEW m, NEW r, r = BSTS!Step4(m)
  PROVE  /\ Returned(r)
         /\ r.code # "ERR_OK" => r.send = <<>>
         /\ r.code = "ERR_OK" =>
              /\ r.st.key.hello = con["B"].hello
              /\ m.y.key = r.st.key /\ m.y.pad = 0 /\ r.st.peer = m.y.cert
              /\ \E w : /\ r.send = <<w>> /\ "y" \in DOMAIN w
                        /\ w.y.key = r.st.key /\ w.y.cert = con["B"].own
                        /\ w.y.pad = 1
<1> DEFINE s == obj["B"]
           h == BSTS!KeyOf("B", s.u, m.v)
           k == [s EXCEPT !.key = h, !.r = m.v]
           c == BSTS!Factor(BSTS!X(m.v), BSTS!X(s.v))
           ret == BSTS!Opened(k, m, 0, c, m.v)
           y == BSTS!Sealed(k.key, 1, BSTS!Sign(c, s.u, con["B"].d), con["B"].own)
           w == BSTS!M3(y, con["B"].blocks)
           e == [k EXCEPT !.peer = m.y.cert]
<1>1. DOMAIN s = Fields
  BY DEF Shapes, Parties
<1>2. r = CASE m.v = 0 -> BSTS!Error("ERR_BAD_POINT", s)
            [] m.v # 0 /\ ret # "ERR_OK" -> BSTS!Error(ret, k)
            [] OTHER -> BSTS!Done(e, <<w>>)
  BY DEF BSTS!Step4
<1>3. h.hello = con["B"].hello
  BY DEF BSTS!KeyOf
<1>4. "y" \in DOMAIN w /\ w.y = y
  BY DEF BSTS!M3
<1>5. y.key = k.key /\ y.cert = con["B"].own /\ y.pad = 1
  BY DEF BSTS!Sealed
<1>6. ret = "ERR_OK" => m.y.key = k.key /\ m.y.pad = 0
  <2> HIDE DEF k, c
  <2>1. QED
    BY BstsOpened
<1> HIDE DEF h, c, y, w, ret
<1>7. DOMAIN k = Fields /\ k.key = h
  BY <1>1 DEF Fields
<1> HIDE DEF k
<1>8. DOMAIN e = Fields /\ e.key = k.key /\ e.peer = m.y.cert
  BY <1>7 DEF Fields
<1> HIDE DEF e, s
<1>9. CASE m.v = 0
  <2>1. r = BSTS!Error("ERR_BAD_POINT", s)
    BY <1>2, <1>9
  <2>2. QED
    BY <1>1, <2>1 DEF BSTS!Error, Returned
<1>10. CASE m.v # 0 /\ ret # "ERR_OK"
  <2>1. r = BSTS!Error(ret, k)
    BY <1>2, <1>10
  <2>2. r.code = ret /\ r.st = k /\ r.send = <<>>
    BY <2>1 DEF BSTS!Error
  <2>3. QED
    BY <1>7, <1>10, <2>2 DEF Returned
<1>11. CASE m.v # 0 /\ ret = "ERR_OK"
  <2>1. r = BSTS!Done(e, <<w>>)
    BY <1>2, <1>11
  <2>2. r.code = "ERR_OK" /\ r.st = e /\ r.send = <<w>>
    BY <2>1 DEF BSTS!Done
  <2>3. QED
    BY <1>3, <1>4, <1>5, <1>6, <1>7, <1>8, <1>11, <2>2 DEF Returned
<1>12. QED
  BY <1>9, <1>10, <1>11

LEMMA BstsStep5 ==
  ASSUME Shapes, NEW m, NEW r, r = BSTS!Step5(m)
  PROVE  /\ Returned(r) /\ r.send = <<>> /\ r.st.key = obj["A"].key
         /\ r.code = "ERR_OK" =>
              m.y.key = r.st.key /\ m.y.pad = 1 /\ r.st.peer = m.y.cert
<1> DEFINE s == obj["A"]
           ret == BSTS!Opened(s, m, 1, s.t, s.v)
           e == [s EXCEPT !.peer = m.y.cert]
<1>1. DOMAIN s = Fields
  BY DEF Shapes, Parties
<1>2. r = IF ret # "ERR_OK" THEN BSTS!Error(ret, s) ELSE BSTS!Done(e, <<>>)
  BY DEF BSTS!Step5
<1>3. ret = "ERR_OK" => m.y.key = s.key /\ m.y.pad = 1
  BY BstsOpened
<1>4. DOMAIN e = Fields /\ e.key = s.key /\ e.peer = m.y.cert
  BY <1>1 DEF Fields
<1> HIDE DEF ret, e
<1>5. CASE ret # "ERR_OK"
  BY <1>1, <1>2, <1>5 DEF BSTS!Error, Returned
<1>6. CASE ret = "ERR_OK"
  BY <1>2, <1>3, <1>4, <1>6 DEF BSTS!Done, Returned
<1>7. QED
  BY <1>5, <1>6

(* The line and the lost end of a message make no texts.                   *)
LEMMA BstsSpoilt ==
  ASSUME NEW h, "y" \in DOMAIN h, NEW m \in BSTS!Spoil(h)
  PROVE  "y" \in DOMAIN m /\ m.y \in {h.y, BSTS!NoText}
<1>1. \/ \E v : m = [h EXCEPT !.v = v]
      \/ m = [h EXCEPT !.y = BSTS!NoText] \/ m = [h EXCEPT !.t = BSTS!NoText]
  <2>1. CASE "v" \in DOMAIN h
    BY <2>1 DEF BSTS!Spoil
  <2>2. CASE "v" \notin DOMAIN h
    BY <2>2 DEF BSTS!Spoil
  <2>3. QED
    BY <2>1, <2>2
<1> HIDE DEF BSTS!NoText
<1>2. ASSUME NEW v, m = [h EXCEPT !.v = v]
      PROVE  "y" \in DOMAIN m /\ m.y = h.y
  BY <1>2
<1>3. CASE m = [h EXCEPT !.y = BSTS!NoText]
  BY <1>3
<1>4. CASE m = [h EXCEPT !.t = BSTS!NoText]
  BY <1>4
<1>5. QED
  BY <1>1, <1>2, <1>3, <1>4

LEMMA BstsWhole ==
  ASSUME NEW m, "y" \in DOMAIN m, NEW got
  PROVE  BSTS!Whole(m, got).y \in {m.y, BSTS!NoText}
BY DEF BSTS!Whole

LEMMA BstsHeard ==
  ASSUME NEW p \in Parties, NEW m, m \in BSTS!Heard(p, BSTS!Spoil), NEW got,
         "y" \in DOMAIN Head(line[p])
  PROVE  BSTS!Whole(m, got).y \in {Head(line[p]).y, BSTS!NoText}
<1> DEFINE h == Head(line[p])
<1>1. m = h \/ m \in BSTS!Spoil(h)
  BY Zenon DEF BSTS!Heard
<1>2. "y" \in DOMAIN m /\ m.y \in {h.y, BSTS!NoText}
  <2> HIDE DEF h
  <2>1. QED
    BY Zenon, <1>1, BstsSpoilt DEF h
<1>3. BSTS!Whole(m, got).y \in {m.y, BSTS!NoText}
  BY Zenon, <1>2, BstsWhole
<1> HIDE DEF h
<1>4. QED
  <2>1. ASSUME NEW x, NEW y, NEW z, NEW n, y \in {x, n}, z \in {y, n}
        PROVE  z \in {x, n}
    BY Zenon, <2>1
  <2>2. QED
    BY Zenon, <1>2, <1>3, <2>1 DEF h

(* The runs of BSTS in the terms of the patterns.                          *)
LEMMA BstsTurn ==
  ASSUME NEW p \in Parties, NEW m, NEW r, NEW next, BSTS!Turn(p, m, r, next),
         con' = con, at[p] \notin {"start", "end", "stepG"}, line[p] # <<>>,
         next \notin {"start", "end"}
  PROVE  Turned(p, r, next)
BY DEF BSTS!Turn, BSTS!Return, Turned, BSTS!Other, Other

LEMMA BstsStart ==
  ASSUME Shapes, MemInv, NEW p \in Parties, NEW next, BSTS!Start(p, next),
         next = (IF p = "A" THEN "read3" ELSE "step2")
  PROVE  Started(p, next) \/ \E c, bs : Stopped(p, c, bs)
<1>1. at[p] = "start" /\ blobs[p] = {}
  BY DEF BSTS!Start, MemInv
<1>2. ASSUME NEW c \in {"ERR_OUTOFMEMORY", "ERR_BAD_CERT"}, BSTS!Return(p, c, {"blob"}),
             UNCHANGED <<con, obj, line>>
      PROVE  Stopped(p, c, {"blob"})
  BY <1>1, <1>2 DEF BSTS!Return, Stopped
<1>3. CASE /\ at' = [at EXCEPT ![p] = next] /\ blobs' = [blobs EXCEPT ![p] = {"blob"}]
           /\ UNCHANGED <<con, obj, line, code>>
  BY <1>1, <1>3 DEF Started, Parties
<1>4. QED
  BY <1>2, <1>3 DEF BSTS!Start

LEMMA BstsOutside ==
  ASSUME NEW l, NEW c \in BSTS!Outside(l)
  PROVE  c # "ERR_OK" /\ l \in {"step2", "read3", "read4", "read5"}
<1>1. CASE l \in {"step2", "read3", "read4", "read5"}
  BY <1>1 DEF BSTS!Outside
<1>2. CASE l \notin {"step2", "read3", "read4", "read5"}
  <2>1. BSTS!Outside(l) = {}
    BY <1>2 DEF BSTS!Outside
  <2>2. QED
    BY <2>1
<1>3. QED
  BY <1>1, <1>2

LEMMA BstsStops ==
  ASSUME Shapes, MemInv, NEW p \in Parties,
         \/ BSTS!LastFails(p)
         \/ BSTS!WriteFails(p, {"read4", "stepG"}) \/ BSTS!WriteFails(p, {"read5"})
         \/ BSTS!Breaks(p, BSTS!Outside, BSTS!Broken(p))
  PROVE  \E c, bs : Stopped(p, c, bs)
<1>1. CASE BSTS!LastFails(p)
  <2>1. Stopped(p, "ERR_OUTOFMEMORY", {"blob"})
    BY <1>1 DEF BSTS!LastFails, BSTS!Reading, BSTS!Return, Stopped
  <2>2. QED
    BY <2>1
<1>2. CASE BSTS!WriteFails(p, {"read4", "stepG"}) \/ BSTS!WriteFails(p, {"read5"})
  <2>1. at[p] \in {"read4", "stepG", "read5"} /\ obj[p].got = 0 /\ BSTS!Return(p, "ERR_FILE", {"blob"})
    BY <1>2 DEF BSTS!WriteFails
  <2>2. blobs[p] \subseteq {"blob"}
    BY <2>1 DEF MemInv, Held
  <2>3. /\ UNCHANGED <<con, obj>>
        /\ \/ line' = line
           \/ /\ line[Other(p)] # <<>>
              /\ line' = [line EXCEPT ![Other(p)] = SubSeq(@, 1, Len(@) - 1)]
    BY <1>2 DEF BSTS!WriteFails, BSTS!Other, Other
  <2>4. Stopped(p, "ERR_FILE", {"blob"})
    BY <2>1, <2>2, <2>3 DEF BSTS!Return, Stopped
  <2>5. QED
    BY <2>4
<1>3. CASE BSTS!Breaks(p, BSTS!Outside, BSTS!Broken(p))
  <2>1. UNCHANGED <<con, obj, line>> /\ \E c \in BSTS!Outside(at[p]) : BSTS!Return(p, c, BSTS!Broken(p))
    BY Zenon, <1>3 DEF BSTS!Breaks
  <2>2. PICK c : c \in BSTS!Outside(at[p]) /\ BSTS!Return(p, c, BSTS!Broken(p))
    BY <2>1
  <2>3. c # "ERR_OK" /\ at[p] \in {"step2", "read3", "read4", "read5"}
    BY <2>2, BstsOutside
  <2>4. blobs[p] \subseteq BSTS!Broken(p)
    BY <2>3 DEF MemInv, Held, BSTS!Broken
  <2>5. Stopped(p, c, BSTS!Broken(p))
    BY <2>1, <2>2, <2>3, <2>4 DEF BSTS!Return, Stopped
  <2>6. QED
    BY <2>5
<1>4. QED
  BY <1>1, <1>2, <1>3

LEMMA BstsBlock ==
  ASSUME Shapes, MemInv, NEW p \in Parties, BSTS!ReadBlock(p)
  PROVE  Grown(p) \/ \E c, bs : Stopped(p, c, bs)
<1>1. at[p] \in {"read4", "read5"} /\ UNCHANGED <<con, line>>
  BY DEF BSTS!ReadBlock, BSTS!Reading
<1>2. CASE /\ obj' = [obj EXCEPT ![p].got = @ + 1]
           /\ blobs' = [blobs EXCEPT ![p] = @ \cup {"M"}]
           /\ UNCHANGED <<at, code>>
  BY <1>1, <1>2 DEF Grown
<1>3. CASE BSTS!Return(p, "ERR_OUTOFMEMORY", {"blob"}) /\ obj' = obj
  <2>1. Stopped(p, "ERR_OUTOFMEMORY", {"blob"})
    BY <1>1, <1>3 DEF BSTS!Return, Stopped
  <2>2. QED
    BY <2>1
<1>4. QED
  BY <1>2, <1>3 DEF BSTS!ReadBlock

(* What the step is given: the text of the message or none.                *)
Text(p, w) == "y" \in DOMAIN Head(line[p]) => w.y \in {Head(line[p]).y, BSTS!NoText}

LEMMA BstsReads ==
  ASSUME Shapes, MemInv
  PROVE  /\ \A m, n : at["A"] = "read3" /\ line["A"] # <<>> /\ con' = con
              /\ BSTS!Turn("A", m, BSTS!Step3(m, n), "read5")
              => Turned("A", BSTS!Step3(m, n), "read5")
         /\ \A m : at["A"] = "read5" /\ line["A"] # <<>> /\ con' = con
              /\ BSTS!Turn("A", m, BSTS!Step5(BSTS!Whole(m, obj["A"].got)), "stepG")
              => Turned("A", BSTS!Step5(BSTS!Whole(m, obj["A"].got)), "stepG")
         /\ \A m : at["B"] = "read4" /\ line["B"] # <<>> /\ con' = con
              /\ BSTS!Turn("B", m, BSTS!Step4(BSTS!Whole(m, obj["B"].got)), "stepG")
              => Turned("B", BSTS!Step4(BSTS!Whole(m, obj["B"].got)), "stepG")
<1>1. "A" \in Parties /\ "B" \in Parties
  BY DEF Parties
<1>2. "read5" \notin {"start", "end"} /\ "stepG" \notin {"start", "end"}
  OBVIOUS
<1>3. ASSUME NEW m, NEW n, at["A"] = "read3", line["A"] # <<>>, con' = con,
             BSTS!Turn("A", m, BSTS!Step3(m, n), "read5")
      PROVE  Turned("A", BSTS!Step3(m, n), "read5")
  <2> DEFINE r == BSTS!Step3(m, n)
  <2>1. BSTS!Turn("A", m, r, "read5") /\ at["A"] \notin {"start", "end", "stepG"}
    BY <1>3
  <2> HIDE DEF r
  <2>2. Turned("A", r, "read5")
    BY <1>1, <1>2, <1>3, <2>1, BstsTurn
  <2>3. QED
    BY <2>2 DEF r
<1>4. ASSUME NEW m, at["A"] = "read5", line["A"] # <<>>, con' = con,
             BSTS!Turn("A", m, BSTS!Step5(BSTS!Whole(m, obj["A"].got)), "stepG")
      PROVE  Turned("A", BSTS!Step5(BSTS!Whole(m, obj["A"].got)), "stepG")
  <2> DEFINE r == BSTS!Step5(BSTS!Whole(m, obj["A"].got))
  <2>1. BSTS!Turn("A", m, r, "stepG") /\ at["A"] \notin {"start", "end", "stepG"}
    BY <1>4
  <2> HIDE DEF r
  <2>2. Turned("A", r, "stepG")
    BY <1>1, <1>2, <1>4, <2>1, BstsTurn
  <2>3. QED
    BY <2>2 DEF r
<1>5. ASSUME NEW m, at["B"] = "read4", line["B"] # <<>>, con' = con,
             BSTS!Turn("B", m, BSTS!Step4(BSTS!Whole(m, obj["B"].got)), "stepG")
      PROVE  Turned("B", BSTS!Step4(BSTS!Whole(m, obj["B"].got)), "stepG")
  <2> DEFINE r == BSTS!Step4(BSTS!Whole(m, obj["B"].got))
  <2>1. BSTS!Turn("B", m, r, "stepG") /\ at["B"] \notin {"start", "end", "stepG"}
    BY <1>5
  <2> HIDE DEF r
  <2>2. Turned("B", r, "stepG")
    BY <1>1, <1>2, <1>5, <2>1, BstsTurn
  <2>3. QED
    BY <2>2 DEF r
<1>6. QED
  BY Zenon, <1>3, <1>4, <1>5

(* What the parties of BSTS do.                                            *)
Passes(p) ==
  \/ \E next : Started(p, next)
  \/ \E c, bs : Stopped(p, c, bs)
  \/ Ended(p)
  \/ Grown(p)

BstsTurns(p) ==
  \/ p = "B" /\ \E n : Opening([obj["B"] EXCEPT !.u = n, !.v = n], [v |-> n])
  \/ p = "A" /\ at["A"] = "read3" /\ \E m, n : Turned("A", BSTS!Step3(m, n), "read5")
  \/ p = "A" /\ at["A"] = "read5" /\ \E w : Text("A", w) /\ Turned("A", BSTS!Step5(w), "stepG")
  \/ p = "B" /\ at["B"] = "read4" /\ \E w : Text("B", w) /\ Turned("B", BSTS!Step4(w), "stepG")

LEMMA BstsMovesA ==
  ASSUME Shapes, MemInv, BSTS!RunA
  PROVE  Passes("A") \/ BstsTurns("A")
<1>1. "A" \in Parties
  BY DEF Parties
<1>2. CASE BSTS!Start("A", "read3")
  BY <1>1, <1>2, BstsStart DEF Passes
<1>3. CASE /\ at["A"] = "read3" /\ line["A"] # <<>>
           /\ \E m \in BSTS!Heard("A", BSTS!Spoil), n \in BSTS!Points :
                BSTS!Turn("A", m, BSTS!Step3(m, n), "read5")
           /\ UNCHANGED con
  <2>1. \E m, n : Turned("A", BSTS!Step3(m, n), "read5")
    BY Zenon, <1>3, BstsReads
  <2>2. QED
    BY Zenon, <1>3, <2>1 DEF BstsTurns
<1>4. CASE BSTS!ReadBlock("A")
  BY Zenon, <1>1, <1>4, BstsBlock DEF Passes
<1>5. CASE \/ BSTS!LastFails("A") \/ BSTS!WriteFails("A", {"read5"})
           \/ BSTS!Breaks("A", BSTS!Outside, BSTS!Broken("A"))
  BY Zenon, <1>1, <1>5, BstsStops DEF Passes
<1>6. CASE /\ at["A"] = "read5" /\ BSTS!Reading("A")
           /\ \E m \in BSTS!Heard("A", BSTS!Spoil) :
                /\ BSTS!ReadLast("A", m)
                /\ BSTS!Turn("A", m, BSTS!Step5(BSTS!Whole(m, obj["A"].got)), "stepG")
           /\ UNCHANGED con
  <2>1. PICK m : m \in BSTS!Heard("A", BSTS!Spoil)
                 /\ BSTS!Turn("A", m, BSTS!Step5(BSTS!Whole(m, obj["A"].got)), "stepG")
    BY Zenon, <1>6
  <2>2. line["A"] # <<>> /\ con' = con /\ at["A"] = "read5"
    BY Zenon, <1>6 DEF BSTS!Reading
  <2>3. Turned("A", BSTS!Step5(BSTS!Whole(m, obj["A"].got)), "stepG")
    BY Zenon, <2>1, <2>2, BstsReads
  <2>4. Text("A", BSTS!Whole(m, obj["A"].got))
    BY Zenon, <1>1, <2>1, BstsHeard DEF Text
  <2>5. QED
    BY Zenon, <2>2, <2>3, <2>4 DEF BstsTurns
<1>7. CASE BSTS!StepG("A")
  <2>1. Ended("A")
    BY <1>7 DEF BSTS!StepG, BSTS!Return, Ended
  <2>2. QED
    BY <2>1 DEF Passes
<1>8. QED
  BY Zenon, <1>2, <1>3, <1>4, <1>5, <1>6, <1>7 DEF BSTS!RunA

LEMMA BstsMovesB ==
  ASSUME Shapes, MemInv, BSTS!RunB
  PROVE  Passes("B") \/ BstsTurns("B")
<1>1. "B" \in Parties /\ "B" # "A"
  BY DEF Parties
<1>2. CASE BSTS!Start("B", "step2")
  BY <1>1, <1>2, BstsStart DEF Passes
<1>3. CASE /\ at["B"] = "step2"
           /\ \E n \in BSTS!Points : LET r == BSTS!Step2(n)
                                     IN /\ obj' = [obj EXCEPT !["B"] = r.st]
                                        /\ line' = [line EXCEPT !["A"] = r.send]
           /\ at' = [at EXCEPT !["B"] = "read4"]
           /\ UNCHANGED <<con, code, blobs, slips>>
  <2>1. PICK n : /\ obj' = [obj EXCEPT !["B"] = BSTS!Step2(n).st]
                 /\ line' = [line EXCEPT !["A"] = BSTS!Step2(n).send]
    BY Zenon, <1>3
  <2>2. /\ BSTS!Step2(n).st = [obj["B"] EXCEPT !.u = n, !.v = n]
        /\ BSTS!Step2(n).send = <<[v |-> n]>>
    BY DEF BSTS!Step2, BSTS!Done, BSTS!M1
  <2>3. Opening([obj["B"] EXCEPT !.u = n, !.v = n], [v |-> n])
    BY <1>3, <2>1, <2>2 DEF Opening
  <2>4. QED
    BY Zenon, <2>3 DEF BstsTurns
<1>4. CASE BSTS!ReadBlock("B")
  BY Zenon, <1>1, <1>4, BstsBlock DEF Passes
<1>5. CASE \/ BSTS!LastFails("B") \/ BSTS!WriteFails("B", {"read4", "stepG"})
           \/ BSTS!Breaks("B", BSTS!Outside, BSTS!Broken("B"))
  BY Zenon, <1>1, <1>5, BstsStops DEF Passes
<1>6. CASE /\ at["B"] = "read4" /\ BSTS!Reading("B")
           /\ \E m \in BSTS!Heard("B", BSTS!Spoil) :
                /\ BSTS!ReadLast("B", m)
                /\ BSTS!Turn("B", m, BSTS!Step4(BSTS!Whole(m, obj["B"].got)), "stepG")
           /\ UNCHANGED con
  <2>1. PICK m : m \in BSTS!Heard("B", BSTS!Spoil)
                 /\ BSTS!Turn("B", m, BSTS!Step4(BSTS!Whole(m, obj["B"].got)), "stepG")
    BY Zenon, <1>6
  <2>2. line["B"] # <<>> /\ con' = con /\ at["B"] = "read4"
    BY Zenon, <1>6 DEF BSTS!Reading
  <2>3. Turned("B", BSTS!Step4(BSTS!Whole(m, obj["B"].got)), "stepG")
    BY Zenon, <2>1, <2>2, BstsReads
  <2>4. Text("B", BSTS!Whole(m, obj["B"].got))
    BY Zenon, <1>1, <2>1, BstsHeard DEF Text
  <2>5. QED
    BY Zenon, <2>2, <2>3, <2>4 DEF BstsTurns
<1>7. CASE BSTS!StepG("B")
  <2>1. Ended("B")
    BY <1>7 DEF BSTS!StepG, BSTS!Return, Ended
  <2>2. QED
    BY <2>1 DEF Passes
<1>8. QED
  BY Zenon, <1>2, <1>3, <1>4, <1>5, <1>6, <1>7 DEF BSTS!RunB

(* The invariant in each of the steps.                                     *)
LEMMA BstsQuiet ==
  ASSUME Shapes, BstsInv, NEW p \in Parties, Quiet(p)
  PROVE  BstsInv'
<1>1. Other("A") = "B" /\ Other("B") = "A" /\ Parties = {"A", "B"}
  BY DEF Other, Parties
<1>2. /\ \A q \in Parties : Past(q) => Past(q)'
      /\ \A q \in Parties : at'[q] \in {"read5", "stepG"} => at'[q] = at[q]
      /\ \A q \in Parties : code'[q] = "ERR_OK" => code[q] = "ERR_OK" \/ at[q] = "stepG"
      /\ at'["B"] \in {"start", "step2"} => at["B"] \in {"start", "step2"}
  BY <1>1 DEF Quiet, Past
<1>3. con' = con /\ \A q \in Parties :
        /\ obj'[q].key = obj[q].key /\ obj'[q].peer = obj[q].peer
        /\ Queued(line'[q]) \subseteq Queued(line[q])
        /\ Behind(line'[q]) \subseteq Behind(line[q])
        /\ line[q] = <<>> => line'[q] = <<>>
  BY DEF Quiet
<1>4. \A q \in Parties : \A y : SealedBy(q, y) => SealedBy(q, y)'
  BY <1>2, <1>3 DEF SealedBy
<1>5. \A y : TextTrue(y) => TextTrue(y)'
  BY <1>1, <1>4 DEF TextTrue
<1>6. BstsLine'
  BY <1>1, <1>2, <1>3, <1>5 DEF BstsLine, BstsInv
<1>7. \A q \in Parties : code'[q] = "ERR_OK" => at'[q] = "end"
  BY <1>1 DEF BstsInv, BstsEnds, Quiet
<1>8. BstsEnds'
  BY <1>1, <1>2, <1>3, <1>7 DEF BstsEnds, BstsInv, Knows
<1>9. QED
  BY <1>6, <1>8 DEF BstsInv

LEMMA BstsOpens ==
  ASSUME Shapes, BstsInv, NEW n, Opening([obj["B"] EXCEPT !.u = n, !.v = n], [v |-> n])
  PROVE  BstsInv'
<1>1. Other("A") = "B" /\ Other("B") = "A" /\ Parties = {"A", "B"}
  BY DEF Other, Parties
<1>2. /\ obj'["A"] = obj["A"] /\ con' = con /\ code' = code /\ at'["A"] = at["A"]
      /\ at["B"] = "step2" /\ at'["B"] = "read4" /\ line'["B"] = line["B"]
      /\ line'["A"] = <<[v |-> n]>>
  BY <1>1 DEF Opening, Shapes
<1>3. /\ Queued(line'["A"]) = {[v |-> n]} /\ Behind(line'["A"]) = {}
      /\ "y" \notin DOMAIN [v |-> n]
  BY <1>2 DEF Queued, Behind
<1>4. ~ Past("B") /\ ~ Past("B")' /\ (Past("A") <=> Past("A")')
  BY <1>2 DEF Past
<1>5. \A y : TextTrue(y) => TextTrue(y)'
  BY <1>2, <1>4 DEF TextTrue, SealedBy
<1>6. at["A"] # "read5"
  BY <1>2 DEF BstsInv, BstsLine
<1>7. BstsLine'
  BY <1>1, <1>2, <1>3, <1>5, <1>6 DEF BstsLine, BstsInv
<1>8. BstsEnds'
  BY <1>1, <1>2, <1>4 DEF BstsEnds, BstsInv, Knows
<1>9. QED
  BY <1>7, <1>8 DEF BstsInv

LEMMA BstsTurn3 ==
  ASSUME Shapes, MemInv, BstsInv, at["A"] = "read3", NEW m, NEW n,
         Turned("A", BSTS!Step3(m, n), "read5")
  PROVE  BstsInv'
<1> DEFINE r == BSTS!Step3(m, n)
<1>1. Other("A") = "B" /\ Other("B") = "A" /\ Parties = {"A", "B"}
  BY DEF Other, Parties
<1>2. Turned("A", r, "read5")
  OBVIOUS
<1>3. /\ Returned(r)
      /\ r.code # "ERR_OK" => r.send = <<>>
      /\ r.code = "ERR_OK" =>
           /\ r.st.key.hello = con["A"].hello
           /\ \E w : /\ r.send = <<w>> /\ "y" \in DOMAIN w
                     /\ w.y.key = r.st.key /\ w.y.cert = con["A"].own
                     /\ w.y.pad = 0
  BY BstsStep3
<1> HIDE DEF r
<1>4. /\ con' = con /\ at'["B"] = at["B"] /\ code'["B"] = code["B"] /\ obj'["B"] = obj["B"]
      /\ line["A"] # <<>>
      /\ r.code = "ERR_OK" => at'["A"] = "read5" /\ code'["A"] = code["A"]
      /\ r.code # "ERR_OK" => at'["A"] = "end" /\ code'["A"] = r.code
  BY <1>1, <1>2 DEF Turned, Shapes
<1>5. obj'["A"].key = r.st.key
  BY <1>1, <1>2, <1>3, TurnedKeeps DEF Fields
<1>6. /\ Queued(line'["A"]) \subseteq Behind(line["A"])
      /\ Behind(line'["A"]) \subseteq Behind(line["A"])
      /\ Behind(line["A"]) \subseteq Queued(line["A"])
      /\ r.send = <<>> => line'["B"] = line["B"]
      /\ \A w : r.send = <<w>> => Queued(line'["B"]) = Queued(line["B"]) \cup {w}
  BY <1>1, <1>2, <1>3, TurnedQueues
<1>7. ~ Past("A") /\ Past("A")' /\ (Past("B") <=> Past("B")')
  BY <1>4 DEF Past
<1>8. \A y : TextTrue(y) => TextTrue(y)'
  BY <1>4, <1>7 DEF TextTrue, SealedBy
<1>9. at["B"] \notin {"start", "step2"}
  BY <1>4 DEF BstsInv, BstsLine
<1>10. BstsLine'
  <2>1. CASE r.code # "ERR_OK"
    BY <1>1, <1>3, <1>4, <1>6, <1>8, <1>9, <2>1 DEF BstsLine, BstsInv
  <2>2. CASE r.code = "ERR_OK"
    <3>1. PICK w : /\ r.send = <<w>> /\ "y" \in DOMAIN w
                   /\ w.y.key = r.st.key /\ w.y.cert = con["A"].own
                   /\ w.y.pad = 0
      BY <1>3, <2>2
    <3>2. TextTrue(w.y)'
      BY <1>3, <1>4, <1>5, <1>7, <2>2, <3>1 DEF TextTrue, SealedBy
    <3>3. Queued(line'["B"]) = Queued(line["B"]) \cup {w}
      BY <1>6, <3>1
    <3>4. \A m1 \in Queued(line'["A"]) : "y" \in DOMAIN m1 /\ TextTrue(m1.y)'
      BY <1>1, <1>6, <1>8 DEF BstsLine, BstsInv
    <3>5. \A m1 \in Queued(line'["B"]) : "y" \in DOMAIN m1 /\ TextTrue(m1.y)'
      BY <1>1, <1>8, <3>1, <3>2, <3>3 DEF BstsLine, BstsInv
    <3>6. QED
      BY <1>1, <1>3, <1>4, <1>5, <1>6, <1>9, <2>2, <3>4, <3>5 DEF BstsLine, BstsInv
  <2>3. QED
    BY <2>1, <2>2
<1>11. BstsEnds'
  BY <1>1, <1>4, <1>7 DEF BstsEnds, BstsInv, Knows
<1>12. QED
  BY <1>10, <1>11 DEF BstsInv

LEMMA BstsTurn4 ==
  ASSUME Shapes, MemInv, BstsInv, at["B"] = "read4", NEW w, Text("B", w),
         Turned("B", BSTS!Step4(w), "stepG")
  PROVE  BstsInv'
<1> DEFINE r == BSTS!Step4(w)
<1>1. Other("A") = "B" /\ Other("B") = "A" /\ Parties = {"A", "B"}
  BY DEF Other, Parties
<1>2. Turned("B", r, "stepG")
  OBVIOUS
<1>3. /\ Returned(r)
      /\ r.code # "ERR_OK" => r.send = <<>>
      /\ r.code = "ERR_OK" =>
              /\ r.st.key.hello = con["B"].hello
              /\ w.y.key = r.st.key /\ w.y.pad = 0 /\ r.st.peer = w.y.cert
              /\ \E x : /\ r.send = <<x>> /\ "y" \in DOMAIN x
                        /\ x.y.key = r.st.key /\ x.y.cert = con["B"].own
                        /\ x.y.pad = 1
  BY BstsStep4
<1> HIDE DEF r
<1>4. /\ con' = con /\ at'["A"] = at["A"] /\ code'["A"] = code["A"] /\ obj'["A"] = obj["A"]
      /\ line["B"] # <<>>
      /\ r.code = "ERR_OK" => at'["B"] = "stepG" /\ code'["B"] = code["B"]
      /\ r.code # "ERR_OK" => at'["B"] = "end" /\ code'["B"] = r.code
  BY <1>1, <1>2 DEF Turned, Shapes
<1>5. obj'["B"].key = r.st.key /\ obj'["B"].peer = r.st.peer
  BY <1>1, <1>2, <1>3, TurnedKeeps DEF Fields
<1>6. /\ Queued(line'["B"]) \subseteq Queued(line["B"])
      /\ Head(line["B"]) \in Queued(line["B"])
      /\ r.send = <<>> => line'["A"] = line["A"]
      /\ \A x : r.send = <<x>> =>
           /\ Queued(line'["A"]) = Queued(line["A"]) \cup {x}
           /\ Behind(line'["A"]) \subseteq Behind(line["A"]) \cup {x}
  BY <1>1, <1>2, <1>3, TurnedQueues
<1>7. ~ Past("B") /\ Past("B")' /\ (Past("A") <=> Past("A")')
  BY <1>4 DEF Past
<1>8. \A y : TextTrue(y) => TextTrue(y)'
  BY <1>4, <1>7 DEF TextTrue, SealedBy
<1>9. r.code = "ERR_OK" => SealedBy("A", w.y)
  <2>1. "y" \in DOMAIN Head(line["B"]) /\ TextTrue(Head(line["B"]).y)
    BY <1>1, <1>6 DEF BstsInv, BstsLine
  <2>2. BSTS!NoText.pad # 0
    BY DEF BSTS!NoText
  <2> HIDE DEF BSTS!NoText
  <2>3. w.y \in {Head(line["B"]).y, BSTS!NoText}
    BY <2>1 DEF Text
  <2>4. QED
    BY <1>3, <2>1, <2>2, <2>3 DEF TextTrue
<1>10. BstsLine'
  <2>1. CASE r.code # "ERR_OK"
    BY <1>1, <1>3, <1>4, <1>6, <1>8, <2>1 DEF BstsLine, BstsInv
  <2>2. CASE r.code = "ERR_OK"
    <3>1. PICK x : /\ r.send = <<x>> /\ "y" \in DOMAIN x
                   /\ x.y.key = r.st.key /\ x.y.cert = con["B"].own
                   /\ x.y.pad = 1
      BY <1>3, <2>2
    <3>2. TextTrue(x.y)'
      BY <1>3, <1>4, <1>5, <1>7, <2>2, <3>1 DEF TextTrue, SealedBy
    <3>3. /\ Queued(line'["A"]) = Queued(line["A"]) \cup {x}
          /\ Behind(line'["A"]) \subseteq Behind(line["A"]) \cup {x}
      BY <1>6, <3>1
    <3>4. \A q \in Parties : \A m \in Queued(line'[q]) : "y" \in DOMAIN m => TextTrue(m.y)'
      BY <1>1, <1>6, <1>8, <3>2, <3>3 DEF BstsLine, BstsInv
    <3>5. \A m \in Queued(line'["B"]) \cup Behind(line'["A"]) : "y" \in DOMAIN m
      BY <1>1, <1>6, <3>1, <3>3 DEF BstsLine, BstsInv
    <3>6. QED
      BY <1>1, <1>4, <2>2, <3>1, <3>3, <3>4, <3>5 DEF BstsLine, BstsInv
  <2>3. QED
    BY <2>1, <2>2
<1>11. BstsEnds'
  BY <1>1, <1>3, <1>4, <1>5, <1>7, <1>9 DEF BstsEnds, BstsInv, Knows, SealedBy
<1>12. QED
  BY <1>10, <1>11 DEF BstsInv

LEMMA BstsTurn5 ==
  ASSUME Shapes, MemInv, BstsInv, at["A"] = "read5", NEW w, Text("A", w),
         Turned("A", BSTS!Step5(w), "stepG")
  PROVE  BstsInv'
<1> DEFINE r == BSTS!Step5(w)
<1>1. Other("A") = "B" /\ Other("B") = "A" /\ Parties = {"A", "B"}
  BY DEF Other, Parties
<1>2. Turned("A", r, "stepG")
  OBVIOUS
<1>3. /\ Returned(r) /\ r.send = <<>> /\ r.st.key = obj["A"].key
      /\ r.code = "ERR_OK" =>
           w.y.key = r.st.key /\ w.y.pad = 1 /\ r.st.peer = w.y.cert
  BY BstsStep5
<1> HIDE DEF r
<1>4. /\ con' = con /\ at'["B"] = at["B"] /\ code'["B"] = code["B"] /\ obj'["B"] = obj["B"]
      /\ line["A"] # <<>>
      /\ r.code = "ERR_OK" => at'["A"] = "stepG" /\ code'["A"] = code["A"]
      /\ r.code # "ERR_OK" => at'["A"] = "end" /\ code'["A"] = r.code
  BY <1>1, <1>2 DEF Turned, Shapes
<1>5. obj'["A"].key = obj["A"].key /\ obj'["A"].peer = r.st.peer
  BY <1>1, <1>2, <1>3, TurnedKeeps DEF Fields
<1>6. /\ Queued(line'["A"]) \subseteq Queued(line["A"])
      /\ Behind(line'["A"]) \subseteq Behind(line["A"])
      /\ Head(line["A"]) \in Queued(line["A"])
      /\ line'["B"] = line["B"]
  BY <1>1, <1>2, <1>3, TurnedQueues
<1>7. Past("A") /\ Past("A")' /\ (Past("B") <=> Past("B")')
  BY <1>4 DEF Past
<1>8. \A y : TextTrue(y) => TextTrue(y)'
  BY <1>4, <1>5, <1>7 DEF TextTrue, SealedBy
<1>9. r.code = "ERR_OK" => SealedBy("B", w.y)
  <2>1. "y" \in DOMAIN Head(line["A"]) /\ TextTrue(Head(line["A"]).y)
    BY <1>1, <1>6 DEF BstsInv, BstsLine
  <2>2. BSTS!NoText.pad # 1
    BY DEF BSTS!NoText
  <2> HIDE DEF BSTS!NoText
  <2>3. w.y \in {Head(line["A"]).y, BSTS!NoText}
    BY <2>1 DEF Text
  <2>4. QED
    BY <1>3, <2>1, <2>2, <2>3 DEF TextTrue
<1>10. BstsLine'
  BY <1>1, <1>4, <1>5, <1>6, <1>8 DEF BstsLine, BstsInv
<1>11. BstsEnds'
  <2>1. obj["A"].key.hello = con["A"].hello
    BY DEF BstsLine, BstsInv
  <2>2. QED
    BY <1>1, <1>3, <1>4, <1>5, <1>7, <1>9, <2>1 DEF BstsEnds, BstsInv, Knows, SealedBy
<1>12. QED
  BY <1>10, <1>11 DEF BstsInv

(* A party of BSTS keeps the shapes, gives the memory back and keeps the   *)
(* invariant.                                                              *)
LEMMA PassesKeep ==
  ASSUME Shapes, MemInv, NEW p \in Parties, Passes(p)
  PROVE  Shapes' /\ MemInv' /\ Quiet(p)
BY StartedKeeps, StoppedKeeps, EndedKeeps, GrownKeeps, QuietSteps DEF Passes

LEMMA BstsStep ==
  ASSUME Shapes, MemInv, NEW p \in Parties, BstsTurns(p)
  PROVE  Shapes' /\ MemInv' /\ (BstsInv => BstsInv')
<1>1. "A" \in Parties /\ "B" \in Parties /\ DOMAIN obj["B"] = Fields
  BY DEF Parties, Shapes
<1>2. ASSUME NEW n, Opening([obj["B"] EXCEPT !.u = n, !.v = n], [v |-> n])
      PROVE  Shapes' /\ MemInv' /\ (BstsInv => BstsInv')
  <2> DEFINE s == [obj["B"] EXCEPT !.u = n, !.v = n]
             m == [v |-> n]
  <2>1. DOMAIN s = Fields /\ s.got = obj["B"].got /\ Opening(s, m)
    BY <1>1, <1>2 DEF Fields
  <2>2. BstsInv => BstsInv'
    BY Zenon, <1>2, BstsOpens
  <2> HIDE DEF s, m
  <2>3. QED
    BY <2>1, <2>2, OpeningKeeps
<1>3. ASSUME NEW m, NEW n, at["A"] = "read3", Turned("A", BSTS!Step3(m, n), "read5")
      PROVE  Shapes' /\ MemInv' /\ (BstsInv => BstsInv')
  <2> DEFINE r == BSTS!Step3(m, n)
  <2>1. Returned(r) /\ Turned("A", r, "read5")
    BY <1>3, BstsStep3
  <2>2. BstsInv => BstsInv'
    BY <1>3, BstsTurn3
  <2> HIDE DEF r
  <2>3. QED
    BY <1>1, <2>1, <2>2, TurnedKeeps
<1>4. ASSUME NEW w, at["A"] = "read5", Text("A", w), Turned("A", BSTS!Step5(w), "stepG")
      PROVE  Shapes' /\ MemInv' /\ (BstsInv => BstsInv')
  <2> DEFINE r == BSTS!Step5(w)
  <2>1. Returned(r) /\ Turned("A", r, "stepG")
    BY <1>4, BstsStep5
  <2>2. BstsInv => BstsInv'
    BY <1>4, BstsTurn5
  <2> HIDE DEF r
  <2>3. QED
    BY <1>1, <2>1, <2>2, TurnedKeeps
<1>5. ASSUME NEW w, at["B"] = "read4", Text("B", w), Turned("B", BSTS!Step4(w), "stepG")
      PROVE  Shapes' /\ MemInv' /\ (BstsInv => BstsInv')
  <2> DEFINE r == BSTS!Step4(w)
  <2>1. Returned(r) /\ Turned("B", r, "stepG")
    BY <1>5, BstsStep4
  <2>2. BstsInv => BstsInv'
    BY <1>5, BstsTurn4
  <2> HIDE DEF r
  <2>3. QED
    BY <1>1, <2>1, <2>2, TurnedKeeps
<1>6. QED
  BY Zenon, <1>2, <1>3, <1>4, <1>5 DEF BstsTurns

LEMMA BstsInvKept ==
  ASSUME part = "bsts", Shapes, MemInv, NEW p \in Parties, Theirs(p)
  PROVE  Shapes' /\ MemInv' /\ (BstsInv => BstsInv')
<1>1. (p = "A" /\ BSTS!RunA) \/ (p = "B" /\ BSTS!RunB)
  BY Zenon DEF Theirs
<1>2. Passes(p) \/ BstsTurns(p)
  BY Zenon, <1>1, BstsMovesA, BstsMovesB
<1>3. QED
  BY Zenon, <1>2, PassesKeep, BstsQuiet, BstsStep
-----------------------------------------------------------------------------
(***************************************************************************)
(* BPACE: a tag was made by the party of its kind from the key it has.     *)
(***************************************************************************)
Derived(p) == IF p = "A" THEN at["A"] \notin {"start", "read3", "read5"}
                         ELSE at["B"] \notin {"start", "step2", "read4"}

MadeBy(p, T) ==
  /\ T.of = obj[p].key /\ obj[p].key.hello = con[p].hello /\ Derived(p)

MarkTrue(T) ==
  "kind" \in DOMAIN T =>
    /\ T.kind = "Ta" => MadeBy("A", T)
    /\ T.kind = "Tb" => MadeBy("B", T)

BpaceLine ==
  /\ \A p \in Parties : \A m \in Queued(line[p]) : "T" \in DOMAIN m => MarkTrue(m.T)
  /\ \A p \in Parties : \A m \in Behind(line[p]) : "T" \in DOMAIN m
  /\ at["A"] = "read5" => \A m \in Queued(line["A"]) : "T" \in DOMAIN m
  /\ at["B"] = "read6" => \A m \in Queued(line["B"]) : "T" \in DOMAIN m
  /\ at["B"] \in {"start", "step2"} => line["A"] = <<>> /\ at["A"] # "read5"
  /\ at["A"] \in {"start", "read3"} => line["B"] = <<>> /\ at["B"] # "read6"
  /\ at["B"] = "read6" => obj["B"].key.hello = con["B"].hello

BpaceEnds ==
  \A p \in Parties :
    /\ code[p] = "ERR_OK" => at[p] = "end"
    /\ p \in BPACE!Due /\ (at[p] = "stepG" \/ code[p] = "ERR_OK") =>
         /\ obj[p].key = obj[Other(p)].key /\ con[p].hello = con[Other(p)].hello
         /\ Derived(Other(p))

(* The messages of BPACE and BAUTH are read whole.                         *)
NoBlocks == \A p \in Parties : obj[p].got = 0

BpaceInv == BpaceLine /\ BpaceEnds

(* What the steps return.                                                  *)
LEMMA BpaceStep3 ==
  ASSUME Shapes, NEW m, NEW n, NEW x, NEW r, r = BPACE!Step3(m, n, x)
  PROVE  /\ Returned(r) /\ r.code = "ERR_OK" /\ r.st.key = obj["A"].key
         /\ \E w : r.send = <<w>> /\ "T" \notin DOMAIN w
<1> DEFINE V == BPACE!Pt(<<n, BPACE!Decr(con["A"].pwd, m.y)>>, x)
           s == [obj["A"] EXCEPT !.u = x, !.v = V]
           w == BPACE!M2(BPACE!Encr(con["A"].pwd, n), V)
<1>1. DOMAIN obj["A"] = Fields
  BY DEF Shapes, Parties
<1>2. r = BPACE!Done(s, <<w>>)
  BY DEF BPACE!Step3
<1>3. "T" \notin DOMAIN w
  BY DEF BPACE!M2
<1> HIDE DEF V, w
<1>4. DOMAIN s = Fields /\ s.key = obj["A"].key
  BY <1>1 DEF Fields
<1> HIDE DEF s
<1>5. r.code = "ERR_OK" /\ r.st = s /\ r.send = <<w>>
  BY <1>2 DEF BPACE!Done
<1>6. QED
  BY <1>3, <1>4, <1>5 DEF Returned

LEMMA BpaceStep4 ==
  ASSUME Shapes, NEW m, NEW x, NEW r, r = BPACE!Step4(m, x)
  PROVE  /\ Returned(r)
         /\ r.code # "ERR_OK" => r.send = <<>>
         /\ r.code = "ERR_OK" =>
              /\ r.st.key.hello = con["B"].hello
              /\ \E w : /\ r.send = <<w>> /\ "T" \in DOMAIN w
                        /\ "kind" \in DOMAIN w.T => w.T.kind = "Tb" /\ w.T.of = r.st.key
<1> DEFINE s == obj["B"]
           V == BPACE!Pt(<<BPACE!Decr(con["B"].pwd, m.y), s.r>>, x)
           k == BPACE!KeyOf("B", BPACE!Mul(x, m.V), m.V, V)
           T == BPACE!TagIf(con["B"].kcb, "Tb", k)
           e == [s EXCEPT !.u = x, !.v = V, !.key = k]
           w == BPACE!M3(V, T)
<1>1. DOMAIN s = Fields
  BY DEF Shapes, Parties
<1>2. r = IF m.V.k = 0 THEN BPACE!Error("ERR_BAD_POINT", s) ELSE BPACE!Done(e, <<w>>)
  BY DEF BPACE!Step4
<1>3. k.hello = con["B"].hello
  BY DEF BPACE!KeyOf
<1>4. "T" \in DOMAIN w /\ w.T = T
  BY DEF BPACE!M3
<1>5. "kind" \in DOMAIN T => T.kind = "Tb" /\ T.of = k
  <2> HIDE DEF k
  <2>1. QED
    BY DEF BPACE!TagIf, BPACE!Tag, BPACE!NoTag
<1> HIDE DEF V, k, T, w
<1>6. DOMAIN e = Fields /\ e.key = k
  BY <1>1 DEF Fields
<1> HIDE DEF e, s
<1>7. CASE m.V.k = 0
  BY <1>1, <1>2, <1>7 DEF BPACE!Error, Returned
<1>8. CASE m.V.k # 0
  <2>1. r.code = "ERR_OK" /\ r.st = e /\ r.send = <<w>>
    BY <1>2, <1>8 DEF BPACE!Done
  <2>2. QED
    BY <1>3, <1>4, <1>5, <1>6, <2>1 DEF Returned
<1>9. QED
  BY <1>7, <1>8

LEMMA BpaceStep5 ==
  ASSUME Shapes, NEW m, NEW r, r = BPACE!Step5(m)
  PROVE  /\ Returned(r)
         /\ r.code # "ERR_OK" => r.send = <<>>
         /\ r.code = "ERR_OK" =>
              /\ r.st.key.hello = con["A"].hello
              /\ con["A"].kcb => /\ "kind" \in DOMAIN m.T
                                 /\ m.T.kind = "Tb" /\ m.T.of = r.st.key
              /\ \/ r.send = <<>>
                 \/ \E w : /\ r.send = <<w>> /\ "T" \in DOMAIN w
                           /\ w.T.kind = "Ta" /\ w.T.of = r.st.key
<1> DEFINE s == obj["A"]
           h == BPACE!KeyOf("A", BPACE!Mul(s.u, m.V), s.v, m.V)
           k == [s EXCEPT !.key = h]
           w == BPACE!M4(BPACE!Tag("Ta", h))
           q == IF con["A"].kca THEN <<w>> ELSE <<>>
           bad == con["A"].kcb /\ m.T # BPACE!Tag("Tb", h)
<1>1. DOMAIN s = Fields
  BY DEF Shapes, Parties
<1>2. r = CASE m.V.k = 0 -> BPACE!Error("ERR_BAD_POINT", s)
            [] m.V.k # 0 /\ con["A"].kcb /\ m.T # BPACE!Tag("Tb", h) -> BPACE!Error("ERR_AUTH", k)
            [] OTHER -> BPACE!Done(k, q)
  BY DEF BPACE!Step5
<1>3. h.hello = con["A"].hello
  BY DEF BPACE!KeyOf
<1> HIDE DEF h
<1>4. "T" \in DOMAIN w /\ w.T.kind = "Ta" /\ w.T.of = h
  BY DEF BPACE!M4, BPACE!Tag
<1>5. ~ bad /\ con["A"].kcb => "kind" \in DOMAIN m.T /\ m.T.kind = "Tb" /\ m.T.of = h
  BY DEF BPACE!Tag
<1>6. r = CASE m.V.k = 0 -> BPACE!Error("ERR_BAD_POINT", s)
            [] m.V.k # 0 /\ bad -> BPACE!Error("ERR_AUTH", k)
            [] OTHER -> BPACE!Done(k, q)
  BY <1>2
<1> HIDE DEF w, bad
<1>7. DOMAIN k = Fields /\ k.key = h
  BY <1>1 DEF Fields
<1>8. q = <<>> \/ q = <<w>>
  OBVIOUS
<1> HIDE DEF k, s, q
<1>9. CASE m.V.k = 0
  <2>1. r = BPACE!Error("ERR_BAD_POINT", s)
    BY <1>6, <1>9
  <2>2. QED
    BY <1>1, <2>1 DEF BPACE!Error, Returned
<1>10. CASE m.V.k # 0 /\ bad
  <2>1. r = BPACE!Error("ERR_AUTH", k)
    BY <1>6, <1>10
  <2>2. QED
    BY <1>7, <2>1 DEF BPACE!Error, Returned
<1>11. CASE m.V.k # 0 /\ ~ bad
  <2>1. r = BPACE!Done(k, q)
    BY <1>6, <1>11
  <2>2. r.code = "ERR_OK" /\ r.st = k /\ r.send = q
    BY <2>1 DEF BPACE!Done
  <2>3. QED
    BY <1>3, <1>4, <1>5, <1>7, <1>8, <1>11, <2>2 DEF Returned
<1>12. QED
  BY <1>9, <1>10, <1>11

LEMMA BpaceStep6 ==
  ASSUME Shapes, NEW m, NEW r, r = BPACE!Step6(m)
  PROVE  /\ Returned(r) /\ r.send = <<>> /\ r.st = obj["B"]
         /\ r.code = "ERR_OK" =>
              "kind" \in DOMAIN m.T /\ m.T.kind = "Ta" /\ m.T.of = obj["B"].key
<1>1. DOMAIN obj["B"] = Fields
  BY DEF Shapes, Parties
<1>2. CASE m.T = BPACE!Tag("Ta", obj["B"].key)
  <2>1. r = BPACE!Done(obj["B"], <<>>)
    BY <1>2 DEF BPACE!Step6
  <2>2. "kind" \in DOMAIN m.T /\ m.T.kind = "Ta" /\ m.T.of = obj["B"].key
    BY <1>2 DEF BPACE!Tag
  <2>3. QED
    BY <1>1, <2>1, <2>2 DEF BPACE!Done, Returned
<1>3. CASE m.T # BPACE!Tag("Ta", obj["B"].key)
  <2>1. r = BPACE!Error("ERR_AUTH", obj["B"])
    BY <1>3 DEF BPACE!Step6
  <2>2. QED
    BY <1>1, <2>1 DEF BPACE!Error, Returned
<1>4. QED
  BY <1>2, <1>3

(* The line makes no tags.                                                 *)
LEMMA BpaceSpoilt ==
  ASSUME NEW h, "T" \in DOMAIN h, NEW m \in BPACE!Spoil(h)
  PROVE  "T" \in DOMAIN m /\ m.T \in {h.T, BPACE!Noise}
<1>1. \/ \E y : m = [h EXCEPT !.y = y]
      \/ \E k : m = [h EXCEPT !.V.k = k]
      \/ m = [h EXCEPT !.T = BPACE!Noise]
  <2>1. CASE "y" \in DOMAIN h /\ "V" \in DOMAIN h
    BY <2>1 DEF BPACE!Spoil
  <2>2. CASE "y" \notin DOMAIN h /\ "V" \in DOMAIN h
    BY <2>2 DEF BPACE!Spoil
  <2>3. CASE "y" \in DOMAIN h /\ "V" \notin DOMAIN h
    BY <2>3 DEF BPACE!Spoil
  <2>4. CASE "y" \notin DOMAIN h /\ "V" \notin DOMAIN h
    BY <2>4 DEF BPACE!Spoil
  <2>5. QED
    BY <2>1, <2>2, <2>3, <2>4
<1> HIDE DEF BPACE!Noise
<1>2. ASSUME NEW y, m = [h EXCEPT !.y = y]
      PROVE  "T" \in DOMAIN m /\ m.T = h.T
  BY <1>2
<1>3. ASSUME NEW k, m = [h EXCEPT !.V.k = k]
      PROVE  "T" \in DOMAIN m /\ m.T = h.T
  BY <1>3
<1>4. CASE m = [h EXCEPT !.T = BPACE!Noise]
  BY <1>4
<1>5. QED
  BY <1>1, <1>2, <1>3, <1>4

LEMMA BpaceHeard ==
  ASSUME NEW p \in Parties, NEW m, m \in BPACE!Heard(p, BPACE!Spoil),
         "T" \in DOMAIN Head(line[p])
  PROVE  m.T \in {Head(line[p]).T, BPACE!Noise}
<1> DEFINE h == Head(line[p])
<1>1. m = h \/ m \in BPACE!Spoil(h)
  BY Zenon DEF BPACE!Heard
<1> HIDE DEF h
<1>2. m.T \in {h.T, BPACE!Noise}
  BY Zenon, <1>1, BpaceSpoilt DEF h
<1>3. QED
  BY Zenon, <1>2 DEF h

(* The runs of BPACE in the terms of the patterns.                         *)
LEMMA BpaceTurn ==
  ASSUME NEW p \in Parties, NEW m, NEW r, NEW next, BPACE!Turn(p, m, r, next),
         con' = con, at[p] \notin {"start", "end", "stepG"}, line[p] # <<>>,
         next \notin {"start", "end"}
  PROVE  Turned(p, r, next)
BY DEF BPACE!Turn, BPACE!Return, Turned, BPACE!Other, Other

LEMMA BpaceStart ==
  ASSUME Shapes, MemInv, NEW p \in Parties, NEW next, BPACE!Start(p, next),
         next = (IF p = "A" THEN "read3" ELSE "step2")
  PROVE  Started(p, next) \/ \E c, bs : Stopped(p, c, bs)
<1>1. at[p] = "start" /\ blobs[p] = {}
  BY DEF BPACE!Start, MemInv
<1>2. ASSUME NEW c \in {"ERR_OUTOFMEMORY", "ERR_BAD_CERT"}, BPACE!Return(p, c, {"blob"}),
             UNCHANGED <<con, obj, line>>
      PROVE  Stopped(p, c, {"blob"})
  BY <1>1, <1>2 DEF BPACE!Return, Stopped
<1>3. CASE /\ at' = [at EXCEPT ![p] = next] /\ blobs' = [blobs EXCEPT ![p] = {"blob"}]
           /\ UNCHANGED <<con, obj, line, code>>
  BY <1>1, <1>3 DEF Started, Parties
<1>4. QED
  BY <1>2, <1>3 DEF BPACE!Start

LEMMA BpaceOutside ==
  ASSUME NEW l, NEW c \in BPACE!Outside(l)
  PROVE  c # "ERR_OK" /\ l \in {"read3", "read4", "read5", "read6"}
<1>1. CASE l \in {"read3", "read4", "read5", "read6"}
  BY <1>1 DEF BPACE!Outside
<1>2. CASE l \notin {"read3", "read4", "read5", "read6"}
  <2>1. BPACE!Outside(l) = {}
    BY <1>2 DEF BPACE!Outside
  <2>2. QED
    BY <2>1
<1>3. QED
  BY <1>1, <1>2

LEMMA BpaceStops ==
  ASSUME Shapes, MemInv, NoBlocks, NEW p \in Parties,
         \/ \E sent : /\ sent \subseteq {"read4", "stepG", "read5", "read6"}
                      /\ BPACE!WriteFails(p, sent)
         \/ BPACE!Breaks(p, BPACE!Outside, {"blob"})
  PROVE  \E c, bs : Stopped(p, c, bs)
<1>1. at[p] \notin {"start", "end"} => blobs[p] \subseteq {"blob"}
  BY DEF MemInv, Held, NoBlocks
<1>2. ASSUME NEW sent, sent \subseteq {"read4", "stepG", "read5", "read6"},
             BPACE!WriteFails(p, sent)
      PROVE  \E c, bs : Stopped(p, c, bs)
  <2>1. at[p] \in {"read4", "stepG", "read5", "read6"} /\ BPACE!Return(p, "ERR_FILE", {"blob"})
    BY <1>2 DEF BPACE!WriteFails
  <2>2. /\ UNCHANGED <<con, obj>>
        /\ \/ line' = line
           \/ /\ line[Other(p)] # <<>>
              /\ line' = [line EXCEPT ![Other(p)] = SubSeq(@, 1, Len(@) - 1)]
    BY <1>2 DEF BPACE!WriteFails, BPACE!Other, Other
  <2>3. Stopped(p, "ERR_FILE", {"blob"})
    BY <1>1, <2>1, <2>2 DEF BPACE!Return, Stopped
  <2>4. QED
    BY <2>3
<1>3. CASE BPACE!Breaks(p, BPACE!Outside, {"blob"})
  <2>1. UNCHANGED <<con, obj, line>> /\ \E c \in BPACE!Outside(at[p]) : BPACE!Return(p, c, {"blob"})
    BY Zenon, <1>3 DEF BPACE!Breaks
  <2>2. PICK c : c \in BPACE!Outside(at[p]) /\ BPACE!Return(p, c, {"blob"})
    BY <2>1
  <2>3. c # "ERR_OK" /\ at[p] \in {"read3", "read4", "read5", "read6"}
    BY <2>2, BpaceOutside
  <2>4. Stopped(p, c, {"blob"})
    BY <1>1, <2>1, <2>2, <2>3 DEF BPACE!Return, Stopped
  <2>5. QED
    BY <2>4
<1>4. QED
  BY <1>2, <1>3

(* What a step is given: the tag of the message or noise.                  *)
Mark(p, m) == "T" \in DOMAIN Head(line[p]) => m.T \in {Head(line[p]).T, BPACE!Noise}

(* What the parties of BPACE and BAUTH do when they read nothing.          *)
Moves(p) ==
  \/ \E next : Started(p, next)
  \/ \E c, bs : Stopped(p, c, bs)
  \/ Ended(p)

BpaceTurns(p) ==
  \/ p = "B" /\ \E n, y : Opening([obj["B"] EXCEPT !.r = n], [y |-> y])
  \/ p = "A" /\ at["A"] = "read3" /\ \E m, n, x : Turned("A", BPACE!Step3(m, n, x), "read5")
  \/ p = "A" /\ at["A"] = "read5"
     /\ \E m : Mark("A", m) /\ Turned("A", BPACE!Step5(m), "stepG")
  \/ p = "B" /\ at["B"] = "read4"
     /\ \E m, x : Turned("B", BPACE!Step4(m, x), IF con["B"].kca THEN "read6" ELSE "stepG")
  \/ p = "B" /\ at["B"] = "read6"
     /\ \E m : Mark("B", m) /\ Turned("B", BPACE!Step6(m), "stepG")

LEMMA BpaceMovesA ==
  ASSUME Shapes, MemInv, NoBlocks, BPACE!RunA
  PROVE  Moves("A") \/ BpaceTurns("A")
<1>1. "A" \in Parties /\ "read5" \notin {"start", "end"} /\ "stepG" \notin {"start", "end"}
  BY DEF Parties
<1>2. CASE BPACE!Start("A", "read3")
  BY <1>1, <1>2, BpaceStart DEF Moves
<1>3. CASE /\ BPACE!Hears("A", "read3")
           /\ \E m \in BPACE!Heard("A", BPACE!Spoil), r \in BPACE!Rs, x \in BPACE!Points :
                BPACE!Turn("A", m, BPACE!Step3(m, r, x), "read5")
           /\ UNCHANGED con
  <2>1. PICK m, r, x : BPACE!Turn("A", m, BPACE!Step3(m, r, x), "read5")
    BY Zenon, <1>3
  <2>2. line["A"] # <<>> /\ con' = con /\ at["A"] = "read3"
    BY Zenon, <1>3 DEF BPACE!Hears
  <2> DEFINE s == BPACE!Step3(m, r, x)
  <2>3. BPACE!Turn("A", m, s, "read5")
    BY Zenon, <2>1
  <2> HIDE DEF s
  <2>4. at["A"] \notin {"start", "end", "stepG"}
    BY <2>2
  <2>5. Turned("A", s, "read5")
    BY <1>1, <2>2, <2>3, <2>4, BpaceTurn
  <2>6. QED
    BY Zenon, <2>2, <2>5 DEF BpaceTurns, s
<1>4. CASE \/ BPACE!WriteFails("A", IF con["A"].kca THEN {"read5", "stepG"} ELSE {"read5"})
           \/ BPACE!Breaks("A", BPACE!Outside, {"blob"})
  <2>1. (IF con["A"].kca THEN {"read5", "stepG"} ELSE {"read5"}) \subseteq {"read4", "stepG", "read5", "read6"}
    OBVIOUS
  <2> QED
    BY Zenon, <1>1, <1>4, <2>1, BpaceStops DEF Moves
<1>5. CASE /\ BPACE!Hears("A", "read5")
           /\ \E m \in BPACE!Heard("A", BPACE!Spoil) : BPACE!Turn("A", m, BPACE!Step5(m), "stepG")
           /\ UNCHANGED con
  <2>1. PICK m : m \in BPACE!Heard("A", BPACE!Spoil)
                 /\ BPACE!Turn("A", m, BPACE!Step5(m), "stepG")
    BY Zenon, <1>5
  <2>2. line["A"] # <<>> /\ con' = con /\ at["A"] = "read5"
    BY Zenon, <1>5 DEF BPACE!Hears
  <2> DEFINE s == BPACE!Step5(m)
  <2>3. BPACE!Turn("A", m, s, "stepG")
    BY Zenon, <2>1
  <2>4. Mark("A", m)
    BY Zenon, <1>1, <2>1, BpaceHeard DEF Mark
  <2> HIDE DEF s
  <2>5. at["A"] \notin {"start", "end", "stepG"}
    BY <2>2
  <2>6. Turned("A", s, "stepG")
    BY <1>1, <2>2, <2>3, <2>5, BpaceTurn
  <2>7. QED
    BY Zenon, <2>2, <2>4, <2>6 DEF BpaceTurns, s
<1>6. CASE BPACE!StepG("A")
  <2>1. Ended("A")
    BY <1>6 DEF BPACE!StepG, BPACE!Return, Ended
  <2>2. QED
    BY <2>1 DEF Moves
<1>7. CASE BPACE!ShortRead
  <2>1. at["A"] = "read5" /\ blobs["A"] \subseteq {"blob"}
    BY <1>1, <1>7 DEF BPACE!ShortRead, MemInv, Held, NoBlocks
  <2>2. Stopped("A", "ERR_FILE", {"blob"})
    BY <1>7, <2>1 DEF BPACE!ShortRead, BPACE!Return, Stopped
  <2> QED
    BY <2>2 DEF Moves
<1>8. QED
  BY Zenon, <1>2, <1>3, <1>4, <1>5, <1>6, <1>7 DEF BPACE!RunA

LEMMA BpaceMovesB ==
  ASSUME Shapes, MemInv, NoBlocks, BPACE!RunB
  PROVE  Moves("B") \/ BpaceTurns("B")
<1>1. "B" \in Parties /\ "B" # "A" /\ "stepG" \notin {"start", "end"}
  BY DEF Parties
<1>2. CASE BPACE!Start("B", "step2")
  BY <1>1, <1>2, BpaceStart DEF Moves
<1>3. CASE /\ at["B"] = "step2"
           /\ \E r \in BPACE!Rs : /\ obj' = [obj EXCEPT !["B"] = BPACE!Step2(r).st]
                                  /\ line' = [line EXCEPT !["A"] = BPACE!Step2(r).send]
           /\ at' = [at EXCEPT !["B"] = "read4"]
           /\ UNCHANGED <<con, code, blobs, slips>>
  <2>1. PICK r : /\ obj' = [obj EXCEPT !["B"] = BPACE!Step2(r).st]
                 /\ line' = [line EXCEPT !["A"] = BPACE!Step2(r).send]
    BY Zenon, <1>3
  <2> DEFINE y == BPACE!Encr(con["B"].pwd, r)
  <2>2. /\ BPACE!Step2(r).st = [obj["B"] EXCEPT !.r = r]
        /\ BPACE!Step2(r).send = <<[y |-> y]>>
    BY DEF BPACE!Step2, BPACE!Done, BPACE!M1
  <2> HIDE DEF y
  <2>3. Opening([obj["B"] EXCEPT !.r = r], [y |-> y])
    BY <1>3, <2>1, <2>2 DEF Opening
  <2>4. QED
    BY Zenon, <2>3 DEF BpaceTurns
<1>4. CASE \/ BPACE!WriteFails("B", {"read4", IF con["B"].kca THEN "read6" ELSE "stepG"})
           \/ BPACE!Breaks("B", BPACE!Outside, {"blob"})
  <2>1. {"read4", IF con["B"].kca THEN "read6" ELSE "stepG"} \subseteq {"read4", "stepG", "read5", "read6"}
    OBVIOUS
  <2> QED
    BY Zenon, <1>1, <1>4, <2>1, BpaceStops DEF Moves
<1>5. CASE /\ BPACE!Hears("B", "read4")
           /\ \E m \in BPACE!Heard("B", BPACE!Spoil), x \in BPACE!Points :
                BPACE!Turn("B", m, BPACE!Step4(m, x), IF con["B"].kca THEN "read6" ELSE "stepG")
           /\ UNCHANGED con
  <2> DEFINE next == IF con["B"].kca THEN "read6" ELSE "stepG"
  <2>1. PICK m, x : BPACE!Turn("B", m, BPACE!Step4(m, x), next)
    BY Zenon, <1>5
  <2>2. line["B"] # <<>> /\ con' = con /\ at["B"] = "read4"
    BY Zenon, <1>5 DEF BPACE!Hears
  <2> DEFINE s == BPACE!Step4(m, x)
  <2>3. BPACE!Turn("B", m, s, next)
    BY Zenon, <2>1
  <2>4. at["B"] \notin {"start", "end", "stepG"} /\ next \notin {"start", "end"}
    BY <2>2
  <2> HIDE DEF s, next
  <2>5. Turned("B", s, next)
    BY <1>1, <2>2, <2>3, <2>4, BpaceTurn
  <2>6. QED
    BY Zenon, <2>2, <2>5 DEF BpaceTurns, s, next
<1>6. CASE /\ BPACE!Hears("B", "read6")
           /\ \E m \in BPACE!Heard("B", BPACE!Spoil) : BPACE!Turn("B", m, BPACE!Step6(m), "stepG")
           /\ UNCHANGED con
  <2>1. PICK m : m \in BPACE!Heard("B", BPACE!Spoil)
                 /\ BPACE!Turn("B", m, BPACE!Step6(m), "stepG")
    BY Zenon, <1>6
  <2>2. line["B"] # <<>> /\ con' = con /\ at["B"] = "read6"
    BY Zenon, <1>6 DEF BPACE!Hears
  <2> DEFINE s == BPACE!Step6(m)
  <2>3. BPACE!Turn("B", m, s, "stepG")
    BY Zenon, <2>1
  <2>4. Mark("B", m)
    BY Zenon, <1>1, <2>1, BpaceHeard DEF Mark
  <2> HIDE DEF s
  <2>5. at["B"] \notin {"start", "end", "stepG"}
    BY <2>2
  <2>6. Turned("B", s, "stepG")
    BY <1>1, <2>2, <2>3, <2>5, BpaceTurn
  <2>7. QED
    BY Zenon, <2>2, <2>4, <2>6 DEF BpaceTurns, s
<1>7. CASE BPACE!StepG("B")
  <2>1. Ended("B")
    BY <1>7 DEF BPACE!StepG, BPACE!Return, Ended
  <2>2. QED
    BY <2>1 DEF Moves
<1>8. QED
  BY Zenon, <1>2, <1>3, <1>4, <1>5, <1>6, <1>7 DEF BPACE!RunB

(* The invariant in each of the steps.                                     *)
LEMMA BpaceQuiet ==
  ASSUME Shapes, BpaceInv, NEW p \in Parties, Quiet(p)
  PROVE  BpaceInv'
<1>1. Other("A") = "B" /\ Other("B") = "A" /\ Parties = {"A", "B"}
  BY DEF Other, Parties
<1>2. /\ \A q \in Parties : Derived(q) => Derived(q)'
      /\ \A q \in Parties : at'[q] \in {"read5", "read6", "stepG"} => at'[q] = at[q]
      /\ \A q \in Parties : code'[q] = "ERR_OK" => code[q] = "ERR_OK" \/ at[q] = "stepG"
      /\ at'["B"] \in {"start", "step2"} => at["B"] \in {"start", "step2"}
      /\ at'["A"] \in {"start", "read3"} => at["A"] \in {"start", "read3"}
  BY <1>1 DEF Quiet, Derived
<1>3. con' = con /\ \A q \in Parties :
        /\ obj'[q].key = obj[q].key
        /\ Queued(line'[q]) \subseteq Queued(line[q])
        /\ Behind(line'[q]) \subseteq Behind(line[q])
        /\ line[q] = <<>> => line'[q] = <<>>
  BY DEF Quiet
<1>4. \A q \in Parties : \A T : MadeBy(q, T) => MadeBy(q, T)'
  BY <1>2, <1>3 DEF MadeBy
<1>5. \A T : MarkTrue(T) => MarkTrue(T)'
  BY <1>1, <1>4 DEF MarkTrue
<1>6. BpaceLine'
  <2>1. \A q \in Parties : \A m \in Queued(line'[q]) : "T" \in DOMAIN m => MarkTrue(m.T)'
    BY <1>3, <1>5 DEF BpaceLine, BpaceInv
  <2>2. \A q \in Parties : \A m \in Behind(line'[q]) : "T" \in DOMAIN m
    BY <1>3 DEF BpaceLine, BpaceInv
  <2>3. /\ at'["A"] = "read5" => \A m \in Queued(line'["A"]) : "T" \in DOMAIN m
        /\ at'["B"] = "read6" => \A m \in Queued(line'["B"]) : "T" \in DOMAIN m
    BY <1>1, <1>2, <1>3 DEF BpaceLine, BpaceInv
  <2>4. /\ at'["B"] \in {"start", "step2"} => line'["A"] = <<>> /\ at'["A"] # "read5"
        /\ at'["A"] \in {"start", "read3"} => line'["B"] = <<>> /\ at'["B"] # "read6"
        /\ at'["B"] = "read6" => obj'["B"].key.hello = con'["B"].hello
    BY <1>1, <1>2, <1>3 DEF BpaceLine, BpaceInv
  <2>5. QED
    BY <2>1, <2>2, <2>3, <2>4 DEF BpaceLine
<1>7. \A q \in Parties : code'[q] = "ERR_OK" => at'[q] = "end"
  BY <1>1 DEF BpaceInv, BpaceEnds, Quiet
<1>8. BPACE!Due' = BPACE!Due
  BY <1>3 DEF BPACE!Due
<1>9. BpaceEnds'
  BY <1>1, <1>2, <1>3, <1>7, <1>8 DEF BpaceEnds, BpaceInv
<1>10. QED
  BY <1>6, <1>9 DEF BpaceInv

LEMMA BpaceOpens ==
  ASSUME Shapes, BpaceInv, NEW n, NEW y, Opening([obj["B"] EXCEPT !.r = n], [y |-> y])
  PROVE  BpaceInv'
<1>1. Other("A") = "B" /\ Other("B") = "A" /\ Parties = {"A", "B"}
  BY DEF Other, Parties
<1>2. /\ obj'["A"] = obj["A"] /\ con' = con /\ code' = code /\ at'["A"] = at["A"]
      /\ at["B"] = "step2" /\ at'["B"] = "read4" /\ line'["B"] = line["B"]
      /\ line'["A"] = <<[y |-> y]>>
  BY <1>1 DEF Opening, Shapes
<1>3. /\ Queued(line'["A"]) = {[y |-> y]} /\ Behind(line'["A"]) = {}
      /\ "T" \notin DOMAIN [y |-> y]
  BY <1>2 DEF Queued, Behind
<1>4. ~ Derived("B") /\ ~ Derived("B")' /\ (Derived("A") <=> Derived("A")')
  BY <1>2 DEF Derived
<1>5. \A T : MarkTrue(T) => MarkTrue(T)'
  BY <1>2, <1>4 DEF MarkTrue, MadeBy
<1>6. at["A"] # "read5"
  BY <1>2 DEF BpaceInv, BpaceLine
<1>7. BpaceLine'
  BY <1>1, <1>2, <1>3, <1>5, <1>6 DEF BpaceLine, BpaceInv
<1>8. BPACE!Due' = BPACE!Due
  BY <1>2 DEF BPACE!Due
<1>9. BpaceEnds'
  BY <1>1, <1>2, <1>4, <1>8 DEF BpaceEnds, BpaceInv
<1>10. QED
  BY <1>7, <1>9 DEF BpaceInv

LEMMA BpaceTurn3 ==
  ASSUME Shapes, MemInv, BpaceInv, at["A"] = "read3", NEW m, NEW n, NEW x,
         Turned("A", BPACE!Step3(m, n, x), "read5")
  PROVE  BpaceInv'
<1> DEFINE r == BPACE!Step3(m, n, x)
<1>1. Other("A") = "B" /\ Other("B") = "A" /\ Parties = {"A", "B"}
  BY DEF Other, Parties
<1>2. Turned("A", r, "read5")
  OBVIOUS
<1>3. /\ Returned(r) /\ r.code = "ERR_OK" /\ r.st.key = obj["A"].key
      /\ \E w : r.send = <<w>> /\ "T" \notin DOMAIN w
  BY BpaceStep3
<1> HIDE DEF r
<1>4. /\ con' = con /\ at'["B"] = at["B"] /\ code' = code /\ obj'["B"] = obj["B"]
      /\ line["A"] # <<>> /\ at'["A"] = "read5"
  BY <1>1, <1>2, <1>3 DEF Turned, Shapes
<1>5. obj'["A"].key = obj["A"].key
  BY <1>1, <1>2, <1>3, TurnedKeeps DEF Fields
<1>6. PICK w : r.send = <<w>> /\ "T" \notin DOMAIN w
  BY <1>3
<1>7. line["B"] = <<>> /\ at["B"] # "read6" /\ at["B"] \notin {"start", "step2"}
  BY <1>4 DEF BpaceInv, BpaceLine
<1>8. /\ Queued(line'["A"]) = Behind(line["A"])
      /\ Behind(line'["A"]) \subseteq Behind(line["A"])
      /\ Behind(line["A"]) \subseteq Queued(line["A"])
      /\ Queued(line'["B"]) = Queued(line["B"]) \cup {w}
      /\ Behind(line'["B"]) = {}
  BY <1>1, <1>2, <1>3, <1>6, <1>7, TurnedQueues
<1>9. ~ Derived("A") /\ ~ Derived("A")' /\ (Derived("B") <=> Derived("B")')
  BY <1>4 DEF Derived
<1>10. \A T : MarkTrue(T) => MarkTrue(T)'
  BY <1>4, <1>9 DEF MarkTrue, MadeBy
<1>11. BpaceLine'
  <2>1. \A q \in Parties : \A z \in Queued(line'[q]) : "T" \in DOMAIN z => MarkTrue(z.T)'
    BY <1>1, <1>6, <1>8, <1>10 DEF BpaceLine, BpaceInv
  <2>2. \A q \in Parties : \A z \in Behind(line'[q]) : "T" \in DOMAIN z
    BY <1>1, <1>8 DEF BpaceLine, BpaceInv
  <2>3. \A z \in Queued(line'["A"]) : "T" \in DOMAIN z
    BY <1>1, <1>8 DEF BpaceLine, BpaceInv
  <2>4. QED
    BY <1>4, <1>7, <2>1, <2>2, <2>3 DEF BpaceLine
<1>12. BPACE!Due' = BPACE!Due
  BY <1>4 DEF BPACE!Due
<1>13. BpaceEnds'
  BY <1>1, <1>4, <1>5, <1>9, <1>12 DEF BpaceEnds, BpaceInv
<1>14. QED
  BY <1>11, <1>13 DEF BpaceInv

LEMMA BpaceTurn4 ==
  ASSUME Shapes, MemInv, BpaceInv, at["B"] = "read4", NEW m, NEW x,
         Turned("B", BPACE!Step4(m, x), IF con["B"].kca THEN "read6" ELSE "stepG")
  PROVE  BpaceInv'
<1> DEFINE r == BPACE!Step4(m, x)
           next == IF con["B"].kca THEN "read6" ELSE "stepG"
<1>1. Other("A") = "B" /\ Other("B") = "A" /\ Parties = {"A", "B"}
  BY DEF Other, Parties
<1>2. Turned("B", r, next)
  OBVIOUS
<1>3. /\ Returned(r)
      /\ r.code # "ERR_OK" => r.send = <<>>
      /\ r.code = "ERR_OK" =>
           /\ r.st.key.hello = con["B"].hello
           /\ \E w : /\ r.send = <<w>> /\ "T" \in DOMAIN w
                     /\ "kind" \in DOMAIN w.T => w.T.kind = "Tb" /\ w.T.of = r.st.key
  BY BpaceStep4
<1>4. next \in {"read6", "stepG"} /\ (next = "stepG" => "B" \notin BPACE!Due)
  BY <1>1 DEF BPACE!Due
<1> HIDE DEF r, next
<1>5. /\ con' = con /\ at'["A"] = at["A"] /\ code'["A"] = code["A"] /\ obj'["A"] = obj["A"]
      /\ line["B"] # <<>>
      /\ r.code = "ERR_OK" => at'["B"] = next /\ code'["B"] = code["B"]
      /\ r.code # "ERR_OK" => at'["B"] = "end" /\ code'["B"] = r.code
  BY <1>1, <1>2 DEF Turned, Shapes
<1>6. obj'["B"].key = r.st.key
  BY <1>1, <1>2, <1>3, TurnedKeeps DEF Fields
<1>7. at["A"] \notin {"start", "read3"}
  BY <1>5 DEF BpaceInv, BpaceLine
<1>8. /\ Queued(line'["B"]) = Behind(line["B"])
      /\ Behind(line'["B"]) \subseteq Behind(line["B"])
      /\ Behind(line["B"]) \subseteq Queued(line["B"])
      /\ r.send = <<>> => line'["A"] = line["A"]
      /\ \A w : r.send = <<w>> =>
           /\ Queued(line'["A"]) = Queued(line["A"]) \cup {w}
           /\ Behind(line'["A"]) \subseteq Behind(line["A"]) \cup {w}
  BY <1>1, <1>2, <1>3, TurnedQueues
<1>9. ~ Derived("B") /\ Derived("B")' /\ (Derived("A") <=> Derived("A")')
  BY <1>4, <1>5 DEF Derived
<1>10. \A T : MarkTrue(T) => MarkTrue(T)'
  BY <1>5, <1>9 DEF MarkTrue, MadeBy
<1>11. BpaceLine'
  <2>1. CASE r.code # "ERR_OK"
    <3>1. \A q \in Parties : \A z \in Queued(line'[q]) : "T" \in DOMAIN z => MarkTrue(z.T)'
      BY <1>1, <1>3, <1>8, <1>10, <2>1 DEF BpaceLine, BpaceInv
    <3>2. \A q \in Parties : \A z \in Behind(line'[q]) : "T" \in DOMAIN z
      BY <1>1, <1>3, <1>8, <2>1 DEF BpaceLine, BpaceInv
    <3>3. QED
      BY <1>1, <1>3, <1>5, <1>7, <1>8, <2>1, <3>1, <3>2 DEF BpaceLine, BpaceInv
  <2>2. CASE r.code = "ERR_OK"
    <3>1. PICK w : /\ r.send = <<w>> /\ "T" \in DOMAIN w
                   /\ "kind" \in DOMAIN w.T => w.T.kind = "Tb" /\ w.T.of = r.st.key
      BY <1>3, <2>2
    <3>2. MarkTrue(w.T)'
      BY <1>3, <1>5, <1>6, <1>9, <2>2, <3>1 DEF MarkTrue, MadeBy
    <3>3. /\ Queued(line'["A"]) = Queued(line["A"]) \cup {w}
          /\ Behind(line'["A"]) \subseteq Behind(line["A"]) \cup {w}
      BY <1>8, <3>1
    <3>4. \A q \in Parties : \A z \in Queued(line'[q]) : "T" \in DOMAIN z => MarkTrue(z.T)'
      BY <1>1, <1>8, <1>10, <3>1, <3>2, <3>3 DEF BpaceLine, BpaceInv
    <3>5. \A q \in Parties : \A z \in Behind(line'[q]) : "T" \in DOMAIN z
      BY <1>1, <1>8, <3>1, <3>3 DEF BpaceLine, BpaceInv
    <3>6. /\ at["A"] = "read5" => \A z \in Queued(line'["A"]) : "T" \in DOMAIN z
          /\ \A z \in Queued(line'["B"]) : "T" \in DOMAIN z
      BY <1>1, <1>8, <3>1, <3>3 DEF BpaceLine, BpaceInv
    <3>7. QED
      BY <1>3, <1>4, <1>5, <1>6, <1>7, <2>2, <3>4, <3>5, <3>6 DEF BpaceLine
  <2>3. QED
    BY <2>1, <2>2
<1>12. BPACE!Due' = BPACE!Due
  BY <1>5 DEF BPACE!Due
<1>13. BpaceEnds'
  BY <1>1, <1>4, <1>5, <1>9, <1>12 DEF BpaceEnds, BpaceInv
<1>14. QED
  BY <1>11, <1>13 DEF BpaceInv

LEMMA BpaceMarked ==
  ASSUME NEW p \in Parties, NEW m, Mark(p, m), "T" \in DOMAIN Head(line[p]),
         MarkTrue(Head(line[p]).T)
  PROVE  MarkTrue(m.T)
<1>1. "kind" \notin DOMAIN BPACE!Noise
  BY DEF BPACE!Noise
<1> HIDE DEF BPACE!Noise
<1>2. m.T = Head(line[p]).T \/ m.T = BPACE!Noise
  BY DEF Mark
<1>3. QED
  BY <1>1, <1>2 DEF MarkTrue

LEMMA BpaceTurn5 ==
  ASSUME Shapes, MemInv, BpaceInv, at["A"] = "read5", NEW m, Mark("A", m),
         Turned("A", BPACE!Step5(m), "stepG")
  PROVE  BpaceInv'
<1> DEFINE r == BPACE!Step5(m)
<1>1. Other("A") = "B" /\ Other("B") = "A" /\ Parties = {"A", "B"}
  BY DEF Other, Parties
<1>2. Turned("A", r, "stepG")
  OBVIOUS
<1>3. /\ Returned(r)
      /\ r.code # "ERR_OK" => r.send = <<>>
      /\ r.code = "ERR_OK" =>
           /\ r.st.key.hello = con["A"].hello
           /\ con["A"].kcb => /\ "kind" \in DOMAIN m.T
                              /\ m.T.kind = "Tb" /\ m.T.of = r.st.key
           /\ \/ r.send = <<>>
              \/ \E w : /\ r.send = <<w>> /\ "T" \in DOMAIN w
                        /\ w.T.kind = "Ta" /\ w.T.of = r.st.key
  BY BpaceStep5
<1> HIDE DEF r
<1>4. /\ con' = con /\ at'["B"] = at["B"] /\ code'["B"] = code["B"] /\ obj'["B"] = obj["B"]
      /\ line["A"] # <<>>
      /\ r.code = "ERR_OK" => at'["A"] = "stepG" /\ code'["A"] = code["A"]
      /\ r.code # "ERR_OK" => at'["A"] = "end" /\ code'["A"] = r.code
  BY <1>1, <1>2 DEF Turned, Shapes
<1>5. obj'["A"].key = r.st.key
  BY <1>1, <1>2, <1>3, TurnedKeeps DEF Fields
<1>6. at["B"] \notin {"start", "step2"}
  BY <1>4 DEF BpaceInv, BpaceLine
<1>7. /\ Queued(line'["A"]) = Behind(line["A"])
      /\ Behind(line'["A"]) \subseteq Behind(line["A"])
      /\ Behind(line["A"]) \subseteq Queued(line["A"])
      /\ Head(line["A"]) \in Queued(line["A"])
      /\ r.send = <<>> => line'["B"] = line["B"]
      /\ \A w : r.send = <<w>> =>
           /\ Queued(line'["B"]) = Queued(line["B"]) \cup {w}
           /\ Behind(line'["B"]) \subseteq Behind(line["B"]) \cup {w}
  BY <1>1, <1>2, <1>3, TurnedQueues
<1>8. ~ Derived("A") /\ Derived("A")' /\ (Derived("B") <=> Derived("B")')
  BY <1>4 DEF Derived
<1>9. \A T : MarkTrue(T) => MarkTrue(T)'
  BY <1>4, <1>8 DEF MarkTrue, MadeBy
<1>10. MarkTrue(m.T)
  <2>1. "T" \in DOMAIN Head(line["A"]) /\ MarkTrue(Head(line["A"]).T)
    BY <1>1, <1>7 DEF BpaceLine, BpaceInv
  <2>2. QED
    BY <1>1, <2>1, BpaceMarked
<1>11. BpaceLine'
  <2>1. CASE r.send = <<>>
    <3>1. \A q \in Parties : \A z \in Queued(line'[q]) : "T" \in DOMAIN z => MarkTrue(z.T)'
      BY <1>1, <1>7, <1>9, <2>1 DEF BpaceLine, BpaceInv
    <3>2. \A q \in Parties : \A z \in Behind(line'[q]) : "T" \in DOMAIN z
      BY <1>1, <1>7, <2>1 DEF BpaceLine, BpaceInv
    <3>3. QED
      BY <1>1, <1>4, <1>6, <1>7, <2>1, <3>1, <3>2 DEF BpaceLine, BpaceInv
  <2>2. CASE r.send # <<>>
    <3>1. r.code = "ERR_OK"
      BY <1>3, <2>2
    <3>2. PICK w : /\ r.send = <<w>> /\ "T" \in DOMAIN w
                   /\ w.T.kind = "Ta" /\ w.T.of = r.st.key
      BY <1>3, <2>2, <3>1
    <3>3. MarkTrue(w.T)'
      BY <1>3, <1>4, <1>5, <1>8, <3>1, <3>2 DEF MarkTrue, MadeBy
    <3>4. /\ Queued(line'["B"]) = Queued(line["B"]) \cup {w}
          /\ Behind(line'["B"]) \subseteq Behind(line["B"]) \cup {w}
      BY <1>7, <3>2
    <3>5. \A q \in Parties : \A z \in Queued(line'[q]) : "T" \in DOMAIN z => MarkTrue(z.T)'
      BY <1>1, <1>7, <1>9, <3>2, <3>3, <3>4 DEF BpaceLine, BpaceInv
    <3>6. \A q \in Parties : \A z \in Behind(line'[q]) : "T" \in DOMAIN z
      BY <1>1, <1>7, <3>2, <3>4 DEF BpaceLine, BpaceInv
    <3>7. at["B"] = "read6" => \A z \in Queued(line'["B"]) : "T" \in DOMAIN z
      BY <1>1, <1>7, <3>2, <3>4 DEF BpaceLine, BpaceInv
    <3>8. at["B"] = "read6" => obj["B"].key.hello = con["B"].hello
      BY DEF BpaceLine, BpaceInv
    <3>9. QED
      BY <1>4, <1>6, <3>1, <3>5, <3>6, <3>7, <3>8 DEF BpaceLine
  <2>3. QED
    BY <2>1, <2>2
<1>12. BPACE!Due' = BPACE!Due /\ ("A" \in BPACE!Due => con["A"].kcb)
  BY <1>1, <1>4 DEF BPACE!Due
<1>13. r.code = "ERR_OK" /\ "A" \in BPACE!Due =>
         /\ r.st.key = obj["B"].key /\ con["A"].hello = con["B"].hello /\ Derived("B")
  BY <1>3, <1>10, <1>12 DEF MarkTrue, MadeBy
<1>14. BpaceEnds'
  BY <1>1, <1>3, <1>4, <1>5, <1>8, <1>12, <1>13 DEF BpaceEnds, BpaceInv
<1>15. QED
  BY <1>11, <1>14 DEF BpaceInv

LEMMA BpaceTurn6 ==
  ASSUME Shapes, MemInv, BpaceInv, at["B"] = "read6", NEW m, Mark("B", m),
         Turned("B", BPACE!Step6(m), "stepG")
  PROVE  BpaceInv'
<1> DEFINE r == BPACE!Step6(m)
<1>1. Other("A") = "B" /\ Other("B") = "A" /\ Parties = {"A", "B"}
  BY DEF Other, Parties
<1>2. Turned("B", r, "stepG")
  OBVIOUS
<1>3. /\ Returned(r) /\ r.send = <<>> /\ r.st = obj["B"]
      /\ r.code = "ERR_OK" =>
           "kind" \in DOMAIN m.T /\ m.T.kind = "Ta" /\ m.T.of = obj["B"].key
  BY BpaceStep6
<1> HIDE DEF r
<1>4. /\ con' = con /\ at'["A"] = at["A"] /\ code'["A"] = code["A"] /\ obj'["A"] = obj["A"]
      /\ line["B"] # <<>>
      /\ r.code = "ERR_OK" => at'["B"] = "stepG" /\ code'["B"] = code["B"]
      /\ r.code # "ERR_OK" => at'["B"] = "end" /\ code'["B"] = r.code
  BY <1>1, <1>2 DEF Turned, Shapes
<1>5. obj'["B"].key = obj["B"].key
  BY <1>1, <1>2, <1>3, TurnedKeeps DEF Fields
<1>6. at["A"] \notin {"start", "read3"}
  BY <1>4 DEF BpaceInv, BpaceLine
<1>7. /\ Queued(line'["B"]) = Behind(line["B"])
      /\ Behind(line'["B"]) \subseteq Behind(line["B"])
      /\ Behind(line["B"]) \subseteq Queued(line["B"])
      /\ Head(line["B"]) \in Queued(line["B"])
      /\ line'["A"] = line["A"]
  BY <1>1, <1>2, <1>3, TurnedQueues
<1>8. Derived("B") /\ Derived("B")' /\ (Derived("A") <=> Derived("A")')
  BY <1>4 DEF Derived
<1>9. \A T : MarkTrue(T) => MarkTrue(T)'
  BY <1>4, <1>5, <1>8 DEF MarkTrue, MadeBy
<1>10. MarkTrue(m.T)
  <2>1. "T" \in DOMAIN Head(line["B"]) /\ MarkTrue(Head(line["B"]).T)
    BY <1>1, <1>7 DEF BpaceLine, BpaceInv
  <2>2. QED
    BY <1>1, <2>1, BpaceMarked
<1>11. BpaceLine'
  <2>1. \A q \in Parties : \A z \in Queued(line'[q]) : "T" \in DOMAIN z => MarkTrue(z.T)'
    BY <1>1, <1>7, <1>9 DEF BpaceLine, BpaceInv
  <2>2. \A q \in Parties : \A z \in Behind(line'[q]) : "T" \in DOMAIN z
    BY <1>1, <1>7 DEF BpaceLine, BpaceInv
  <2>3. QED
    BY <1>1, <1>4, <1>6, <1>7, <2>1, <2>2 DEF BpaceLine, BpaceInv
<1>12. BPACE!Due' = BPACE!Due
  BY <1>4 DEF BPACE!Due
<1>13. r.code = "ERR_OK" =>
         /\ obj["B"].key = obj["A"].key /\ con["A"].hello = con["B"].hello /\ Derived("A")
  <2>1. obj["B"].key.hello = con["B"].hello
    BY DEF BpaceLine, BpaceInv
  <2>2. QED
    BY <1>3, <1>10, <2>1 DEF MarkTrue, MadeBy
<1>14. BpaceEnds'
  BY <1>1, <1>3, <1>4, <1>5, <1>8, <1>12, <1>13 DEF BpaceEnds, BpaceInv
<1>15. QED
  BY <1>11, <1>14 DEF BpaceInv

LEMMA MovesPass ==
  ASSUME Shapes, MemInv, NEW p \in Parties, Moves(p)
  PROVE  Shapes' /\ MemInv' /\ Quiet(p) /\ (NoBlocks => NoBlocks')
<1>1. Passes(p)
  BY DEF Moves, Passes
<1>2. Shapes' /\ MemInv' /\ Quiet(p)
  BY <1>1, PassesKeep
<1>3. obj' = obj
  BY DEF Moves, Started, Stopped, Ended
<1>4. QED
  BY <1>2, <1>3 DEF NoBlocks

(* A turn of a protocol whose messages are read whole.                     *)
LEMMA PlainTurn ==
  ASSUME Shapes, MemInv, NoBlocks, NEW p \in Parties, NEW r, NEW next,
         Turned(p, r, next), Returned(r)
  PROVE  Shapes' /\ MemInv' /\ NoBlocks'
<1>1. Shapes' /\ MemInv' /\ obj'[p].got = 0
  BY TurnedKeeps
<1>2. \A q \in Parties : q # p => obj'[q] = obj[q]
  BY DEF Turned, Shapes
<1>3. QED
  BY <1>1, <1>2 DEF NoBlocks

LEMMA PlainOpening ==
  ASSUME Shapes, MemInv, NoBlocks, NEW s, NEW m, Opening(s, m), DOMAIN s = Fields,
         s.got = obj["B"].got
  PROVE  Shapes' /\ MemInv' /\ NoBlocks'
<1>1. Shapes' /\ MemInv'
  BY OpeningKeeps
<1>2. obj'["B"].got = 0 /\ \A q \in Parties : q # "B" => obj'[q] = obj[q]
  BY DEF Opening, Shapes, NoBlocks, Parties
<1>3. QED
  BY <1>1, <1>2 DEF NoBlocks

LEMMA BpaceStep ==
  ASSUME Shapes, MemInv, NoBlocks, NEW p \in Parties, BpaceTurns(p)
  PROVE  Shapes' /\ MemInv' /\ NoBlocks' /\ (BpaceInv => BpaceInv')
<1>1. "A" \in Parties /\ "B" \in Parties /\ DOMAIN obj["B"] = Fields
  BY DEF Parties, Shapes
<1>2. ASSUME NEW n, NEW y, Opening([obj["B"] EXCEPT !.r = n], [y |-> y])
      PROVE  Shapes' /\ MemInv' /\ NoBlocks' /\ (BpaceInv => BpaceInv')
  <2> DEFINE s == [obj["B"] EXCEPT !.r = n]
             m == [y |-> y]
  <2>1. DOMAIN s = Fields /\ s.got = obj["B"].got /\ Opening(s, m)
    BY <1>1, <1>2 DEF Fields
  <2>2. BpaceInv => BpaceInv'
    BY Zenon, <1>2, BpaceOpens
  <2> HIDE DEF s, m
  <2>3. QED
    BY <2>1, <2>2, PlainOpening
<1>3. ASSUME NEW m, NEW n, NEW x, at["A"] = "read3", Turned("A", BPACE!Step3(m, n, x), "read5")
      PROVE  Shapes' /\ MemInv' /\ NoBlocks' /\ (BpaceInv => BpaceInv')
  <2> DEFINE r == BPACE!Step3(m, n, x)
  <2>1. Returned(r) /\ Turned("A", r, "read5")
    BY <1>3, BpaceStep3
  <2>2. BpaceInv => BpaceInv'
    BY <1>3, BpaceTurn3
  <2> HIDE DEF r
  <2>3. QED
    BY <1>1, <2>1, <2>2, PlainTurn
<1>4. ASSUME NEW m, at["A"] = "read5", Mark("A", m), Turned("A", BPACE!Step5(m), "stepG")
      PROVE  Shapes' /\ MemInv' /\ NoBlocks' /\ (BpaceInv => BpaceInv')
  <2> DEFINE r == BPACE!Step5(m)
  <2>1. Returned(r) /\ Turned("A", r, "stepG")
    BY <1>4, BpaceStep5
  <2>2. BpaceInv => BpaceInv'
    BY <1>4, BpaceTurn5
  <2> HIDE DEF r
  <2>3. QED
    BY <1>1, <2>1, <2>2, PlainTurn
<1>5. ASSUME NEW m, NEW x, at["B"] = "read4",
             Turned("B", BPACE!Step4(m, x), IF con["B"].kca THEN "read6" ELSE "stepG")
      PROVE  Shapes' /\ MemInv' /\ NoBlocks' /\ (BpaceInv => BpaceInv')
  <2> DEFINE r == BPACE!Step4(m, x)
             next == IF con["B"].kca THEN "read6" ELSE "stepG"
  <2>1. Returned(r) /\ Turned("B", r, next)
    BY <1>5, BpaceStep4
  <2>2. BpaceInv => BpaceInv'
    BY <1>5, BpaceTurn4
  <2> HIDE DEF r, next
  <2>3. QED
    BY <1>1, <2>1, <2>2, PlainTurn
<1>6. ASSUME NEW m, at["B"] = "read6", Mark("B", m), Turned("B", BPACE!Step6(m), "stepG")
      PROVE  Shapes' /\ MemInv' /\ NoBlocks' /\ (BpaceInv => BpaceInv')
  <2> DEFINE r == BPACE!Step6(m)
  <2>1. Returned(r) /\ Turned("B", r, "stepG")
    BY <1>6, BpaceStep6
  <2>2. BpaceInv => BpaceInv'
    BY <1>6, BpaceTurn6
  <2> HIDE DEF r
  <2>3. QED
    BY <1>1, <2>1, <2>2, PlainTurn
<1>7. QED
  BY Zenon, <1>2, <1>3, <1>4, <1>5, <1>6 DEF BpaceTurns

LEMMA BpaceInvKept ==
  ASSUME part = "bpace", Shapes, MemInv, NoBlocks, NEW p \in Parties, Theirs(p)
  PROVE  Shapes' /\ MemInv' /\ NoBlocks' /\ (BpaceInv => BpaceInv')
<1>1. part # "bsts" /\ part # "bauth"
  OBVIOUS
<1>2. (p = "A" /\ BPACE!RunA) \/ (p = "B" /\ BPACE!RunB)
  BY Zenon, <1>1 DEF Theirs
<1>3. Moves(p) \/ BpaceTurns(p)
  BY Zenon, <1>2, BpaceMovesA, BpaceMovesB
<1>4. QED
  BY Zenon, <1>3, MovesPass, BpaceQuiet, BpaceStep
-----------------------------------------------------------------------------
(***************************************************************************)
(* BAUTH: tags are made by the terminal, texts by the card.                *)
(***************************************************************************)
NoiseOr(p, k) ==
  \/ k = BAUTH!NoiseKey
  \/ k = obj[p].key /\ obj[p].key.hello = con[p].hello /\ Past(p)

BauthLine ==
  /\ \A m \in Queued(line["B"]) : "T" \in DOMAIN m /\ NoiseOr("A", m.T.of)
  /\ \A m \in Queued(line["A"]) : "y" \in DOMAIN m =>
       /\ NoiseOr("B", m.y.key)
       /\ m.y.key # BAUTH!NoiseKey => m.y.cert = con["B"].own
  /\ \A m \in Behind(line["A"]) : "y" \in DOMAIN m
  /\ at["A"] = "read5" => \A m \in Queued(line["A"]) : "y" \in DOMAIN m
  /\ at["B"] \in {"start", "step2"} => line["A"] = <<>> /\ at["A"] # "read5"
  /\ at["A"] = "read5" => /\ obj["A"].key.hello = con["A"].hello
                          /\ obj["A"].key # BAUTH!NoiseKey

BauthEnds ==
  \A p \in Parties :
    /\ code[p] = "ERR_OK" => at[p] = "end"
    /\ p \in BAUTH!Due /\ (at[p] = "stepG" \/ code[p] = "ERR_OK") =>
         /\ Knows(p, Other(p))
         /\ p = "A" => obj["A"].peer = con["B"].own

BauthInv == BauthLine /\ BauthEnds

(* What the steps return.                                                  *)
LEMMA BauthStep3 ==
  ASSUME Shapes, NEW m, NEW n, NEW r, r = BAUTH!TStep3(m, n)
  PROVE  /\ Returned(r)
         /\ r.code # "ERR_OK" => r.send = <<>>
         /\ r.code = "ERR_OK" =>
              /\ r.st.key.hello = con["A"].hello /\ r.st.key # BAUTH!NoiseKey
              /\ \E w : /\ r.send = <<w>> /\ "T" \in DOMAIN w
                        /\ w.T.of = r.st.key
<1> DEFINE s == obj["A"]
           rt == IF con["A"].kcb THEN n ELSE 0
           k == BAUTH!KeyOf("A", m.z.r, rt)
           e == [s EXCEPT !.v = m.v, !.r = rt, !.key = k]
           w == BAUTH!M2([of |-> k], rt)
           bad == m.z.k # BAUTH!X((con["A"].d * m.v) % Q)
<1>1. DOMAIN s = Fields
  BY DEF Shapes, Parties
<1>2. r = CASE m.v = 0 -> BAUTH!Error("ERR_BAD_POINT", s)
            [] m.v # 0 /\ m.z.k # BAUTH!X((con["A"].d * m.v) % Q) -> BAUTH!Error("ERR_AUTH", s)
            [] OTHER -> BAUTH!Done(e, <<w>>)
  BY DEF BAUTH!TStep3
<1>3. r = CASE m.v = 0 -> BAUTH!Error("ERR_BAD_POINT", s)
            [] m.v # 0 /\ bad -> BAUTH!Error("ERR_AUTH", s)
            [] OTHER -> BAUTH!Done(e, <<w>>)
  BY <1>2
<1>4. k.hello = con["A"].hello /\ k # BAUTH!NoiseKey
  <2> HIDE DEF rt
  <2>1. k.hello = con["A"].hello
    BY DEF BAUTH!KeyOf
  <2>2. "noise" \notin DOMAIN k /\ "noise" \in DOMAIN BAUTH!NoiseKey
    BY DEF BAUTH!KeyOf, BAUTH!NoiseKey
  <2> HIDE DEF k
  <2>3. QED
    BY <2>1, <2>2
<1> HIDE DEF k
<1>5. "T" \in DOMAIN w /\ w.T.of = k
  BY DEF BAUTH!M2
<1> HIDE DEF rt, w, bad
<1>6. DOMAIN e = Fields /\ e.key = k
  BY <1>1 DEF Fields
<1> HIDE DEF e, s
<1>7. CASE m.v = 0
  <2>1. r = BAUTH!Error("ERR_BAD_POINT", s)
    BY <1>3, <1>7
  <2>2. QED
    BY <1>1, <2>1 DEF BAUTH!Error, Returned
<1>8. CASE m.v # 0 /\ bad
  <2>1. r = BAUTH!Error("ERR_AUTH", s)
    BY <1>3, <1>8
  <2>2. QED
    BY <1>1, <2>1 DEF BAUTH!Error, Returned
<1>9. CASE m.v # 0 /\ ~ bad
  <2>1. r = BAUTH!Done(e, <<w>>)
    BY <1>3, <1>9
  <2>2. r.code = "ERR_OK" /\ r.st = e /\ r.send = <<w>>
    BY <2>1 DEF BAUTH!Done
  <2>3. QED
    BY <1>4, <1>5, <1>6, <2>2 DEF Returned
<1>10. QED
  BY <1>7, <1>8, <1>9

LEMMA BauthStep4 ==
  ASSUME Shapes, NEW m, NEW r, r = BAUTH!CTStep4(m)
  PROVE  /\ Returned(r)
         /\ r.code # "ERR_OK" => r.send = <<>>
         /\ r.code = "ERR_OK" =>
              /\ r.st.key.hello = con["B"].hello /\ r.st.key # BAUTH!NoiseKey
              /\ m.T.of = r.st.key
              /\ \/ r.send = <<>>
                 \/ \E w : /\ r.send = <<w>> /\ "y" \in DOMAIN w
                           /\ w.y.key = r.st.key /\ w.y.cert = con["B"].own
<1> DEFINE s == obj["B"]
           k == BAUTH!KeyOf("B", s.r, BAUTH!RtRead(m))
           e == [s EXCEPT !.key = k, !.peer = con["B"].certt]
           y == [key |-> k,
                 s |-> BAUTH!Sign(BAUTH!Challenge(s.u, m.rt), s.u, con["B"].d),
                 cert |-> con["B"].own]
           w == BAUTH!M3(y)
<1>1. DOMAIN s = Fields
  BY DEF Shapes, Parties
<1>2. r = CASE m.T # [of |-> k] -> BAUTH!Error("ERR_AUTH", e)
            [] m.T = [of |-> k] /\ con["B"].kcb -> BAUTH!Done(e, <<w>>)
            [] OTHER -> BAUTH!Done(e, <<>>)
  BY DEF BAUTH!CTStep4
<1>3. k.hello = con["B"].hello /\ k # BAUTH!NoiseKey
  <2>1. k.hello = con["B"].hello
    BY DEF BAUTH!KeyOf
  <2>2. "noise" \notin DOMAIN k /\ "noise" \in DOMAIN BAUTH!NoiseKey
    BY DEF BAUTH!KeyOf, BAUTH!NoiseKey
  <2> HIDE DEF k
  <2>3. QED
    BY <2>1, <2>2
<1> HIDE DEF k
<1>4. y.key = k /\ y.cert = con["B"].own
  OBVIOUS
<1> HIDE DEF y
<1>5. "y" \in DOMAIN w /\ w.y = y
  BY DEF BAUTH!M3
<1>6. DOMAIN e = Fields /\ e.key = k
  BY <1>1 DEF Fields
<1> HIDE DEF e, s, w
<1>7. CASE m.T # [of |-> k]
  <2>1. r = BAUTH!Error("ERR_AUTH", e)
    BY <1>2, <1>7
  <2>2. QED
    BY <1>6, <2>1 DEF BAUTH!Error, Returned
<1>8. CASE m.T = [of |-> k]
  <2>1. m.T.of = k
    BY <1>8
  <2>2. r = BAUTH!Done(e, <<w>>) \/ r = BAUTH!Done(e, <<>>)
    BY <1>2, <1>8
  <2>3. r.code = "ERR_OK" /\ r.st = e /\ (r.send = <<w>> \/ r.send = <<>>)
    BY <2>2 DEF BAUTH!Done
  <2>4. QED
    BY <1>3, <1>4, <1>5, <1>6, <2>1, <2>3 DEF Returned
<1>9. QED
  BY <1>7, <1>8

LEMMA BauthStep5 ==
  ASSUME Shapes, NEW m, NEW r, r = BAUTH!TStep5(m)
  PROVE  /\ Returned(r) /\ r.send = <<>> /\ r.st.key = obj["A"].key
         /\ r.code = "ERR_OK" =>
              m.y.key = obj["A"].key /\ r.st.peer = m.y.cert
<1> DEFINE s == obj["A"]
           R == BAUTH!Restored(BAUTH!Challenge(s.v, s.r), m.y.s, m.y.cert)
           e == [s EXCEPT !.peer = m.y.cert]
           fine == m.t = m.y /\ m.t.key = s.key
<1>1. DOMAIN s = Fields
  BY DEF Shapes, Parties
<1>2. r = CASE m.t # m.y \/ m.t.key # s.key -> BAUTH!Error("ERR_AUTH", s)
            [] m.t = m.y /\ m.t.key = s.key /\ R = 0 -> BAUTH!Error("ERR_BAD_PARAMS", s)
            [] m.t = m.y /\ m.t.key = s.key /\ R # 0 /\ R # s.v -> BAUTH!Error("ERR_AUTH", s)
            [] OTHER -> BAUTH!Done(e, <<>>)
  BY DEF BAUTH!TStep5
<1> HIDE DEF R
<1>3. DOMAIN e = Fields /\ e.key = s.key /\ e.peer = m.y.cert
  BY <1>1 DEF Fields
<1> HIDE DEF e, s
<1>4. ASSUME NEW c \in {"ERR_AUTH", "ERR_BAD_PARAMS"}, r = BAUTH!Error(c, s)
      PROVE  Returned(r) /\ r.send = <<>> /\ r.st.key = s.key /\ r.code # "ERR_OK"
  BY <1>1, <1>4 DEF BAUTH!Error, Returned
<1>5. ASSUME r = BAUTH!Done(e, <<>>)
      PROVE  Returned(r) /\ r.send = <<>> /\ r.st.key = s.key /\ r.st.peer = m.y.cert
  BY <1>3, <1>5 DEF BAUTH!Done, Returned
<1>6. CASE m.t # m.y \/ m.t.key # s.key
  <2>1. r = BAUTH!Error("ERR_AUTH", s)
    BY <1>2, <1>6
  <2>2. QED
    BY <1>4, <2>1 DEF s
<1>7. CASE m.t = m.y /\ m.t.key = s.key
  <2>1. \/ r = BAUTH!Error("ERR_AUTH", s) \/ r = BAUTH!Error("ERR_BAD_PARAMS", s)
        \/ r = BAUTH!Done(e, <<>>)
    BY <1>2, <1>7
  <2>2. m.y.key = s.key
    BY <1>7
  <2>3. QED
    BY <1>4, <1>5, <2>1, <2>2 DEF s
<1>8. QED
  BY <1>6, <1>7

(* The line makes no tags and no texts.                                    *)
LEMMA BauthSpoilt ==
  ASSUME NEW h, NEW m \in BAUTH!Spoil(h)
  PROVE  /\ "T" \in DOMAIN h => m.T \in {h.T, BAUTH!Noise}
         /\ "y" \in DOMAIN h => m.y \in {h.y, BAUTH!NoText}
<1>1. \/ \E v : m = [h EXCEPT !.v = v]
      \/ \E z : m = [h EXCEPT !.z = z]
      \/ m = [h EXCEPT !.T = BAUTH!Noise]
      \/ \E rt : m = [h EXCEPT !.rt = rt]
      \/ m = [h EXCEPT !.y = BAUTH!NoText]
      \/ \E t : m = [h EXCEPT !.t = t]
  <2>1. CASE "z" \in DOMAIN h
    BY <2>1 DEF BAUTH!Spoil
  <2>2. CASE "z" \notin DOMAIN h /\ "rt" \in DOMAIN h
    BY <2>2 DEF BAUTH!Spoil
  <2>3. CASE "z" \notin DOMAIN h /\ "rt" \notin DOMAIN h
    BY <2>3 DEF BAUTH!Spoil
  <2>4. QED
    BY <2>1, <2>2, <2>3
<1> HIDE DEF BAUTH!Noise, BAUTH!NoText
<1> DEFINE Kept == /\ "T" \in DOMAIN h => m.T = h.T
                   /\ "y" \in DOMAIN h => m.y = h.y
<1>2. ASSUME NEW v, m = [h EXCEPT !.v = v] PROVE Kept
  BY <1>2
<1>3. ASSUME NEW z, m = [h EXCEPT !.z = z] PROVE Kept
  BY <1>3
<1>4. ASSUME NEW rt, m = [h EXCEPT !.rt = rt] PROVE Kept
  BY <1>4
<1>5. ASSUME NEW t, m = [h EXCEPT !.t = t] PROVE Kept
  BY <1>5
<1>6. CASE m = [h EXCEPT !.T = BAUTH!Noise]
  BY <1>6
<1>7. CASE m = [h EXCEPT !.y = BAUTH!NoText]
  BY <1>7
<1>8. Kept => /\ "T" \in DOMAIN h => m.T \in {h.T, BAUTH!Noise}
              /\ "y" \in DOMAIN h => m.y \in {h.y, BAUTH!NoText}
  OBVIOUS
<1> HIDE DEF Kept
<1>9. QED
  BY <1>1, <1>2, <1>3, <1>4, <1>5, <1>6, <1>7, <1>8

(* What a step is given.                                                   *)
Given(p, m) ==
  /\ "T" \in DOMAIN Head(line[p]) => m.T \in {Head(line[p]).T, BAUTH!Noise}
  /\ "y" \in DOMAIN Head(line[p]) => m.y \in {Head(line[p]).y, BAUTH!NoText}

LEMMA BauthHeard ==
  ASSUME NEW p \in Parties, NEW m, m \in BAUTH!Heard(p, BAUTH!Spoil)
  PROVE  Given(p, m)
<1> DEFINE h == Head(line[p])
<1>1. m = h \/ m \in BAUTH!Spoil(h)
  BY Zenon DEF BAUTH!Heard
<1> HIDE DEF h
<1>2. /\ "T" \in DOMAIN h => m.T \in {h.T, BAUTH!Noise}
      /\ "y" \in DOMAIN h => m.y \in {h.y, BAUTH!NoText}
  BY Zenon, <1>1, BauthSpoilt
<1>3. QED
  BY Zenon, <1>2 DEF h, Given

(* The steps of CT and T in the terms of the patterns.                     *)
LEMMA BauthTurn ==
  ASSUME NEW p \in Parties, NEW m, NEW r, NEW next, BAUTH!Turn(p, m, r, next),
         con' = con, at[p] \notin {"start", "end", "stepG"}, line[p] # <<>>,
         next \notin {"start", "end"}
  PROVE  Turned(p, r, next)
BY DEF BAUTH!Turn, BAUTH!Return, Turned, BAUTH!Other, Other

LEMMA BauthStart ==
  ASSUME Shapes, MemInv, NEW p \in Parties, NEW next, BAUTH!Start(p, next),
         next = (IF p = "A" THEN "read3" ELSE "step2")
  PROVE  Started(p, next) \/ \E c, bs : Stopped(p, c, bs)
<1>1. at[p] = "start" /\ blobs[p] = {}
  BY DEF BAUTH!Start, MemInv
<1>2. ASSUME NEW c \in {"ERR_OUTOFMEMORY", "ERR_BAD_CERT"}, BAUTH!Return(p, c, {"blob"}),
             UNCHANGED <<con, obj, line>>
      PROVE  Stopped(p, c, {"blob"})
  BY <1>1, <1>2 DEF BAUTH!Return, Stopped
<1>3. CASE /\ at' = [at EXCEPT ![p] = next] /\ blobs' = [blobs EXCEPT ![p] = {"blob"}]
           /\ UNCHANGED <<con, obj, line, code>>
  BY <1>1, <1>3 DEF Started, Parties
<1>4. QED
  BY <1>2, <1>3 DEF BAUTH!Start

LEMMA BauthOutside ==
  ASSUME NEW l, NEW c \in BAUTH!Outside(l)
  PROVE  c # "ERR_OK" /\ l \in {"step2", "read3", "read4", "read5"}
<1>1. CASE l \in {"step2", "read3", "read4", "read5"}
  BY <1>1 DEF BAUTH!Outside
<1>2. CASE l \notin {"step2", "read3", "read4", "read5"}
  <2>1. BAUTH!Outside(l) = {}
    BY <1>2 DEF BAUTH!Outside
  <2>2. QED
    BY <2>1
<1>3. QED
  BY <1>1, <1>2

LEMMA BauthStops ==
  ASSUME Shapes, MemInv, NoBlocks, NEW p \in Parties,
         BAUTH!Breaks(p, BAUTH!Outside, {"blob"})
  PROVE  \E c, bs : Stopped(p, c, bs)
<1>1. at[p] \notin {"start", "end"} => blobs[p] \subseteq {"blob"}
  BY DEF MemInv, Held, NoBlocks
<1>2. UNCHANGED <<con, obj, line>> /\ \E c \in BAUTH!Outside(at[p]) : BAUTH!Return(p, c, {"blob"})
  BY Zenon DEF BAUTH!Breaks
<1>3. PICK c : c \in BAUTH!Outside(at[p]) /\ BAUTH!Return(p, c, {"blob"})
  BY <1>2
<1>4. c # "ERR_OK" /\ at[p] \in {"step2", "read3", "read4", "read5"}
  BY <1>3, BauthOutside
<1>5. Stopped(p, c, {"blob"})
  BY <1>1, <1>2, <1>3, <1>4 DEF BAUTH!Return, Stopped
<1>6. QED
  BY <1>5

BauthTurns(p) ==
  \/ p = "B" /\ \E n, r, z : Opening([obj["B"] EXCEPT !.u = n, !.r = r], [v |-> n, z |-> z])
  \/ p = "A" /\ at["A"] = "read3"
     /\ \E m, n : Turned("A", BAUTH!TStep3(m, n), IF con["A"].kcb THEN "read5" ELSE "stepG")
  \/ p = "A" /\ at["A"] = "read5"
     /\ \E m : Given("A", m) /\ Turned("A", BAUTH!TStep5(m), "stepG")
  \/ p = "B" /\ at["B"] = "read4"
     /\ \E m : Given("B", m) /\ Turned("B", BAUTH!CTStep4(m), "stepG")

LEMMA BauthMovesA ==
  ASSUME Shapes, MemInv, NoBlocks, BAUTH!RunT
  PROVE  Moves("A") \/ BauthTurns("A")
<1>1. "A" \in Parties /\ "stepG" \notin {"start", "end"}
  BY DEF Parties
<1>2. CASE BAUTH!Start("A", "read3")
  BY <1>1, <1>2, BauthStart DEF Moves
<1>3. CASE /\ BAUTH!Hears("A", "read3")
           /\ \E m \in BAUTH!Heard("A", BAUTH!Spoil), n \in BAUTH!Nonces :
                BAUTH!Turn("A", m, BAUTH!TStep3(m, n), IF con["A"].kcb THEN "read5" ELSE "stepG")
           /\ UNCHANGED con
  <2> DEFINE next == IF con["A"].kcb THEN "read5" ELSE "stepG"
  <2>1. PICK m, n : BAUTH!Turn("A", m, BAUTH!TStep3(m, n), next)
    BY Zenon, <1>3
  <2>2. line["A"] # <<>> /\ con' = con /\ at["A"] = "read3"
    BY Zenon, <1>3 DEF BAUTH!Hears
  <2> DEFINE s == BAUTH!TStep3(m, n)
  <2>3. BAUTH!Turn("A", m, s, next)
    BY Zenon, <2>1
  <2>4. at["A"] \notin {"start", "end", "stepG"} /\ next \notin {"start", "end"}
    BY <2>2
  <2> HIDE DEF s, next
  <2>5. Turned("A", s, next)
    BY <1>1, <2>2, <2>3, <2>4, BauthTurn
  <2>6. QED
    BY Zenon, <2>2, <2>5 DEF BauthTurns, s, next
<1>4. CASE BAUTH!Breaks("A", BAUTH!Outside, {"blob"})
  BY Zenon, <1>1, <1>4, BauthStops DEF Moves
<1>5. CASE /\ BAUTH!Hears("A", "read5")
           /\ \E m \in BAUTH!Heard("A", BAUTH!Spoil) : BAUTH!Turn("A", m, BAUTH!TStep5(m), "stepG")
           /\ UNCHANGED con
  <2>1. PICK m : m \in BAUTH!Heard("A", BAUTH!Spoil)
                 /\ BAUTH!Turn("A", m, BAUTH!TStep5(m), "stepG")
    BY Zenon, <1>5
  <2>2. line["A"] # <<>> /\ con' = con /\ at["A"] = "read5"
    BY Zenon, <1>5 DEF BAUTH!Hears
  <2> DEFINE s == BAUTH!TStep5(m)
  <2>3. BAUTH!Turn("A", m, s, "stepG")
    BY Zenon, <2>1
  <2>4. Given("A", m)
    BY Zenon, <1>1, <2>1, BauthHeard
  <2> HIDE DEF s
  <2>5. at["A"] \notin {"start", "end", "stepG"}
    BY <2>2
  <2>6. Turned("A", s, "stepG")
    BY <1>1, <2>2, <2>3, <2>5, BauthTurn
  <2>7. QED
    BY Zenon, <2>2, <2>4, <2>6 DEF BauthTurns, s
<1>6. CASE BAUTH!StepG("A")
  <2>1. Ended("A")
    BY <1>6 DEF BAUTH!StepG, BAUTH!Return, Ended
  <2>2. QED
    BY <2>1 DEF Moves
<1>7. QED
  BY Zenon, <1>2, <1>3, <1>4, <1>5, <1>6 DEF BAUTH!RunT

LEMMA BauthMovesB ==
  ASSUME Shapes, MemInv, NoBlocks, BAUTH!RunCT
  PROVE  Moves("B") \/ BauthTurns("B")
<1>1. "B" \in Parties /\ "B" # "A" /\ "stepG" \notin {"start", "end"}
  BY DEF Parties
<1>2. CASE BAUTH!Start("B", "step2")
  BY <1>1, <1>2, BauthStart DEF Moves
<1>3. CASE /\ at["B"] = "step2"
           /\ \E x \in BAUTH!Points, r \in BAUTH!Nonces :
                /\ obj' = [obj EXCEPT !["B"] = BAUTH!CTStep2(x, r).st]
                /\ line' = [line EXCEPT !["A"] = BAUTH!CTStep2(x, r).send]
           /\ at' = [at EXCEPT !["B"] = "read4"]
           /\ UNCHANGED <<con, code, blobs, slips>>
  <2>1. PICK x, r : /\ obj' = [obj EXCEPT !["B"] = BAUTH!CTStep2(x, r).st]
                    /\ line' = [line EXCEPT !["A"] = BAUTH!CTStep2(x, r).send]
    BY Zenon, <1>3
  <2> DEFINE z == BAUTH!Wrapped(BAUTH!X((x * con["B"].certt) % Q), r)
  <2>2. /\ BAUTH!CTStep2(x, r).st = [obj["B"] EXCEPT !.u = x, !.r = r]
        /\ BAUTH!CTStep2(x, r).send = <<[v |-> x, z |-> z]>>
    BY DEF BAUTH!CTStep2, BAUTH!Done, BAUTH!M1
  <2> HIDE DEF z
  <2>3. Opening([obj["B"] EXCEPT !.u = x, !.r = r], [v |-> x, z |-> z])
    BY <1>3, <2>1, <2>2 DEF Opening
  <2>4. QED
    BY Zenon, <2>3 DEF BauthTurns
<1>4. CASE BAUTH!Breaks("B", BAUTH!Outside, {"blob"})
  BY Zenon, <1>1, <1>4, BauthStops DEF Moves
<1>5. CASE /\ BAUTH!Hears("B", "read4")
           /\ \E m \in BAUTH!Heard("B", BAUTH!Spoil) : BAUTH!Turn("B", m, BAUTH!CTStep4(m), "stepG")
           /\ UNCHANGED con
  <2>1. PICK m : m \in BAUTH!Heard("B", BAUTH!Spoil)
                 /\ BAUTH!Turn("B", m, BAUTH!CTStep4(m), "stepG")
    BY Zenon, <1>5
  <2>2. line["B"] # <<>> /\ con' = con /\ at["B"] = "read4"
    BY Zenon, <1>5 DEF BAUTH!Hears
  <2> DEFINE s == BAUTH!CTStep4(m)
  <2>3. BAUTH!Turn("B", m, s, "stepG")
    BY Zenon, <2>1
  <2>4. Given("B", m)
    BY Zenon, <1>1, <2>1, BauthHeard
  <2> HIDE DEF s
  <2>5. at["B"] \notin {"start", "end", "stepG"}
    BY <2>2
  <2>6. Turned("B", s, "stepG")
    BY <1>1, <2>2, <2>3, <2>5, BauthTurn
  <2>7. QED
    BY Zenon, <2>2, <2>4, <2>6 DEF BauthTurns, s
<1>6. CASE BAUTH!StepG("B")
  <2>1. Ended("B")
    BY <1>6 DEF BAUTH!StepG, BAUTH!Return, Ended
  <2>2. QED
    BY <2>1 DEF Moves
<1>7. QED
  BY Zenon, <1>2, <1>3, <1>4, <1>5, <1>6 DEF BAUTH!RunCT

(* The invariant in each of the steps.                                     *)
LEMMA BauthQuiet ==
  ASSUME Shapes, BauthInv, NEW p \in Parties, Quiet(p)
  PROVE  BauthInv'
<1>1. Other("A") = "B" /\ Other("B") = "A" /\ Parties = {"A", "B"}
  BY DEF Other, Parties
<1>2. /\ \A q \in Parties : Past(q) => Past(q)'
      /\ \A q \in Parties : at'[q] \in {"read5", "stepG"} => at'[q] = at[q]
      /\ \A q \in Parties : code'[q] = "ERR_OK" => code[q] = "ERR_OK" \/ at[q] = "stepG"
      /\ at'["B"] \in {"start", "step2"} => at["B"] \in {"start", "step2"}
  BY <1>1 DEF Quiet, Past
<1>3. con' = con /\ \A q \in Parties :
        /\ obj'[q].key = obj[q].key /\ obj'[q].peer = obj[q].peer
        /\ Queued(line'[q]) \subseteq Queued(line[q])
        /\ Behind(line'[q]) \subseteq Behind(line[q])
        /\ line[q] = <<>> => line'[q] = <<>>
  BY DEF Quiet
<1>4. \A q \in Parties : \A k : NoiseOr(q, k) => NoiseOr(q, k)'
  BY <1>2, <1>3 DEF NoiseOr
<1>5. BauthLine'
  <2>1. \A m \in Queued(line'["B"]) : "T" \in DOMAIN m /\ NoiseOr("A", m.T.of)'
    BY <1>1, <1>3, <1>4 DEF BauthLine, BauthInv
  <2>2. \A m \in Queued(line'["A"]) : "y" \in DOMAIN m =>
          /\ NoiseOr("B", m.y.key)'
          /\ m.y.key # BAUTH!NoiseKey => m.y.cert = con'["B"].own
    BY <1>1, <1>3, <1>4 DEF BauthLine, BauthInv
  <2>3. /\ \A m \in Behind(line'["A"]) : "y" \in DOMAIN m
        /\ at'["A"] = "read5" => \A m \in Queued(line'["A"]) : "y" \in DOMAIN m
    BY <1>1, <1>2, <1>3 DEF BauthLine, BauthInv
  <2>4. /\ at'["B"] \in {"start", "step2"} => line'["A"] = <<>> /\ at'["A"] # "read5"
        /\ at'["A"] = "read5" => /\ obj'["A"].key.hello = con'["A"].hello
                                 /\ obj'["A"].key # BAUTH!NoiseKey
    BY <1>1, <1>2, <1>3 DEF BauthLine, BauthInv
  <2>5. QED
    BY <2>1, <2>2, <2>3, <2>4 DEF BauthLine, BAUTH!NoiseKey
<1>6. \A q \in Parties : code'[q] = "ERR_OK" => at'[q] = "end"
  BY <1>1 DEF BauthInv, BauthEnds, Quiet
<1>7. BAUTH!Due' = BAUTH!Due
  BY <1>3 DEF BAUTH!Due, BAUTH!Parties
<1>8. BauthEnds'
  BY <1>1, <1>2, <1>3, <1>6, <1>7 DEF BauthEnds, BauthInv, Knows
<1>9. QED
  BY <1>5, <1>8 DEF BauthInv

LEMMA BauthOpens ==
  ASSUME Shapes, BauthInv, NEW n, NEW r, NEW z,
         Opening([obj["B"] EXCEPT !.u = n, !.r = r], [v |-> n, z |-> z])
  PROVE  BauthInv'
<1>1. Other("A") = "B" /\ Other("B") = "A" /\ Parties = {"A", "B"}
  BY DEF Other, Parties
<1>2. /\ obj'["A"] = obj["A"] /\ con' = con /\ code' = code /\ at'["A"] = at["A"]
      /\ at["B"] = "step2" /\ at'["B"] = "read4" /\ line'["B"] = line["B"]
      /\ line'["A"] = <<[v |-> n, z |-> z]>>
  BY <1>1 DEF Opening, Shapes
<1>3. /\ Queued(line'["A"]) = {[v |-> n, z |-> z]} /\ Behind(line'["A"]) = {}
      /\ "y" \notin DOMAIN [v |-> n, z |-> z]
  BY <1>2 DEF Queued, Behind
<1>4. ~ Past("B") /\ ~ Past("B")' /\ (Past("A") <=> Past("A")')
  BY <1>2 DEF Past
<1>5. \A k : NoiseOr("A", k) => NoiseOr("A", k)'
  BY <1>2, <1>4 DEF NoiseOr
<1>6. at["A"] # "read5"
  BY <1>2 DEF BauthInv, BauthLine
<1>7. BauthLine'
  BY <1>1, <1>2, <1>3, <1>5, <1>6 DEF BauthLine, BauthInv
<1>8. BAUTH!Due' = BAUTH!Due
  BY <1>2 DEF BAUTH!Due, BAUTH!Parties
<1>9. BauthEnds'
  BY <1>1, <1>2, <1>4, <1>8 DEF BauthEnds, BauthInv, Knows
<1>10. QED
  BY <1>7, <1>9 DEF BauthInv

LEMMA BauthTurn3 ==
  ASSUME Shapes, MemInv, BauthInv, at["A"] = "read3", NEW m, NEW n,
         Turned("A", BAUTH!TStep3(m, n), IF con["A"].kcb THEN "read5" ELSE "stepG")
  PROVE  BauthInv'
<1> DEFINE r == BAUTH!TStep3(m, n)
           next == IF con["A"].kcb THEN "read5" ELSE "stepG"
<1>1. Other("A") = "B" /\ Other("B") = "A" /\ Parties = {"A", "B"}
  BY DEF Other, Parties
<1>2. Turned("A", r, next)
  OBVIOUS
<1>3. /\ Returned(r)
      /\ r.code # "ERR_OK" => r.send = <<>>
      /\ r.code = "ERR_OK" =>
           /\ r.st.key.hello = con["A"].hello /\ r.st.key # BAUTH!NoiseKey
           /\ \E w : r.send = <<w>> /\ "T" \in DOMAIN w /\ w.T.of = r.st.key
  BY BauthStep3
<1>4. next \in {"read5", "stepG"} /\ (next = "stepG" => "A" \notin BAUTH!Due)
  BY <1>1 DEF BAUTH!Due
<1> HIDE DEF r, next
<1>5. /\ con' = con /\ at'["B"] = at["B"] /\ code'["B"] = code["B"] /\ obj'["B"] = obj["B"]
      /\ line["A"] # <<>>
      /\ r.code = "ERR_OK" => at'["A"] = next /\ code'["A"] = code["A"]
      /\ r.code # "ERR_OK" => at'["A"] = "end" /\ code'["A"] = r.code
  BY <1>1, <1>2 DEF Turned, Shapes
<1>6. obj'["A"].key = r.st.key
  BY <1>1, <1>2, <1>3, TurnedKeeps DEF Fields
<1>7. at["B"] \notin {"start", "step2"}
  BY <1>5 DEF BauthInv, BauthLine
<1>8. /\ Queued(line'["A"]) = Behind(line["A"])
      /\ Behind(line'["A"]) \subseteq Behind(line["A"])
      /\ Behind(line["A"]) \subseteq Queued(line["A"])
      /\ r.send = <<>> => line'["B"] = line["B"]
      /\ \A w : r.send = <<w>> => Queued(line'["B"]) = Queued(line["B"]) \cup {w}
  BY <1>1, <1>2, <1>3, TurnedQueues
<1>9. ~ Past("A") /\ Past("A")' /\ (Past("B") <=> Past("B")')
  BY <1>4, <1>5 DEF Past
<1>10. \A q \in Parties : \A k : NoiseOr(q, k) => NoiseOr(q, k)'
  BY <1>1, <1>5, <1>9 DEF NoiseOr
<1>11. \A z \in Queued(line'["B"]) : "T" \in DOMAIN z /\ NoiseOr("A", z.T.of)'
  <2>1. CASE r.code # "ERR_OK"
    BY <1>1, <1>3, <1>8, <1>10, <2>1 DEF BauthLine, BauthInv
  <2>2. CASE r.code = "ERR_OK"
    <3>1. PICK w : r.send = <<w>> /\ "T" \in DOMAIN w /\ w.T.of = r.st.key
      BY <1>3, <2>2
    <3>2. NoiseOr("A", w.T.of)'
      BY <1>3, <1>5, <1>6, <1>9, <2>2, <3>1 DEF NoiseOr
    <3>3. QED
      BY <1>1, <1>8, <1>10, <3>1, <3>2 DEF BauthLine, BauthInv
  <2>3. QED
    BY <2>1, <2>2
<1>12. BauthLine'
  <2>1. \A z \in Queued(line'["A"]) :
          /\ "y" \in DOMAIN z
          /\ NoiseOr("B", z.y.key)'
          /\ z.y.key # BAUTH!NoiseKey => z.y.cert = con["B"].own
    BY <1>1, <1>8, <1>10 DEF BauthLine, BauthInv
  <2>2. at'["A"] = "read5" => obj'["A"].key.hello = con["A"].hello /\ obj'["A"].key # BAUTH!NoiseKey
    BY <1>3, <1>5, <1>6
  <2>3. \A z \in Behind(line'["A"]) : "y" \in DOMAIN z
    BY <1>8 DEF BauthLine, BauthInv
  <2>4. QED
    BY <1>5, <1>7, <1>11, <2>1, <2>2, <2>3 DEF BauthLine, BAUTH!NoiseKey
<1>13. BAUTH!Due' = BAUTH!Due
  BY <1>5 DEF BAUTH!Due, BAUTH!Parties
<1>14. BauthEnds'
  BY <1>1, <1>4, <1>5, <1>9, <1>13 DEF BauthEnds, BauthInv, Knows
<1>15. QED
  BY <1>12, <1>14 DEF BauthInv

LEMMA BauthTurn4 ==
  ASSUME Shapes, MemInv, BauthInv, at["B"] = "read4", NEW m, Given("B", m),
         Turned("B", BAUTH!CTStep4(m), "stepG")
  PROVE  BauthInv'
<1> DEFINE r == BAUTH!CTStep4(m)
<1>1. Other("A") = "B" /\ Other("B") = "A" /\ Parties = {"A", "B"}
  BY DEF Other, Parties
<1>2. Turned("B", r, "stepG")
  OBVIOUS
<1>3. /\ Returned(r)
      /\ r.code # "ERR_OK" => r.send = <<>>
      /\ r.code = "ERR_OK" =>
           /\ r.st.key.hello = con["B"].hello /\ r.st.key # BAUTH!NoiseKey
           /\ m.T.of = r.st.key
           /\ \/ r.send = <<>>
              \/ \E w : /\ r.send = <<w>> /\ "y" \in DOMAIN w
                        /\ w.y.key = r.st.key /\ w.y.cert = con["B"].own
  BY BauthStep4
<1> HIDE DEF r
<1>4. /\ con' = con /\ at'["A"] = at["A"] /\ code'["A"] = code["A"] /\ obj'["A"] = obj["A"]
      /\ line["B"] # <<>>
      /\ r.code = "ERR_OK" => at'["B"] = "stepG" /\ code'["B"] = code["B"]
      /\ r.code # "ERR_OK" => at'["B"] = "end" /\ code'["B"] = r.code
  BY <1>1, <1>2 DEF Turned, Shapes
<1>5. obj'["B"].key = r.st.key
  BY <1>1, <1>2, <1>3, TurnedKeeps DEF Fields
<1>6. /\ Queued(line'["B"]) = Behind(line["B"])
      /\ Behind(line["B"]) \subseteq Queued(line["B"])
      /\ Head(line["B"]) \in Queued(line["B"])
      /\ r.send = <<>> => line'["A"] = line["A"]
      /\ \A w : r.send = <<w>> =>
           /\ Queued(line'["A"]) = Queued(line["A"]) \cup {w}
           /\ Behind(line'["A"]) \subseteq Behind(line["A"]) \cup {w}
  BY <1>1, <1>2, <1>3, TurnedQueues
<1>7. ~ Past("B") /\ Past("B")' /\ (Past("A") <=> Past("A")')
  BY <1>4 DEF Past
<1>8. \A q \in Parties : \A k : NoiseOr(q, k) => NoiseOr(q, k)'
  BY <1>1, <1>4, <1>7 DEF NoiseOr
<1>9. NoiseOr("A", m.T.of)
  <2>1. "T" \in DOMAIN Head(line["B"]) /\ NoiseOr("A", Head(line["B"]).T.of)
    BY <1>6 DEF BauthLine, BauthInv
  <2>2. BAUTH!Noise.of = BAUTH!NoiseKey
    BY DEF BAUTH!Noise
  <2> HIDE DEF BAUTH!Noise, BAUTH!NoiseKey
  <2>3. m.T = Head(line["B"]).T \/ m.T = BAUTH!Noise
    BY <2>1 DEF Given
  <2>4. QED
    BY <2>1, <2>2, <2>3 DEF NoiseOr
<1>10. BauthLine'
  <2>1. \A z \in Queued(line'["B"]) : "T" \in DOMAIN z /\ NoiseOr("A", z.T.of)'
    BY <1>1, <1>6, <1>8 DEF BauthLine, BauthInv
  <2>2. CASE r.send = <<>>
    <3>1. line'["A"] = line["A"]
      BY <1>6, <2>2
    <3>2. \A z \in Queued(line'["A"]) : "y" \in DOMAIN z =>
            /\ NoiseOr("B", z.y.key)'
            /\ z.y.key # BAUTH!NoiseKey => z.y.cert = con["B"].own
      BY <1>1, <1>8, <3>1 DEF BauthLine, BauthInv
    <3>3. QED
      BY <1>1, <1>4, <2>1, <3>1, <3>2 DEF BauthLine, BauthInv, BAUTH!NoiseKey
  <2>3. CASE r.send # <<>>
    <3>1. r.code = "ERR_OK"
      BY <1>3, <2>3
    <3>2. PICK w : /\ r.send = <<w>> /\ "y" \in DOMAIN w
                   /\ w.y.key = r.st.key /\ w.y.cert = con["B"].own
      BY <1>3, <2>3, <3>1
    <3>3. NoiseOr("B", w.y.key)'
      BY <1>3, <1>4, <1>5, <1>7, <3>1, <3>2 DEF NoiseOr
    <3>4. /\ Queued(line'["A"]) = Queued(line["A"]) \cup {w}
          /\ Behind(line'["A"]) \subseteq Behind(line["A"]) \cup {w}
      BY <1>6, <3>2
    <3>5. \A z \in Queued(line'["A"]) : "y" \in DOMAIN z =>
            /\ NoiseOr("B", z.y.key)'
            /\ z.y.key # BAUTH!NoiseKey => z.y.cert = con["B"].own
      BY <1>1, <1>8, <3>2, <3>3, <3>4 DEF BauthLine, BauthInv
    <3>6. /\ \A z \in Behind(line'["A"]) : "y" \in DOMAIN z
          /\ at["A"] = "read5" => \A z \in Queued(line'["A"]) : "y" \in DOMAIN z
      BY <3>2, <3>4 DEF BauthLine, BauthInv
    <3>7. at["A"] = "read5" => obj["A"].key.hello = con["A"].hello /\ obj["A"].key # BAUTH!NoiseKey
      BY DEF BauthLine, BauthInv
    <3>8. QED
      BY <1>4, <2>1, <3>1, <3>5, <3>6, <3>7 DEF BauthLine, BAUTH!NoiseKey
  <2>4. QED
    BY <2>2, <2>3
<1>11. BAUTH!Due' = BAUTH!Due
  BY <1>4 DEF BAUTH!Due, BAUTH!Parties
<1>12. r.code = "ERR_OK" => r.st.key = obj["A"].key /\ con["A"].hello = con["B"].hello /\ Past("A")
  BY <1>3, <1>9 DEF NoiseOr
<1>13. BauthEnds'
  <2>1. ~ (at["A"] = "stepG" \/ code["A"] = "ERR_OK") \/ "A" \notin BAUTH!Due
    BY <1>1, <1>7 DEF BauthEnds, BauthInv, Knows
  <2>2. QED
    BY <1>1, <1>3, <1>4, <1>5, <1>7, <1>11, <1>12, <2>1 DEF BauthEnds, BauthInv, Knows
<1>14. QED
  BY <1>10, <1>13 DEF BauthInv

LEMMA BauthTurn5 ==
  ASSUME Shapes, MemInv, BauthInv, at["A"] = "read5", NEW m, Given("A", m),
         Turned("A", BAUTH!TStep5(m), "stepG")
  PROVE  BauthInv'
<1> DEFINE r == BAUTH!TStep5(m)
<1>1. Other("A") = "B" /\ Other("B") = "A" /\ Parties = {"A", "B"}
  BY DEF Other, Parties
<1>2. Turned("A", r, "stepG")
  OBVIOUS
<1>3. /\ Returned(r) /\ r.send = <<>> /\ r.st.key = obj["A"].key
      /\ r.code = "ERR_OK" => m.y.key = obj["A"].key /\ r.st.peer = m.y.cert
  BY BauthStep5
<1> HIDE DEF r
<1>4. /\ con' = con /\ at'["B"] = at["B"] /\ code'["B"] = code["B"] /\ obj'["B"] = obj["B"]
      /\ line["A"] # <<>>
      /\ r.code = "ERR_OK" => at'["A"] = "stepG" /\ code'["A"] = code["A"]
      /\ r.code # "ERR_OK" => at'["A"] = "end" /\ code'["A"] = r.code
  BY <1>1, <1>2 DEF Turned, Shapes
<1>5. obj'["A"].key = obj["A"].key /\ obj'["A"].peer = r.st.peer
  BY <1>1, <1>2, <1>3, TurnedKeeps DEF Fields
<1>6. /\ Queued(line'["A"]) = Behind(line["A"])
      /\ Behind(line'["A"]) \subseteq Behind(line["A"])
      /\ Behind(line["A"]) \subseteq Queued(line["A"])
      /\ Head(line["A"]) \in Queued(line["A"])
      /\ line'["B"] = line["B"]
  BY <1>1, <1>2, <1>3, TurnedQueues
<1>7. Past("A") /\ Past("A")' /\ (Past("B") <=> Past("B")')
  BY <1>4 DEF Past
<1>8. \A q \in Parties : \A k : NoiseOr(q, k) => NoiseOr(q, k)'
  BY <1>1, <1>4, <1>5, <1>7 DEF NoiseOr
<1>9. r.code = "ERR_OK" =>
        /\ obj["A"].key = obj["B"].key /\ con["A"].hello = con["B"].hello /\ Past("B")
        /\ r.st.peer = con["B"].own
  <2>1. /\ "y" \in DOMAIN Head(line["A"]) /\ NoiseOr("B", Head(line["A"]).y.key)
        /\ Head(line["A"]).y.key # BAUTH!NoiseKey => Head(line["A"]).y.cert = con["B"].own
        /\ obj["A"].key.hello = con["A"].hello /\ obj["A"].key # BAUTH!NoiseKey
    BY <1>6 DEF BauthLine, BauthInv
  <2>2. BAUTH!NoText.key = BAUTH!NoiseKey
    BY DEF BAUTH!NoText
  <2> HIDE DEF BAUTH!NoText, BAUTH!NoiseKey
  <2>3. m.y = Head(line["A"]).y \/ m.y = BAUTH!NoText
    BY <2>1 DEF Given
  <2>4. QED
    BY <1>3, <2>1, <2>2, <2>3 DEF NoiseOr
<1>10. BauthLine'
  <2>1. \A z \in Queued(line'["B"]) : "T" \in DOMAIN z /\ NoiseOr("A", z.T.of)'
    BY <1>1, <1>6, <1>8 DEF BauthLine, BauthInv
  <2>2. \A z \in Queued(line'["A"]) : "y" \in DOMAIN z =>
          /\ NoiseOr("B", z.y.key)'
          /\ z.y.key # BAUTH!NoiseKey => z.y.cert = con["B"].own
    BY <1>1, <1>6, <1>8 DEF BauthLine, BauthInv
  <2>3. QED
    BY <1>4, <1>6, <2>1, <2>2 DEF BauthLine, BauthInv, BAUTH!NoiseKey
<1>11. BAUTH!Due' = BAUTH!Due
  BY <1>4 DEF BAUTH!Due, BAUTH!Parties
<1>12. BauthEnds'
  BY <1>1, <1>3, <1>4, <1>5, <1>7, <1>9, <1>11 DEF BauthEnds, BauthInv, Knows
<1>13. QED
  BY <1>10, <1>12 DEF BauthInv

LEMMA BauthStep ==
  ASSUME Shapes, MemInv, NoBlocks, NEW p \in Parties, BauthTurns(p)
  PROVE  Shapes' /\ MemInv' /\ NoBlocks' /\ (BauthInv => BauthInv')
<1>1. "A" \in Parties /\ "B" \in Parties /\ DOMAIN obj["B"] = Fields
  BY DEF Parties, Shapes
<1>2. ASSUME NEW n, NEW r, NEW z,
             Opening([obj["B"] EXCEPT !.u = n, !.r = r], [v |-> n, z |-> z])
      PROVE  Shapes' /\ MemInv' /\ NoBlocks' /\ (BauthInv => BauthInv')
  <2> DEFINE s == [obj["B"] EXCEPT !.u = n, !.r = r]
             m == [v |-> n, z |-> z]
  <2>1. DOMAIN s = Fields /\ s.got = obj["B"].got /\ Opening(s, m)
    BY <1>1, <1>2 DEF Fields
  <2>2. BauthInv => BauthInv'
    BY Zenon, <1>2, BauthOpens
  <2> HIDE DEF s, m
  <2>3. QED
    BY <2>1, <2>2, PlainOpening
<1>3. ASSUME NEW m, NEW n, at["A"] = "read3",
             Turned("A", BAUTH!TStep3(m, n), IF con["A"].kcb THEN "read5" ELSE "stepG")
      PROVE  Shapes' /\ MemInv' /\ NoBlocks' /\ (BauthInv => BauthInv')
  <2> DEFINE r == BAUTH!TStep3(m, n)
             next == IF con["A"].kcb THEN "read5" ELSE "stepG"
  <2>1. Returned(r) /\ Turned("A", r, next)
    BY <1>3, BauthStep3
  <2>2. BauthInv => BauthInv'
    BY <1>3, BauthTurn3
  <2> HIDE DEF r, next
  <2>3. QED
    BY <1>1, <2>1, <2>2, PlainTurn
<1>4. ASSUME NEW m, at["A"] = "read5", Given("A", m), Turned("A", BAUTH!TStep5(m), "stepG")
      PROVE  Shapes' /\ MemInv' /\ NoBlocks' /\ (BauthInv => BauthInv')
  <2> DEFINE r == BAUTH!TStep5(m)
  <2>1. Returned(r) /\ Turned("A", r, "stepG")
    BY <1>4, BauthStep5
  <2>2. BauthInv => BauthInv'
    BY <1>4, BauthTurn5
  <2> HIDE DEF r
  <2>3. QED
    BY <1>1, <2>1, <2>2, PlainTurn
<1>5. ASSUME NEW m, at["B"] = "read4", Given("B", m), Turned("B", BAUTH!CTStep4(m), "stepG")
      PROVE  Shapes' /\ MemInv' /\ NoBlocks' /\ (BauthInv => BauthInv')
  <2> DEFINE r == BAUTH!CTStep4(m)
  <2>1. Returned(r) /\ Turned("B", r, "stepG")
    BY <1>5, BauthStep4
  <2>2. BauthInv => BauthInv'
    BY <1>5, BauthTurn4
  <2> HIDE DEF r
  <2>3. QED
    BY <1>1, <2>1, <2>2, PlainTurn
<1>6. QED
  BY Zenon, <1>2, <1>3, <1>4, <1>5 DEF BauthTurns

LEMMA BauthInvKept ==
  ASSUME part = "bauth", Shapes, MemInv, NoBlocks, NEW p \in Parties, Theirs(p)
  PROVE  Shapes' /\ MemInv' /\ NoBlocks' /\ (BauthInv => BauthInv')
<1>1. part # "bsts" /\ part # "bpace"
  OBVIOUS
<1>2. (p = "A" /\ BAUTH!RunT) \/ (p = "B" /\ BAUTH!RunCT)
  BY Zenon, <1>1 DEF Theirs
<1>3. Moves(p) \/ BauthTurns(p)
  BY Zenon, <1>2, BauthMovesA, BauthMovesB
<1>4. QED
  BY Zenon, <1>3, MovesPass, BauthQuiet, BauthStep
-----------------------------------------------------------------------------
(***************************************************************************)
(* The four protocols together.                                            *)
(***************************************************************************)
TheirInv ==
  /\ Shapes /\ MemInv
  /\ part \in {"bpace", "bauth"} => NoBlocks
  /\ part = "bsts" => BstsInv
  /\ part = "bpace" => BpaceInv
  /\ part = "bauth" => BauthInv

AtRest ==
  /\ at = [p \in Parties |-> "start"]
  /\ obj = [p \in Parties |-> [u |-> 0, v |-> 0, t |-> 0, r |-> 0,
                               key |-> [none |-> TRUE], peer |-> 0, got |-> 0]]
  /\ line = [p \in Parties |-> <<>>]
  /\ code = [p \in Parties |-> "running"]
  /\ blobs = [p \in Parties |-> {}]

LEMMA RestStart == MCInit => AtRest
<1>1. BSTS!LineInit => AtRest
  BY DEF BSTS!LineInit, AtRest, BSTS!NoSt, BSTS!NoKey, BSTS!Parties, Parties
<1>2. BPACE!LineInit => AtRest
  BY DEF BPACE!LineInit, AtRest, BPACE!NoSt, BPACE!NoKey, BPACE!Parties, Parties
<1>3. BAUTH!LineInit => AtRest
  BY DEF BAUTH!LineInit, AtRest, BAUTH!NoSt, BAUTH!NoKey, BAUTH!Parties, Parties
<1>4. SUFFICES ASSUME MCInit PROVE AtRest
  OBVIOUS
<1>5. part \in {"bmqv", "bsts", "bpace", "bauth"}
  BY <1>4, ProtocolsAssumption DEF MCInit
<1>6. BSTS!LineInit \/ BSTS!Init \/ BPACE!Init \/ BAUTH!Init
  <2>1. CASE part = "bmqv"
    BY <1>4, <2>1 DEF MCInit
  <2>2. CASE part = "bsts"
    BY <1>4, <2>2 DEF MCInit
  <2>3. CASE part = "bpace"
    BY <1>4, <2>3 DEF MCInit
  <2>4. CASE part = "bauth"
    BY <1>4, <2>4 DEF MCInit
  <2>5. QED
    BY <1>5, <2>1, <2>2, <2>3, <2>4
<1>7. QED
  BY <1>1, <1>2, <1>3, <1>6 DEF BSTS!Init, BPACE!Init, BAUTH!Init

LEMMA TheirInit == AtRest => TheirInv
<1> SUFFICES ASSUME AtRest PROVE TheirInv
  OBVIOUS
<1>1. \A p \in Parties :
        /\ at[p] = "start" /\ line[p] = <<>> /\ code[p] = "running" /\ blobs[p] = {}
        /\ DOMAIN obj[p] = Fields /\ obj[p].got = 0
  BY DEF AtRest, Fields
<1>2. "A" \in Parties /\ "B" \in Parties
  BY DEF Parties
<1>3. Queued(<<>>) = {} /\ Behind(<<>>) = {} /\ <<>> \in Seq({})
  BY DEF Queued, Behind
<1>4. Shapes
  BY <1>1, <1>3 DEF Shapes, AtRest
<1>5. MemInv /\ NoBlocks
  BY <1>1 DEF MemInv, NoBlocks
<1>6. at["A"] = "start" /\ at["B"] = "start" /\ line["A"] = <<>> /\ line["B"] = <<>>
  BY <1>1, <1>2
<1>7. BstsInv
  BY <1>1, <1>3, <1>6 DEF BstsInv, BstsLine, BstsEnds
<1>8. BpaceInv
  BY <1>1, <1>3, <1>6 DEF BpaceInv, BpaceLine, BpaceEnds
<1>9. BauthInv
  BY <1>1, <1>3, <1>6 DEF BauthInv, BauthLine, BauthEnds
<1>10. QED
  BY <1>4, <1>5, <1>7, <1>8, <1>9 DEF TheirInv

LEMMA AtRestKept ==
  ASSUME TheirInv, UNCHANGED <<part, theirVars>>
  PROVE  TheirInv'
<1>1. UNCHANGED <<part, con, at, obj, line, code, blobs>>
  BY DEF theirVars
<1>2. Shapes' /\ MemInv' /\ (NoBlocks => NoBlocks')
  BY <1>1 DEF TheirInv, Shapes, MemInv, Held, NoBlocks
<1>3. (BstsInv => BstsInv')
  BY <1>1 DEF BstsInv, BstsLine, BstsEnds, TextTrue, SealedBy, Past, Knows
<1>4. (BpaceInv => BpaceInv')
  BY <1>1 DEF BpaceInv, BpaceLine, BpaceEnds, MarkTrue, MadeBy, Derived, BPACE!Due
<1>5. (BauthInv => BauthInv')
  BY <1>1 DEF BauthInv, BauthLine, BauthEnds, NoiseOr, Past, Knows, BAUTH!Due,
     BAUTH!NoiseKey
<1>6. QED
  BY <1>1, <1>2, <1>3, <1>4, <1>5 DEF TheirInv

LEMMA TheirStep ==
  ASSUME TheirInv, NEW p \in Parties, Theirs(p), part' = part
  PROVE  TheirInv'
<1>1. part \in {"bsts", "bpace", "bauth"}
  BY Zenon DEF Theirs
<1>2. CASE part = "bsts"
  BY <1>2, BstsInvKept DEF TheirInv
<1>3. CASE part = "bpace"
  BY <1>3, BpaceInvKept DEF TheirInv
<1>4. CASE part = "bauth"
  BY <1>4, BauthInvKept DEF TheirInv
<1>5. QED
  BY <1>1, <1>2, <1>3, <1>4

(* In every state of the four protocols Shapes and MemInv hold, and the    *)
(* invariant of the protocol that runs.                                    *)
THEOREM TheirInductive == MCSpec => []TheirInv
<1>1. MCInit => TheirInv
  BY RestStart, TheirInit
<1>2. TheirInv /\ [MCNext]_all => TheirInv'
  <2>1. ASSUME TheirInv, NEW p \in Parties, MCStep(p) PROVE TheirInv'
    <3>1. CASE UNCHANGED <<part, theirVars>>
      BY <2>1, <3>1, AtRestKept
    <3>2. CASE Theirs(p) /\ UNCHANGED <<part, bmqvVars>>
      BY <2>1, <3>2, TheirStep
    <3>3. QED
      BY Zenon, <2>1, <3>1, <3>2 DEF MCStep
  <2>2. CASE UNCHANGED all
    BY <2>2, AtRestKept DEF all
  <2>3. QED
    BY Zenon, <2>1, <2>2 DEF MCNext
<1>3. QED
  BY <1>1, <1>2, PTL DEF MCSpec

(* The runs of BMQV are those of its own specification.                    *)
LEMMA BmqvPart == MCSpec => Spec
<1>1. MCInit => Init
  BY Zenon DEF MCInit
<1>2. [MCNext]_all => [Next]_bmqvVars
  <2>1. ASSUME NEW p \in Parties, MCStep(p) PROVE [Next]_bmqvVars
    <3>1. Step(p) \/ UNCHANGED bmqvVars
      BY Zenon, <2>1 DEF MCStep
    <3>2. QED
      BY Zenon, <3>1 DEF Next
  <2>2. CASE UNCHANGED all
    BY <2>2 DEF all
  <2>3. QED
    BY Zenon, <2>1, <2>2 DEF MCNext
<1>3. QED
  BY <1>1, <1>2, PTL DEF MCSpec, Spec

(* A run of BSTS, BPACE or BAUTH that has ended has closed every blob it   *)
(* made, unless it is the one the memory has ended for.                    *)
THEOREM MemoryBackCorrect == MCSpec => []MemoryBack
<1>1. TheirInv => MemoryBack
  BY DEF TheirInv, MemInv, MemoryBack
<1>2. QED
  BY <1>1, TheirInductive, PTL

(* A party that ends well and was owed a proof of the key has the key of   *)
(* its partner, and in BSTS, BPACE and BAUTH the hellos and the            *)
(* certificate of its partner.                                             *)
THEOREM KeysConfirmedCorrect == MCSpec => []KeysConfirmed
<1>1. Confirmed /\ TheirInv => KeysConfirmed
  <2> SUFFICES ASSUME Confirmed, TheirInv PROVE KeysConfirmed
    OBVIOUS
  <2>1. part = "bsts" => BSTS!OneKey
    <3>1. Parties = BSTS!Parties /\ \A p : Other(p) = BSTS!Other(p)
      BY DEF Parties, BSTS!Parties, Other, BSTS!Other
    <3>2. QED
      BY <3>1 DEF TheirInv, BstsInv, BstsEnds, Knows, BSTS!OneKey, BSTS!Finished
  <2>2. part = "bpace" => BPACE!OneKey
    <3>1. BPACE!Due \subseteq Parties /\ \A p : Other(p) = BPACE!Other(p)
      BY DEF Parties, BPACE!Parties, Other, BPACE!Other, BPACE!Due
    <3>2. QED
      BY <3>1 DEF TheirInv, BpaceInv, BpaceEnds, BPACE!OneKey, BPACE!Finished
  <2>3. part = "bauth" => BAUTH!OneKey
    <3>1. BAUTH!Due \subseteq Parties /\ \A p : Other(p) = BAUTH!Other(p)
      BY DEF Parties, BAUTH!Parties, Other, BAUTH!Other, BAUTH!Due
    <3>2. QED
      BY <3>1 DEF TheirInv, BauthInv, BauthEnds, Knows, BAUTH!OneKey, BAUTH!Finished
  <2>4. QED
    BY <2>1, <2>2, <2>3 DEF KeysConfirmed
<1>2. MCSpec => []Confirmed
  BY BmqvPart, ConfirmedCorrect
<1>3. QED
  BY <1>1, <1>2, TheirInductive, PTL
-----------------------------------------------------------------------------
(***************************************************************************)
(* Runs of BSTS, BPACE and BAUTH in which nothing fails and the parties    *)
(* were given what fits together: each message is what its reader waits    *)
(* for.                                                                    *)
(***************************************************************************)
Over(p) == at[p] \in {"stepG", "end"}
Lines(a, b) == line["A"] = a /\ line["B"] = b
Unopened ==
  at["A"] \in {"start", "read3"} /\ at["B"] \in {"start", "step2"} /\ Lines(<<>>, <<>>)
Waiting == at["A"] \in {"start", "read3"} /\ at["B"] = "read4"
CodesGood ==
  \A p \in Parties : code[p] = IF at[p] = "end" THEN "ERR_OK" ELSE "running"

(* What the parties of each protocol were given.                           *)
Granted ==
  /\ part = "bsts" => con \in [Parties -> BSTS!Confs]
  /\ part = "bpace" => con \in [Parties -> BPACE!Confs]
  /\ part = "bauth" => /\ con \in [Parties -> BAUTH!Confs]
                       /\ con["A"].kcb = con["B"].kcb /\ con["A"].l = con["B"].l

(* A party goes on without a message, or its partner has left it alone.    *)
Still(p) ==
  /\ con' = con /\ line' = line
  /\ \A q \in Parties :
       /\ obj'[q].u = obj[q].u /\ obj'[q].v = obj[q].v /\ obj'[q].t = obj[q].t
       /\ obj'[q].r = obj[q].r /\ obj'[q].key = obj[q].key
       /\ at[q] \notin {"start", "stepG"} => at'[q] = at[q]
       /\ at[q] = "start" => at'[q] \in {"start", IF q = "A" THEN "read3" ELSE "step2"}
       /\ at[q] = "stepG" => at'[q] \in {"stepG", "end"}
  /\ CodesGood => CodesGood'
Left(p) ==
  at[p] \in {"read3", "read4", "read5", "read6"} /\ line[p] = <<>> /\ at[Other(p)] = "end"

LEMMA StillSteps ==
  ASSUME Shapes, NEW p \in Parties,
         Ended(p) \/ Grown(p) \/ \E next : Started(p, next)
  PROVE  Still(p)
<1> USE DEF Shapes, Still, CodesGood
<1>1. CASE Ended(p)
  BY <1>1 DEF Ended
<1>2. ASSUME NEW next, Started(p, next)
      PROVE  Still(p)
  BY <1>2 DEF Started
<1>3. CASE Grown(p)
  <2>1. DOMAIN obj[p] = Fields
    OBVIOUS
  <2>2. obj'[p] = [obj[p] EXCEPT !.got = @ + 1] /\ \A q \in Parties : q # p => obj'[q] = obj[q]
    BY <1>3 DEF Grown
  <2>3. /\ obj'[p].u = obj[p].u /\ obj'[p].v = obj[p].v /\ obj'[p].t = obj[p].t
        /\ obj'[p].r = obj[p].r /\ obj'[p].key = obj[p].key
    BY <2>1, <2>2 DEF Fields
  <2> QED
    BY <1>3, <2>2, <2>3 DEF Grown
<1> QED
  BY <1>1, <1>2, <1>3

(* A party takes the only message there is, and its step goes well.        *)
LEMMA TurnedWell ==
  ASSUME Shapes, CodesGood, NEW p \in Parties, NEW r, NEW next,
         Turned(p, r, next), Returned(r), r.code = "ERR_OK",
         NEW m, line[p] = <<m>>, line[Other(p)] = <<>>
  PROVE  /\ line'[p] = <<>> /\ line'[Other(p)] = r.send
         /\ at' = [at EXCEPT ![p] = next] /\ con' = con /\ CodesGood'
         /\ obj'[Other(p)] = obj[Other(p)]
         /\ obj'[p].u = r.st.u /\ obj'[p].v = r.st.v /\ obj'[p].t = r.st.t
         /\ obj'[p].r = r.st.r /\ obj'[p].key = r.st.key
<1>1. Other(p) \in Parties /\ Other(p) # p
  BY DEF Other, Parties
<1>2. /\ obj' = [obj EXCEPT ![p] = [r.st EXCEPT !.got = 0]]
      /\ line' = [line EXCEPT ![p] = Tail(@), ![Other(p)] = @ \o r.send]
      /\ at' = [at EXCEPT ![p] = next] /\ code' = code /\ con' = con
      /\ next \notin {"start", "end"} /\ at[p] # "end"
  BY DEF Turned
<1>3. Tail(<<m>>) = <<>> /\ <<>> \o r.send = r.send
  BY DEF Returned
<1>4. line'[p] = <<>> /\ line'[Other(p)] = r.send
  BY <1>1, <1>2, <1>3 DEF Shapes
<1>5. CodesGood'
  BY <1>2 DEF CodesGood, Shapes
<1>6. obj'[Other(p)] = obj[Other(p)] /\ obj'[p] = [r.st EXCEPT !.got = 0]
  BY <1>1, <1>2 DEF Shapes
<1>7. /\ obj'[p].u = r.st.u /\ obj'[p].v = r.st.v /\ obj'[p].t = r.st.t
      /\ obj'[p].r = r.st.r /\ obj'[p].key = r.st.key
  BY <1>6 DEF Returned, Fields
<1> QED
  BY <1>2, <1>4, <1>5, <1>6, <1>7

(* A signature restores the one-time key it was made with.                 *)
LEMMA Restores ==
  ASSUME NEW c \in Int, NEW k \in Points, NEW d \in Points
  PROVE  (((k - c * d) % Q) + c * d) % Q = k
<1>1. Q \in Nat /\ Q > 0 /\ k \in Nat /\ k < Q /\ d \in Int
  BY OnePoint DEF Points
<1>2. c * d \in Int
  BY <1>1
<1> DEFINE e == c * d
<1> HIDE DEF e
<1>3. e \in Int
  BY <1>2 DEF e
<1> DEFINE x == k - e
           y == x \div Q
<1>4. x \in Int /\ y \in Int
  BY <1>1, <1>3
<1>5. x = Q * y + (x % Q)
  <2> HIDE DEF x
  <2> QED
    BY <1>1, <1>4, SMTT(30)
<1>6. (x % Q) + e = k + Q * (- y)
  <2>1. x % Q \in Int
    BY <1>1, <1>4
  <2> HIDE DEF y
  <2>2. Q * (- y) = - (Q * y) /\ Q * y \in Int
    BY <1>1, <1>4
  <2> QED
    BY <1>1, <1>3, <1>4, <1>5, <2>1, <2>2
<1> HIDE DEF x, y
<1>7. (k + Q * (- y)) % Q = k
  <2> DEFINE z == - y
  <2>1. z \in Int
    BY <1>4
  <2> HIDE DEF z
  <2>2. (k + Q * z) % Q = k
    BY <1>1, <2>1, SMTT(30)
  <2> QED
    BY <2>2 DEF z
<1>8. (((k - e) % Q) + e) % Q = k
  BY <1>6, <1>7 DEF x
<1> QED
  BY <1>8 DEF e

(* The same products on both sides.                                        *)
LEMMA SameProduct ==
  ASSUME NEW a \in Points, NEW b \in Points
  PROVE  a * b = b * a /\ a \in Int /\ b \in Int /\ a # 0 /\ a % Q = a
BY OnePoint DEF Points

LEMMA HashedNumber ==
  ASSUME NEW x \in Xs, NEW y \in Xs
  PROVE  BSTS!Factor(x, y) \in Int
<1>1. HashT[<<x, y>>] \in 0 .. TwoL - 1
  BY BMQVAssumption
<1> QED
  BY <1>1, BMQVAssumption DEF BSTS!Factor
-----------------------------------------------------------------------------
(* BSTS: the texts that fit.                                               *)
BstsFits ==
  /\ \A p \in Parties : con[p].own = con[p].d
  /\ con["A"].hello = con["B"].hello
BstsFactor == BSTS!Factor(BSTS!X(obj["A"].u), BSTS!X(obj["B"].u))
BstsText(p) ==
  BSTS!Sealed(obj[p].key, IF p = "A" THEN 0 ELSE 1,
              BSTS!Sign(BstsFactor, obj[p].u, con[p].d), con[p].own)

BstsHalf == obj["B"].u \in Points /\ obj["B"].v = obj["B"].u
BstsFull ==
  /\ obj["B"].u \in Points /\ obj["A"].u \in Points /\ obj["A"].v = obj["B"].u
  /\ obj["A"].t = BstsFactor

BstsServed ==
  \/ Unopened
  \/ Waiting /\ BstsHalf /\ Lines(<<BSTS!M1(obj["B"].u)>>, <<>>)
  \/ /\ at["A"] = "read5" /\ at["B"] = "read4" /\ BstsHalf /\ BstsFull
     /\ obj["A"].key = BSTS!KeyOf("A", obj["A"].u, obj["B"].u)
     /\ Lines(<<>>, <<BSTS!M2(obj["A"].u, BstsText("A"), con["A"].blocks)>>)
  \/ /\ at["A"] = "read5" /\ Over("B") /\ BstsFull /\ obj["A"].key = obj["B"].key
     /\ Lines(<<BSTS!M3(BstsText("B"), con["B"].blocks)>>, <<>>)
  \/ Over("A") /\ Over("B") /\ Lines(<<>>, <<>>)

(* What the runs do when nothing fails.                                    *)
BstsAnswers(p) ==
  \/ /\ p = "A" /\ at["A"] = "read3" /\ line["A"] # <<>>
     /\ \E n \in Points : Turned("A", BSTS!Step3(Head(line["A"]), n), "read5")
  \/ /\ p = "A" /\ at["A"] = "read5" /\ line["A"] # <<>>
     /\ Turned("A", BSTS!Step5(Head(line["A"])), "stepG")
  \/ /\ p = "B" /\ at["B"] = "read4" /\ line["B"] # <<>>
     /\ Turned("B", BSTS!Step4(Head(line["B"])), "stepG")
  \/ /\ p = "B"
     /\ \E n \in Points : Opening([obj["B"] EXCEPT !.u = n, !.v = n], BSTS!M1(n))

LEMMA BstsSmooth ==
  ASSUME Shapes, NEW p \in Parties, slips = 0, slips' = 0
  PROVE  /\ \A next : BSTS!Start(p, next)
              /\ next = (IF p = "A" THEN "read3" ELSE "step2") => Still(p)
         /\ BSTS!ReadBlock(p) => Still(p)
         /\ ~ BSTS!LastFails(p)
         /\ \A sent : ~ BSTS!WriteFails(p, sent)
         /\ BSTS!Breaks(p, BSTS!Outside, BSTS!Broken(p)) => Left(p)
         /\ BSTS!StepG(p) => Still(p)
         /\ \A m, r, next : BSTS!Turn(p, m, r, next) => m = Head(line[p])
<1>1. ~ BSTS!Fault
  BY DEF BSTS!Fault
<1>2. ASSUME NEW next, BSTS!Start(p, next), next = (IF p = "A" THEN "read3" ELSE "step2")
      PROVE  Still(p)
  <2>1. Started(p, next)
    BY <1>1, <1>2 DEF BSTS!Start, Started, Parties
  <2> QED
    BY <2>1, StillSteps
<1>3. ASSUME BSTS!ReadBlock(p) PROVE Still(p)
  <2>1. Grown(p)
    BY <1>1, <1>3 DEF BSTS!ReadBlock, BSTS!Reading, Grown
  <2> QED
    BY <2>1, StillSteps
<1>4. ~ BSTS!LastFails(p) /\ \A sent : ~ BSTS!WriteFails(p, sent)
  BY <1>1 DEF BSTS!LastFails, BSTS!WriteFails
<1>5. ASSUME BSTS!Breaks(p, BSTS!Outside, BSTS!Broken(p)) PROVE Left(p)
  <2>1. "ERR_FILE" \in BSTS!Outside(at[p]) /\ line[p] = <<>> /\ at[BSTS!Other(p)] = "end"
    BY Zenon, <1>1, <1>5 DEF BSTS!Breaks
  <2>2. at[p] \in {"step2", "read3", "read4", "read5"}
    BY <2>1, BstsOutside
  <2>3. "ERR_FILE" \notin BSTS!Outside("step2")
    BY DEF BSTS!Outside
  <2> QED
    BY <2>1, <2>2, <2>3 DEF Left, BSTS!Other, Other
<1>6. ASSUME BSTS!StepG(p) PROVE Still(p)
  <2>1. Ended(p)
    BY <1>6 DEF BSTS!StepG, BSTS!Return, Ended
  <2> QED
    BY <2>1, StillSteps
<1>7. ASSUME NEW m, NEW r, NEW next, BSTS!Turn(p, m, r, next)
      PROVE  m = Head(line[p])
  BY <1>7 DEF BSTS!Turn
<1> QED
  BY <1>2, <1>3, <1>4, <1>5, <1>6, <1>7

LEMMA BstsPlain ==
  ASSUME Shapes, MemInv, slips = 0, slips' = 0, NEW p \in Parties,
         (p = "A" /\ BSTS!RunA) \/ (p = "B" /\ BSTS!RunB)
  PROVE  Still(p) \/ Left(p) \/ BstsAnswers(p)
<1>1. "A" \in Parties /\ "B" \in Parties /\ Points = BSTS!Points
  BY DEF Parties, Points, BSTS!Points
<1>2. \A m, got : got = m.blocks => BSTS!Whole(m, got) = m
  BY DEF BSTS!Whole
<1>3. ASSUME p = "A", BSTS!RunA PROVE Still(p) \/ Left(p) \/ BstsAnswers(p)
  <2>1. CASE \/ BSTS!Start("A", "read3") \/ BSTS!ReadBlock("A") \/ BSTS!StepG("A")
             \/ BSTS!LastFails("A") \/ BSTS!WriteFails("A", {"read5"})
             \/ BSTS!Breaks("A", BSTS!Outside, BSTS!Broken("A"))
    BY Zenon, <1>1, <1>3, <2>1, BstsSmooth
  <2>2. CASE /\ at["A"] = "read3" /\ line["A"] # <<>>
             /\ \E m \in BSTS!Heard("A", BSTS!Spoil), n \in BSTS!Points :
                  BSTS!Turn("A", m, BSTS!Step3(m, n), "read5")
             /\ UNCHANGED con
    <3>1. PICK m \in BSTS!Heard("A", BSTS!Spoil) : \E n \in BSTS!Points :
                  BSTS!Turn("A", m, BSTS!Step3(m, n), "read5")
      BY Zenon, <2>2
    <3>2. PICK n \in BSTS!Points : BSTS!Turn("A", m, BSTS!Step3(m, n), "read5")
      BY Zenon, <3>1
    <3>3. m = Head(line["A"])
      BY Zenon, <1>1, <3>2, BstsSmooth
    <3>4. Turned("A", BSTS!Step3(m, n), "read5")
      BY Zenon, <2>2, <3>2, BstsReads
    <3>5. Turned("A", BSTS!Step3(Head(line["A"]), n), "read5") /\ n \in Points
      BY Zenon, <1>1, <3>2, <3>3, <3>4
    <3> QED
      BY Zenon, <1>3, <2>2, <3>5 DEF BstsAnswers
  <2>3. CASE /\ at["A"] = "read5" /\ BSTS!Reading("A")
             /\ \E m \in BSTS!Heard("A", BSTS!Spoil) :
                  /\ BSTS!ReadLast("A", m)
                  /\ BSTS!Turn("A", m, BSTS!Step5(BSTS!Whole(m, obj["A"].got)), "stepG")
             /\ UNCHANGED con
    <3>1. PICK m \in BSTS!Heard("A", BSTS!Spoil) :
            /\ BSTS!ReadLast("A", m)
            /\ BSTS!Turn("A", m, BSTS!Step5(BSTS!Whole(m, obj["A"].got)), "stepG")
      BY Zenon, <2>3
    <3>2. m = Head(line["A"])
      BY Zenon, <1>1, <3>1, BstsSmooth
    <3>3. BSTS!Whole(m, obj["A"].got) = m
      BY Zenon, <1>2, <3>1 DEF BSTS!ReadLast
    <3>4. line["A"] # <<>>
      BY Zenon, <2>3 DEF BSTS!Reading
    <3>5. Turned("A", BSTS!Step5(BSTS!Whole(m, obj["A"].got)), "stepG")
      BY Zenon, <2>3, <3>1, <3>4, BstsReads
    <3>6. Turned("A", BSTS!Step5(Head(line["A"])), "stepG")
      BY Zenon, <3>2, <3>3, <3>5
    <3> QED
      BY Zenon, <1>3, <2>3, <3>4, <3>6 DEF BstsAnswers
  <2> QED
    BY Zenon, <1>3, <2>1, <2>2, <2>3 DEF BSTS!RunA
<1>4. ASSUME p = "B", BSTS!RunB PROVE Still(p) \/ Left(p) \/ BstsAnswers(p)
  <2>1. CASE \/ BSTS!Start("B", "step2") \/ BSTS!ReadBlock("B") \/ BSTS!StepG("B")
             \/ BSTS!LastFails("B") \/ BSTS!WriteFails("B", {"read4", "stepG"})
             \/ BSTS!Breaks("B", BSTS!Outside, BSTS!Broken("B"))
    <3>1. "B" # "A"
      OBVIOUS
    <3> QED
      BY Zenon, <1>1, <1>4, <2>1, <3>1, BstsSmooth
  <2>2. CASE /\ at["B"] = "step2"
             /\ \E n \in BSTS!Points : LET r == BSTS!Step2(n)
                                       IN /\ obj' = [obj EXCEPT !["B"] = r.st]
                                          /\ line' = [line EXCEPT !["A"] = r.send]
             /\ at' = [at EXCEPT !["B"] = "read4"]
             /\ UNCHANGED <<con, code, blobs, slips>>
    <3>1. PICK n \in BSTS!Points : /\ obj' = [obj EXCEPT !["B"] = BSTS!Step2(n).st]
                                   /\ line' = [line EXCEPT !["A"] = BSTS!Step2(n).send]
      BY Zenon, <2>2
    <3>2. /\ BSTS!Step2(n).st = [obj["B"] EXCEPT !.u = n, !.v = n]
          /\ BSTS!Step2(n).send = <<BSTS!M1(n)>>
      BY DEF BSTS!Step2, BSTS!Done
    <3>3. Opening([obj["B"] EXCEPT !.u = n, !.v = n], BSTS!M1(n)) /\ n \in Points
      BY <1>1, <2>2, <3>1, <3>2 DEF Opening
    <3> QED
      BY Zenon, <1>4, <3>3 DEF BstsAnswers
  <2>3. CASE /\ at["B"] = "read4" /\ BSTS!Reading("B")
             /\ \E m \in BSTS!Heard("B", BSTS!Spoil) :
                  /\ BSTS!ReadLast("B", m)
                  /\ BSTS!Turn("B", m, BSTS!Step4(BSTS!Whole(m, obj["B"].got)), "stepG")
             /\ UNCHANGED con
    <3>1. PICK m \in BSTS!Heard("B", BSTS!Spoil) :
            /\ BSTS!ReadLast("B", m)
            /\ BSTS!Turn("B", m, BSTS!Step4(BSTS!Whole(m, obj["B"].got)), "stepG")
      BY Zenon, <2>3
    <3>2. m = Head(line["B"])
      BY Zenon, <1>1, <3>1, BstsSmooth
    <3>3. BSTS!Whole(m, obj["B"].got) = m
      BY Zenon, <1>2, <3>1 DEF BSTS!ReadLast
    <3>4. line["B"] # <<>>
      BY Zenon, <2>3 DEF BSTS!Reading
    <3>5. Turned("B", BSTS!Step4(BSTS!Whole(m, obj["B"].got)), "stepG")
      BY Zenon, <2>3, <3>1, <3>4, BstsReads
    <3>6. Turned("B", BSTS!Step4(Head(line["B"])), "stepG")
      BY Zenon, <3>2, <3>3, <3>5
    <3> QED
      BY Zenon, <1>4, <2>3, <3>4, <3>6 DEF BstsAnswers
  <2> QED
    BY Zenon, <1>4, <2>1, <2>2, <2>3 DEF BSTS!RunB
<1> QED
  BY Zenon, <1>3, <1>4
-----------------------------------------------------------------------------
(* The signatures of a run that fits restore the one-time points.          *)
LEMMA BstsRestores ==
  ASSUME NEW c \in Int, NEW k \in Points, NEW d \in Points
  PROVE  BSTS!Restored(c, BSTS!Sign(c, k, d), d) = k
BY Restores DEF BSTS!Restored, BSTS!Sign

LEMMA BstsSameKey ==
  ASSUME NEW a \in Points, NEW b \in Points, con["A"].hello = con["B"].hello
  PROVE  BSTS!KeyOf("A", a, b) = BSTS!KeyOf("B", b, a)
<1>1. a * b = b * a
  BY SameProduct
<1> QED
  BY <1>1 DEF BSTS!KeyOf

LEMMA BstsCommon ==
  ASSUME NEW a \in Points, NEW b \in Points
  PROVE  BSTS!Factor(BSTS!X(a), BSTS!X(b)) \in Int
<1>1. BSTS!X(a) \in Xs /\ BSTS!X(b) \in Xs
  BY OnePoint DEF BSTS!X, Xs, X
<1> QED
  BY <1>1, HashedNumber

LEMMA BstsOpens3 ==
  ASSUME Shapes, NEW n \in Points, obj["B"].u \in Points,
         NEW r, r = BSTS!Step3(BSTS!M1(obj["B"].u), n)
  PROVE  LET k == BSTS!KeyOf("A", n, obj["B"].u)
             c == BSTS!Factor(BSTS!X(n), BSTS!X(obj["B"].u))
             y == BSTS!Sealed(k, 0, BSTS!Sign(c, n, con["A"].d), con["A"].own)
         IN  /\ Returned(r) /\ r.code = "ERR_OK"
             /\ r.st.u = n /\ r.st.v = obj["B"].u /\ r.st.t = c /\ r.st.key = k
             /\ r.send = <<BSTS!M2(n, y, con["A"].blocks)>>
<1> DEFINE k == BSTS!KeyOf("A", n, obj["B"].u)
           c == BSTS!Factor(BSTS!X(n), BSTS!X(obj["B"].u))
           y == BSTS!Sealed(k, 0, BSTS!Sign(c, n, con["A"].d), con["A"].own)
           w == BSTS!M2(n, y, con["A"].blocks)
           v == obj["B"].u
           s == [obj["A"] EXCEPT !.u = n, !.v = v, !.t = c, !.key = k]
<1>1. DOMAIN obj["A"] = Fields
  BY DEF Shapes, Parties
<1>2. v # 0
  BY SameProduct
<1>3. r = IF BSTS!M1(v).v = 0 THEN BSTS!Error("ERR_BAD_POINT", obj["A"])
          ELSE BSTS!Done([obj["A"] EXCEPT !.u = n, !.v = BSTS!M1(v).v, !.t = c, !.key = k], <<w>>)
  BY DEF BSTS!Step3, BSTS!M1
<1>4. BSTS!M1(v).v = v
  BY DEF BSTS!M1
<1> SUFFICES Returned(r) /\ r.code = "ERR_OK"
             /\ r.st.u = n /\ r.st.v = v /\ r.st.t = c /\ r.st.key = k /\ r.send = <<w>>
  OBVIOUS
<1> HIDE DEF k, c, y, w, v
<1>5. r = BSTS!Done(s, <<w>>)
  BY <1>2, <1>3, <1>4
<1>6. DOMAIN s = Fields /\ s.u = n /\ s.v = v /\ s.t = c /\ s.key = k
  BY <1>1 DEF Fields
<1> HIDE DEF s
<1> QED
  BY <1>5, <1>6 DEF BSTS!Done, Returned

LEMMA BstsOpens4 ==
  ASSUME Shapes, \A p \in Parties : con[p].d \in Points, BstsFits, BstsFull, obj["B"].v = obj["B"].u,
         obj["A"].key = BSTS!KeyOf("A", obj["A"].u, obj["B"].u),
         NEW r, r = BSTS!Step4(BSTS!M2(obj["A"].u, BstsText("A"), con["A"].blocks))
  PROVE  LET y == BSTS!Sealed(obj["A"].key, 1, BSTS!Sign(BstsFactor, obj["B"].u, con["B"].d),
                              con["B"].own)
         IN  /\ Returned(r) /\ r.code = "ERR_OK"
             /\ r.st.u = obj["B"].u /\ r.st.v = obj["B"].v /\ r.st.key = obj["A"].key
             /\ r.send = <<BSTS!M3(y, con["B"].blocks)>>
<1> DEFINE a == obj["A"].u
           s == obj["B"]
           h == obj["A"].key
           m == BSTS!M2(a, BstsText("A"), con["A"].blocks)
           c == BstsFactor
           k == [s EXCEPT !.key = h, !.r = a]
           y == BSTS!Sealed(h, 1, BSTS!Sign(c, s.u, con["B"].d), con["B"].own)
           w == BSTS!M3(y, con["B"].blocks)
           e == [k EXCEPT !.peer = m.y.cert]
<1>1. DOMAIN s = Fields
  BY DEF Shapes, Parties
<1>2. a \in Points /\ s.u \in Points /\ s.v = s.u /\ a # 0
  BY SameProduct DEF BstsFull
<1>3. con["A"].hello = con["B"].hello /\ con["A"].own = con["A"].d /\ con["A"].d \in Points
  BY DEF BstsFits, Parties
<1>4. h = BSTS!KeyOf("B", s.u, a)
  BY <1>2, <1>3, BstsSameKey
<1>5. c = BSTS!Factor(BSTS!X(a), BSTS!X(s.v)) /\ c \in Int
  BY <1>2, BstsCommon DEF BstsFactor
<1>6. m.v = a /\ m.y = BstsText("A") /\ m.t = m.y
  BY DEF BSTS!M2
<1>7. m.y.key = h /\ m.y.pad = 0 /\ m.y.s = BSTS!Sign(c, a, con["A"].d) /\ m.y.cert = con["A"].d
  BY <1>3, <1>6 DEF BstsText, BSTS!Sealed
<1>8. BSTS!Restored(c, m.y.s, m.y.cert) = a
  BY <1>2, <1>3, <1>5, <1>7, BstsRestores
<1> DEFINE ret == BSTS!Opened(k, m, 0, c, m.v)
<1>9. DOMAIN k = Fields /\ k.key = h /\ k.u = s.u /\ k.v = s.v
  BY <1>1 DEF Fields
<1>10. r = CASE m.v = 0 -> BSTS!Error("ERR_BAD_POINT", s)
             [] m.v # 0 /\ ret # "ERR_OK" -> BSTS!Error(ret, k)
             [] OTHER -> BSTS!Done(e, <<BSTS!M3(BSTS!Sealed(k.key, 1, BSTS!Sign(c, s.u, con["B"].d), con["B"].own), con["B"].blocks)>>)
  BY <1>4, <1>5, <1>6 DEF BSTS!Step4
<1> HIDE DEF a, h, m, c, k
<1>11. ret = "ERR_OK"
  BY <1>2, <1>6, <1>7, <1>8, <1>9 DEF BSTS!Opened
<1>12. DOMAIN e = Fields /\ e.key = h /\ e.u = s.u /\ e.v = s.v
  BY <1>9 DEF Fields
<1> HIDE DEF ret
<1>13. r = BSTS!Done(e, <<w>>)
  BY <1>2, <1>6, <1>9, <1>10, <1>11
<1> SUFFICES /\ Returned(r) /\ r.code = "ERR_OK"
             /\ r.st.u = s.u /\ r.st.v = s.v /\ r.st.key = h /\ r.send = <<w>>
  BY DEF h, c
<1> HIDE DEF e, w, s
<1> QED
  BY <1>12, <1>13 DEF BSTS!Done, Returned

LEMMA BstsOpens5 ==
  ASSUME Shapes, \A p \in Parties : con[p].d \in Points, BstsFits, BstsFull, obj["A"].key = obj["B"].key,
         NEW r, r = BSTS!Step5(BSTS!M3(BstsText("B"), con["B"].blocks))
  PROVE  Returned(r) /\ r.code = "ERR_OK" /\ r.send = <<>>
<1> DEFINE s == obj["A"]
           m == BSTS!M3(BstsText("B"), con["B"].blocks)
           c == BstsFactor
           ret == BSTS!Opened(s, m, 1, s.t, s.v)
           e == [s EXCEPT !.peer = m.y.cert]
<1>1. DOMAIN s = Fields
  BY DEF Shapes, Parties
<1>2. s.v = obj["B"].u /\ s.v \in Points /\ s.u \in Points /\ s.t = c /\ s.v # 0
  BY SameProduct DEF BstsFull
<1>3. con["B"].own = con["B"].d /\ con["B"].d \in Points
  BY DEF BstsFits, Parties
<1>4. c \in Int
  BY <1>2, BstsCommon DEF BstsFactor
<1>5. m.y = BstsText("B") /\ m.t = m.y
  BY DEF BSTS!M3
<1>6. m.y.key = s.key /\ m.y.pad = 1 /\ m.y.s = BSTS!Sign(c, s.v, con["B"].d) /\ m.y.cert = con["B"].d
  BY <1>2, <1>3, <1>5 DEF BstsText, BSTS!Sealed
<1>7. BSTS!Restored(c, m.y.s, m.y.cert) = s.v
  BY <1>2, <1>3, <1>4, <1>6, BstsRestores
<1>8. r = IF ret # "ERR_OK" THEN BSTS!Error(ret, s) ELSE BSTS!Done(e, <<>>)
  BY DEF BSTS!Step5
<1>9. DOMAIN e = Fields
  BY <1>1 DEF Fields
<1> HIDE DEF s, m, c
<1>10. ret = "ERR_OK"
  BY <1>2, <1>5, <1>6, <1>7 DEF BSTS!Opened
<1> HIDE DEF e, ret
<1> QED
  BY <1>8, <1>9, <1>10 DEF BSTS!Done, Returned

LEMMA BstsStill ==
  ASSUME NEW p \in Parties, Still(p), BstsServed, CodesGood
  PROVE  BstsServed' /\ CodesGood'
<1>1. "A" \in Parties /\ "B" \in Parties
  BY DEF Parties
<1>2. /\ con' = con /\ line' = line /\ CodesGood'
      /\ \A q \in Parties : obj'[q].u = obj[q].u /\ obj'[q].v = obj[q].v
                            /\ obj'[q].t = obj[q].t /\ obj'[q].key = obj[q].key
  BY DEF Still
<1>3. /\ at["A"] \in {"start", "read3"} => at'["A"] \in {"start", "read3"}
      /\ at["B"] \in {"start", "step2"} => at'["B"] \in {"start", "step2"}
      /\ \A q \in Parties : /\ at[q] \in {"read4", "read5"} => at'[q] = at[q]
                            /\ Over(q) => Over(q)'
  BY <1>1 DEF Still, Over
<1>4. BstsFactor' = BstsFactor /\ BstsText("A")' = BstsText("A") /\ BstsText("B")' = BstsText("B")
  BY <1>1, <1>2 DEF BstsFactor, BstsText
<1>5. BSTS!KeyOf("A", obj["A"].u, obj["B"].u)' = BSTS!KeyOf("A", obj["A"].u, obj["B"].u)
  BY <1>1, <1>2 DEF BSTS!KeyOf
<1>6. (BstsHalf => BstsHalf') /\ (BstsFull => BstsFull')
  BY <1>1, <1>2, <1>4 DEF BstsHalf, BstsFull
<1>7. \A a, b : Lines(a, b) => Lines(a, b)'
  BY <1>2 DEF Lines
<1>8. CASE Unopened
  BY <1>3, <1>7, <1>8, <1>2 DEF BstsServed, Unopened
<1>9. CASE Waiting /\ BstsHalf /\ Lines(<<BSTS!M1(obj["B"].u)>>, <<>>)
  BY <1>1, <1>2, <1>3, <1>6, <1>9 DEF BstsServed, Waiting, Lines
<1>10. CASE /\ at["A"] = "read5" /\ at["B"] = "read4" /\ BstsHalf /\ BstsFull
            /\ obj["A"].key = BSTS!KeyOf("A", obj["A"].u, obj["B"].u)
            /\ Lines(<<>>, <<BSTS!M2(obj["A"].u, BstsText("A"), con["A"].blocks)>>)
  BY <1>1, <1>2, <1>3, <1>4, <1>5, <1>6, <1>10 DEF BstsServed, Lines
<1>11. CASE /\ at["A"] = "read5" /\ Over("B") /\ BstsFull /\ obj["A"].key = obj["B"].key
            /\ Lines(<<BSTS!M3(BstsText("B"), con["B"].blocks)>>, <<>>)
  BY <1>1, <1>2, <1>3, <1>4, <1>6, <1>11 DEF BstsServed, Lines
<1>12. CASE Over("A") /\ Over("B") /\ Lines(<<>>, <<>>)
  BY <1>1, <1>2, <1>3, <1>12 DEF BstsServed, Lines
<1> QED
  BY Zenon, <1>2, <1>8, <1>9, <1>10, <1>11, <1>12 DEF BstsServed

(* Nobody is left alone.                                                   *)
LEMMA BstsLeft ==
  ASSUME NEW p \in Parties, BstsServed
  PROVE  ~ Left(p)
<1>1. \A w : <<w>> # <<>>
  OBVIOUS
<1> DEFINE w == BSTS!M3(BstsText("B"), con["B"].blocks)
<1>2. \/ at["A"] \notin {"end", "stepG"} /\ at["B"] \notin {"end", "stepG"}
      \/ at["A"] = "read5" /\ Over("B") /\ line["A"] = <<w>>
      \/ Over("A") /\ Over("B")
  BY DEF BstsServed, Lines, Waiting, Unopened
<1> HIDE DEF w
<1> QED
  BY <1>1, <1>2 DEF Left, Over, Other, Parties

LEMMA BstsServes ==
  ASSUME Shapes, MemInv, con \in [Parties -> BSTS!Confs], BstsFits, BstsServed, CodesGood,
         NEW p \in Parties, BstsAnswers(p)
  PROVE  BstsServed' /\ CodesGood'
<1> USE DEF BstsServed, Lines
<1>1. Other("A") = "B" /\ Other("B") = "A" /\ "A" \in Parties /\ "B" \in Parties
  BY DEF Other, Parties
<1>2. \A q \in Parties : con[q].d \in Points
  BY BMQVAssumption DEF BSTS!Confs
<1>3. ASSUME NEW n \in Points, Opening([obj["B"] EXCEPT !.u = n, !.v = n], BSTS!M1(n))
      PROVE  BstsServed' /\ CodesGood'
  <2>1. Unopened
    BY <1>3 DEF Opening, Unopened, Waiting, Over
  <2>2. /\ at'["A"] = at["A"] /\ at'["B"] = "read4" /\ line'["B"] = <<>>
        /\ line'["A"] = <<BSTS!M1(n)>> /\ at["B"] = "step2" /\ code' = code
        /\ \A q \in Parties : q # "B" => at'[q] = at[q]
    BY <1>1, <1>3, <2>1 DEF Opening, Unopened, Shapes
  <2>3. obj'["B"].u = n /\ obj'["B"].v = n
    BY <1>1, <1>3 DEF Opening, Shapes, Fields
  <2>4. CodesGood'
    BY <1>1, <2>2 DEF CodesGood
  <2>5. Waiting' /\ BstsHalf' /\ Lines(<<BSTS!M1(obj["B"].u)>>, <<>>)'
    BY <2>1, <2>2, <2>3 DEF Waiting, Unopened, BstsHalf
  <2> QED
    BY <2>4, <2>5
<1>4. ASSUME at["A"] = "read3", line["A"] # <<>>, NEW n \in Points,
             Turned("A", BSTS!Step3(Head(line["A"]), n), "read5")
      PROVE  BstsServed' /\ CodesGood'
  <2>1. Waiting /\ BstsHalf /\ Lines(<<BSTS!M1(obj["B"].u)>>, <<>>)
    BY <1>4 DEF Unopened, Waiting, Over
  <2> DEFINE r == BSTS!Step3(BSTS!M1(obj["B"].u), n)
             k == BSTS!KeyOf("A", n, obj["B"].u)
             c == BSTS!Factor(BSTS!X(n), BSTS!X(obj["B"].u))
             y == BSTS!Sealed(k, 0, BSTS!Sign(c, n, con["A"].d), con["A"].own)
             w == BSTS!M2(n, y, con["A"].blocks)
  <2>2. Turned("A", r, "read5")
    BY <1>4, <2>1
  <2>3. /\ Returned(r) /\ r.code = "ERR_OK"
        /\ r.st.u = n /\ r.st.v = obj["B"].u /\ r.st.t = c /\ r.st.key = k /\ r.send = <<w>>
    <3>1. obj["B"].u \in Points
      BY <2>1 DEF BstsHalf
    <3> QED
      BY <3>1, BstsOpens3
  <2> HIDE DEF r
  <2>4. line["A"] = <<BSTS!M1(obj["B"].u)>> /\ line[Other("A")] = <<>>
    BY <1>1, <2>1
  <2>5. /\ line'["A"] = <<>> /\ line'["B"] = <<w>>
        /\ at' = [at EXCEPT !["A"] = "read5"] /\ con' = con /\ CodesGood'
        /\ obj'["B"] = obj["B"] /\ obj'["A"].u = n /\ obj'["A"].v = obj["B"].u
        /\ obj'["A"].t = c /\ obj'["A"].key = k
    <3> HIDE DEF k, c, w
    <3> QED
      BY <1>1, <2>2, <2>3, <2>4, TurnedWell
  <2>6. at'["A"] = "read5" /\ at'["B"] = "read4"
    BY <1>1, <2>1, <2>5 DEF Shapes, Waiting
  <2>7. BstsFactor' = c
    BY <2>5 DEF BstsFactor
  <2>8. BstsHalf' /\ BstsFull'
    BY <2>1, <2>5, <2>7 DEF BstsHalf, BstsFull
  <2>9. BstsText("A")' = y
    BY <2>5, <2>7 DEF BstsText
  <2>10. BSTS!KeyOf("A", obj["A"].u, obj["B"].u)' = k
    BY <2>5 DEF BSTS!KeyOf
  <2> HIDE DEF k, c, y
  <2> QED
    BY <2>5, <2>6, <2>8, <2>9, <2>10
<1>5. ASSUME at["B"] = "read4", line["B"] # <<>>,
             Turned("B", BSTS!Step4(Head(line["B"])), "stepG")
      PROVE  BstsServed' /\ CodesGood'
  <2>1. /\ at["A"] = "read5" /\ BstsHalf /\ BstsFull
        /\ obj["A"].key = BSTS!KeyOf("A", obj["A"].u, obj["B"].u)
        /\ Lines(<<>>, <<BSTS!M2(obj["A"].u, BstsText("A"), con["A"].blocks)>>)
    BY <1>5 DEF Unopened, Waiting, Over
  <2> DEFINE m == BSTS!M2(obj["A"].u, BstsText("A"), con["A"].blocks)
             r == BSTS!Step4(m)
             y == BSTS!Sealed(obj["A"].key, 1, BSTS!Sign(BstsFactor, obj["B"].u, con["B"].d),
                              con["B"].own)
             w == BSTS!M3(y, con["B"].blocks)
  <2>2. Turned("B", r, "stepG")
    BY <1>5, <2>1
  <2>3. /\ Returned(r) /\ r.code = "ERR_OK" /\ r.send = <<w>>
        /\ r.st.u = obj["B"].u /\ r.st.v = obj["B"].v /\ r.st.key = obj["A"].key
    BY <1>2, <2>1, BstsOpens4 DEF BstsHalf
  <2>4. line["B"] = <<m>> /\ line[Other("B")] = <<>>
    BY <1>1, <2>1
  <2> HIDE DEF r, m
  <2>5. /\ line'["B"] = <<>> /\ line'["A"] = <<w>>
        /\ at' = [at EXCEPT !["B"] = "stepG"] /\ con' = con /\ CodesGood'
        /\ obj'["A"] = obj["A"] /\ obj'["B"].u = obj["B"].u /\ obj'["B"].v = obj["B"].v
        /\ obj'["B"].key = obj["A"].key
    <3> HIDE DEF w
    <3> QED
      BY <1>1, <2>2, <2>3, <2>4, TurnedWell
  <2>6. at'["A"] = "read5" /\ Over("B")'
    BY <1>1, <2>1, <2>5 DEF Shapes, Over
  <2>7. BstsFactor' = BstsFactor
    BY <2>5 DEF BstsFactor
  <2>8. BstsFull'
    BY <2>1, <2>5, <2>7 DEF BstsFull
  <2>9. BstsText("B")' = y
    BY <2>5, <2>7 DEF BstsText
  <2> HIDE DEF y
  <2> QED
    BY <2>5, <2>6, <2>8, <2>9
<1>6. ASSUME at["A"] = "read5", line["A"] # <<>>,
             Turned("A", BSTS!Step5(Head(line["A"])), "stepG")
      PROVE  BstsServed' /\ CodesGood'
  <2>1. /\ Over("B") /\ BstsFull /\ obj["A"].key = obj["B"].key
        /\ Lines(<<BSTS!M3(BstsText("B"), con["B"].blocks)>>, <<>>)
    BY <1>6 DEF Unopened, Waiting, Over
  <2> DEFINE m == BSTS!M3(BstsText("B"), con["B"].blocks)
             r == BSTS!Step5(m)
  <2>2. Turned("A", r, "stepG")
    BY <1>6, <2>1
  <2>3. Returned(r) /\ r.code = "ERR_OK" /\ r.send = <<>>
    BY <1>2, <2>1, BstsOpens5
  <2>4. line["A"] = <<m>> /\ line[Other("A")] = <<>>
    BY <1>1, <2>1
  <2> HIDE DEF r, m
  <2>5. /\ line'["A"] = <<>> /\ line'["B"] = <<>>
        /\ at' = [at EXCEPT !["A"] = "stepG"] /\ con' = con /\ CodesGood'
    BY <1>1, <2>2, <2>3, <2>4, TurnedWell
  <2>6. Over("A")' /\ Over("B")'
    BY <1>1, <2>1, <2>5 DEF Shapes, Over
  <2> QED
    BY <2>5, <2>6
<1> QED
  BY Zenon, <1>3, <1>4, <1>5, <1>6 DEF BstsAnswers
-----------------------------------------------------------------------------
(* BPACE: the points that fit, over one W.                                 *)
BpaceW(r) == <<r, obj["B"].r>>
BpaceFirst == BPACE!M1(BPACE!Encr(con["B"].pwd, obj["B"].r))
BpaceSecond(r) == BPACE!M2(BPACE!Encr(con["A"].pwd, r), obj["A"].v)
BpaceThird == BPACE!M3(obj["B"].v, BPACE!TagIf(con["B"].kcb, "Tb", obj["B"].key))
BpaceFourth == BPACE!M4(BPACE!Tag("Ta", obj["A"].key))
BpaceHalf == obj["B"].r \in BPACE!Rs
BpacePoint(r) == obj["A"].u \in Points /\ obj["A"].v = BPACE!Pt(BpaceW(r), obj["A"].u)
BpaceKey == BPACE!KeyOf("B", BPACE!Mul(obj["B"].u, obj["A"].v), obj["A"].v, obj["B"].v)
BpaceFull(r) ==
  /\ BpacePoint(r) /\ obj["B"].u \in Points
  /\ obj["B"].v = BPACE!Pt(BpaceW(r), obj["B"].u) /\ obj["B"].key = BpaceKey

BpaceServed ==
  \/ Unopened
  \/ Waiting /\ BpaceHalf /\ Lines(<<BpaceFirst>>, <<>>)
  \/ /\ at["A"] = "read5" /\ at["B"] = "read4" /\ BpaceHalf
     /\ \E r \in BPACE!Rs : BpacePoint(r) /\ Lines(<<>>, <<BpaceSecond(r)>>)
  \/ /\ at["A"] = "read5" /\ (IF con["B"].kca THEN at["B"] = "read6" ELSE Over("B"))
     /\ (\E r : BpaceFull(r)) /\ Lines(<<BpaceThird>>, <<>>)
  \/ /\ Over("A") /\ at["B"] = "read6" /\ obj["A"].key = obj["B"].key
     /\ Lines(<<>>, <<BpaceFourth>>)
  \/ Over("A") /\ Over("B") /\ obj["A"].key = obj["B"].key /\ Lines(<<>>, <<>>)

(* What the runs do when nothing fails.                                    *)
BpaceAnswers(p) ==
  \/ /\ p = "A" /\ at["A"] = "read3" /\ line["A"] # <<>>
     /\ \E r \in BPACE!Rs, n \in Points :
          Turned("A", BPACE!Step3(Head(line["A"]), r, n), "read5")
  \/ /\ p = "A" /\ at["A"] = "read5" /\ line["A"] # <<>>
     /\ Turned("A", BPACE!Step5(Head(line["A"])), "stepG")
  \/ /\ p = "B" /\ at["B"] = "read4" /\ line["B"] # <<>>
     /\ \E n \in Points : Turned("B", BPACE!Step4(Head(line["B"]), n),
                                 IF con["B"].kca THEN "read6" ELSE "stepG")
  \/ /\ p = "B" /\ at["B"] = "read6" /\ line["B"] # <<>>
     /\ Turned("B", BPACE!Step6(Head(line["B"])), "stepG")
  \/ /\ p = "B"
     /\ \E r \in BPACE!Rs :
          Opening([obj["B"] EXCEPT !.r = r], BPACE!M1(BPACE!Encr(con["B"].pwd, r)))

LEMMA BpaceSmooth ==
  ASSUME Shapes, NEW p \in Parties, slips = 0, slips' = 0
  PROVE  /\ \A next : BPACE!Start(p, next)
              /\ next = (IF p = "A" THEN "read3" ELSE "step2") => Still(p)
         /\ \A sent : ~ BPACE!WriteFails(p, sent)
         /\ BPACE!Breaks(p, BPACE!Outside, {"blob"}) => Left(p)
         /\ BPACE!StepG(p) => Still(p)
         /\ \A m, r, next : BPACE!Turn(p, m, r, next) => m = Head(line[p])
<1>1. ~ BPACE!Fault
  BY DEF BPACE!Fault
<1>2. ASSUME NEW next, BPACE!Start(p, next), next = (IF p = "A" THEN "read3" ELSE "step2")
      PROVE  Still(p)
  <2>1. Started(p, next)
    BY <1>1, <1>2 DEF BPACE!Start, Started, Parties
  <2> QED
    BY <2>1, StillSteps
<1>3. \A sent : ~ BPACE!WriteFails(p, sent)
  BY <1>1 DEF BPACE!WriteFails
<1>4. ASSUME BPACE!Breaks(p, BPACE!Outside, {"blob"}) PROVE Left(p)
  <2>1. "ERR_FILE" \in BPACE!Outside(at[p]) /\ line[p] = <<>> /\ at[BPACE!Other(p)] = "end"
    BY Zenon, <1>1, <1>4 DEF BPACE!Breaks
  <2>2. at[p] \in {"read3", "read4", "read5", "read6"}
    BY <2>1, BpaceOutside
  <2> QED
    BY <2>1, <2>2 DEF Left, BPACE!Other, Other
<1>5. ASSUME BPACE!StepG(p) PROVE Still(p)
  <2>1. Ended(p)
    BY <1>5 DEF BPACE!StepG, BPACE!Return, Ended
  <2> QED
    BY <2>1, StillSteps
<1>6. ASSUME NEW m, NEW r, NEW next, BPACE!Turn(p, m, r, next)
      PROVE  m = Head(line[p])
  BY <1>6 DEF BPACE!Turn
<1> QED
  BY <1>2, <1>3, <1>4, <1>5, <1>6

(* A turn in which the line has spoiled nothing.                           *)
LEMMA BpaceHears ==
  ASSUME Shapes, NEW p \in Parties, slips = 0, slips' = 0, NEW l, BPACE!Hears(p, l),
         l \in {"read3", "read4", "read5", "read6"}, con' = con,
         NEW m, NEW r, NEW next, next \notin {"start", "end"}, BPACE!Turn(p, m, r, next)
  PROVE  m = Head(line[p]) /\ Turned(p, r, next) /\ at[p] = l /\ line[p] # <<>>
<1>1. at[p] = l /\ line[p] # <<>>
  BY DEF BPACE!Hears
<1>2. m = Head(line[p])
  BY Zenon, BpaceSmooth
<1>3. Turned(p, r, next)
  BY <1>1, BpaceTurn
<1> QED
  BY <1>1, <1>2, <1>3

LEMMA BpacePlain ==
  ASSUME Shapes, slips = 0, slips' = 0, NEW p \in Parties,
         (p = "A" /\ BPACE!RunA) \/ (p = "B" /\ BPACE!RunB)
  PROVE  Still(p) \/ Left(p) \/ BpaceAnswers(p) \/ BPACE!ShortRead
<1>1. /\ "A" \in Parties /\ "B" \in Parties /\ "B" # "A" /\ Points = BPACE!Points
  BY DEF Parties, Points, BPACE!Points
<1>2. ASSUME p = "A", BPACE!RunA
      PROVE  Still(p) \/ Left(p) \/ BpaceAnswers(p) \/ BPACE!ShortRead
  <2>1. CASE \/ BPACE!Start("A", "read3") \/ BPACE!StepG("A")
             \/ BPACE!WriteFails("A", IF con["A"].kca THEN {"read5", "stepG"} ELSE {"read5"})
             \/ BPACE!Breaks("A", BPACE!Outside, {"blob"})
    BY Zenon, <1>1, <1>2, <2>1, BpaceSmooth
  <2>2. CASE /\ BPACE!Hears("A", "read3")
             /\ \E m \in BPACE!Heard("A", BPACE!Spoil), r \in BPACE!Rs, n \in BPACE!Points :
                  BPACE!Turn("A", m, BPACE!Step3(m, r, n), "read5")
             /\ UNCHANGED con
    <3>1. PICK m, r, n : /\ r \in BPACE!Rs /\ n \in BPACE!Points
                         /\ BPACE!Turn("A", m, BPACE!Step3(m, r, n), "read5")
      BY Zenon, <2>2
    <3> DEFINE s == BPACE!Step3(m, r, n)
    <3>2. BPACE!Turn("A", m, s, "read5") /\ con' = con
      BY Zenon, <2>2, <3>1
    <3> HIDE DEF s
    <3>3. "read3" \in {"read3", "read4", "read5", "read6"} /\ "read5" \notin {"start", "end"}
      OBVIOUS
    <3>4. m = Head(line["A"]) /\ Turned("A", s, "read5") /\ at["A"] = "read3" /\ line["A"] # <<>>
      BY Zenon, <1>1, <2>2, <3>2, <3>3, BpaceHears
    <3>5. Turned("A", BPACE!Step3(Head(line["A"]), r, n), "read5") /\ n \in Points
      BY Zenon, <1>1, <3>1, <3>4 DEF s
    <3> QED
      BY Zenon, <1>2, <3>1, <3>4, <3>5 DEF BpaceAnswers
  <2>3. CASE /\ BPACE!Hears("A", "read5")
             /\ \E m \in BPACE!Heard("A", BPACE!Spoil) : BPACE!Turn("A", m, BPACE!Step5(m), "stepG")
             /\ UNCHANGED con
    <3>1. PICK m : BPACE!Turn("A", m, BPACE!Step5(m), "stepG")
      BY Zenon, <2>3
    <3> DEFINE s == BPACE!Step5(m)
    <3>2. BPACE!Turn("A", m, s, "stepG") /\ con' = con
      BY Zenon, <2>3, <3>1
    <3> HIDE DEF s
    <3>3. "read5" \in {"read3", "read4", "read5", "read6"} /\ "stepG" \notin {"start", "end"}
      OBVIOUS
    <3>4. m = Head(line["A"]) /\ Turned("A", s, "stepG") /\ at["A"] = "read5" /\ line["A"] # <<>>
      BY Zenon, <1>1, <2>3, <3>2, <3>3, BpaceHears
    <3>5. Turned("A", BPACE!Step5(Head(line["A"])), "stepG")
      BY Zenon, <3>4 DEF s
    <3> QED
      BY Zenon, <1>2, <3>4, <3>5 DEF BpaceAnswers
  <2> QED
    BY Zenon, <1>2, <2>1, <2>2, <2>3 DEF BPACE!RunA
<1>3. ASSUME p = "B", BPACE!RunB PROVE Still(p) \/ Left(p) \/ BpaceAnswers(p)
  <2>1. CASE \/ BPACE!Start("B", "step2") \/ BPACE!StepG("B")
             \/ BPACE!WriteFails("B", {"read4", IF con["B"].kca THEN "read6" ELSE "stepG"})
             \/ BPACE!Breaks("B", BPACE!Outside, {"blob"})
    BY Zenon, <1>1, <1>3, <2>1, BpaceSmooth
  <2>2. CASE /\ at["B"] = "step2"
             /\ \E r \in BPACE!Rs : /\ obj' = [obj EXCEPT !["B"] = BPACE!Step2(r).st]
                                    /\ line' = [line EXCEPT !["A"] = BPACE!Step2(r).send]
             /\ at' = [at EXCEPT !["B"] = "read4"]
             /\ UNCHANGED <<con, code, blobs, slips>>
    <3>1. PICK r \in BPACE!Rs : /\ obj' = [obj EXCEPT !["B"] = BPACE!Step2(r).st]
                                /\ line' = [line EXCEPT !["A"] = BPACE!Step2(r).send]
      BY Zenon, <2>2
    <3> DEFINE m == BPACE!M1(BPACE!Encr(con["B"].pwd, r))
    <3>2. BPACE!Step2(r).st = [obj["B"] EXCEPT !.r = r] /\ BPACE!Step2(r).send = <<m>>
      BY DEF BPACE!Step2, BPACE!Done
    <3> HIDE DEF m
    <3>3. Opening([obj["B"] EXCEPT !.r = r], m)
      BY <2>2, <3>1, <3>2 DEF Opening
    <3> QED
      BY Zenon, <1>3, <3>1, <3>3 DEF BpaceAnswers, m
  <2>3. CASE /\ BPACE!Hears("B", "read4")
             /\ \E m \in BPACE!Heard("B", BPACE!Spoil), n \in BPACE!Points :
                  BPACE!Turn("B", m, BPACE!Step4(m, n), IF con["B"].kca THEN "read6" ELSE "stepG")
             /\ UNCHANGED con
    <3> DEFINE next == IF con["B"].kca THEN "read6" ELSE "stepG"
    <3>1. PICK m, n : n \in BPACE!Points /\ BPACE!Turn("B", m, BPACE!Step4(m, n), next)
      BY Zenon, <2>3
    <3> DEFINE s == BPACE!Step4(m, n)
    <3>2. BPACE!Turn("B", m, s, next) /\ con' = con
      BY Zenon, <2>3, <3>1
    <3>3. "read4" \in {"read3", "read4", "read5", "read6"} /\ next \notin {"start", "end"}
      OBVIOUS
    <3> HIDE DEF s, next
    <3>4. m = Head(line["B"]) /\ Turned("B", s, next) /\ at["B"] = "read4" /\ line["B"] # <<>>
      BY Zenon, <1>1, <2>3, <3>2, <3>3, BpaceHears
    <3>5. Turned("B", BPACE!Step4(Head(line["B"]), n), next) /\ n \in Points
      BY Zenon, <1>1, <3>1, <3>4 DEF s
    <3> QED
      BY Zenon, <1>3, <3>4, <3>5 DEF BpaceAnswers, next
  <2>4. CASE /\ BPACE!Hears("B", "read6")
             /\ \E m \in BPACE!Heard("B", BPACE!Spoil) : BPACE!Turn("B", m, BPACE!Step6(m), "stepG")
             /\ UNCHANGED con
    <3>1. PICK m : BPACE!Turn("B", m, BPACE!Step6(m), "stepG")
      BY Zenon, <2>4
    <3> DEFINE s == BPACE!Step6(m)
    <3>2. BPACE!Turn("B", m, s, "stepG") /\ con' = con
      BY Zenon, <2>4, <3>1
    <3> HIDE DEF s
    <3>3. "read6" \in {"read3", "read4", "read5", "read6"} /\ "stepG" \notin {"start", "end"}
      OBVIOUS
    <3>4. m = Head(line["B"]) /\ Turned("B", s, "stepG") /\ at["B"] = "read6" /\ line["B"] # <<>>
      BY Zenon, <1>1, <2>4, <3>2, <3>3, BpaceHears
    <3>5. Turned("B", BPACE!Step6(Head(line["B"])), "stepG")
      BY Zenon, <3>4 DEF s
    <3> QED
      BY Zenon, <1>3, <3>4, <3>5 DEF BpaceAnswers
  <2> QED
    BY Zenon, <1>3, <2>1, <2>2, <2>3, <2>4 DEF BPACE!RunB
<1> QED
  BY Zenon, <1>2, <1>3

(* Parties with one kcb send and read the same M3.                         *)
LEMMA BpaceLong ==
  ASSUME BpaceServed, con["A"] = con["B"]
  PROVE  ~ BPACE!ShortRead
<1> SUFFICES ASSUME at["A"] = "read5", line["A"] # <<>>, con["B"].kcb,
                    Head(line["A"]).T = BPACE!NoTag
             PROVE  FALSE
  BY DEF BPACE!ShortRead, BPACE!Short
<1>1. line["A"] = <<BpaceThird>>
  BY DEF BpaceServed, Unopened, Waiting, Over, Lines
<1>2. BpaceThird.T = BPACE!Tag("Tb", obj["B"].key)
  BY DEF BpaceThird, BPACE!M3, BPACE!TagIf
<1>3. BPACE!Tag("Tb", obj["B"].key) = BPACE!NoTag
  BY <1>1, <1>2
<1>4. "kind" \in DOMAIN BPACE!Tag("Tb", obj["B"].key) /\ "kind" \notin DOMAIN BPACE!NoTag
  BY DEF BPACE!Tag, BPACE!NoTag
<1> QED
  BY <1>3, <1>4
-----------------------------------------------------------------------------
(* What one party has encrypted the other one decrypts.                    *)
LEMMA Decrypted ==
  ASSUME NR \in Nat, NEW r \in BPACE!Rs, NEW k \in BPACE!Rs
  PROVE  BPACE!Decr(k, BPACE!Encr(k, r)) = r
<1>1. r \in Nat /\ k \in Nat /\ r < NR /\ k < NR
  BY DEF BPACE!Rs
<1>2. (r + k) % NR = IF r + k < NR THEN r + k ELSE r + k - NR
  <2>1. CASE r + k < NR
    BY <1>1, <2>1, SMTT(30)
  <2>2. CASE r + k >= NR
    BY <1>1, <2>2, SMTT(30)
  <2> QED
    BY <1>1, <2>1, <2>2
<1>3. (((r + k) % NR) - k) % NR = r
  <2>1. CASE r + k < NR
    BY <1>1, <1>2, <2>1, SMTT(30)
  <2>2. CASE r + k >= NR
    <3>1. ((r + k) % NR) - k = r - NR
      BY <1>1, <1>2, <2>2
    <3>2. (r - NR) % NR = r
      BY <1>1, SMTT(30)
    <3> QED
      BY <3>1, <3>2
  <2> QED
    BY <1>1, <2>1, <2>2
<1> QED
  BY <1>3 DEF BPACE!Encr, BPACE!Decr

(* The same point K on both sides.                                         *)
LEMMA SamePoint ==
  ASSUME NEW W, NEW a \in Points, NEW b \in Points
  PROVE  /\ BPACE!Mul(a, BPACE!Pt(W, b)) = BPACE!Mul(b, BPACE!Pt(W, a))
         /\ BPACE!Pt(W, a).k = a /\ a # 0
<1>1. a % Q = a /\ b % Q = b /\ a * b = b * a /\ a # 0
  BY SameProduct
<1> QED
  BY <1>1 DEF BPACE!Mul, BPACE!Pt

LEMMA BpaceGives3 ==
  ASSUME Shapes, NR \in Nat, con \in [Parties -> BPACE!Confs], con["A"] = con["B"],
         BpaceHalf, NEW x \in BPACE!Rs, NEW n \in Points,
         NEW r, r = BPACE!Step3(BpaceFirst, x, n)
  PROVE  LET V == BPACE!Pt(BpaceW(x), n)
         IN  /\ Returned(r) /\ r.code = "ERR_OK" /\ r.st.u = n /\ r.st.v = V
             /\ r.send = <<BPACE!M2(BPACE!Encr(con["A"].pwd, x), V)>>
<1> DEFINE V == BPACE!Pt(BpaceW(x), n)
           w == BPACE!M2(BPACE!Encr(con["A"].pwd, x), V)
           s == [obj["A"] EXCEPT !.u = n, !.v = V]
           d == BPACE!Decr(con["A"].pwd, BpaceFirst.y)
<1>1. DOMAIN obj["A"] = Fields
  BY DEF Shapes, Parties
<1>2. con["A"].pwd \in BPACE!Rs
  BY DEF BPACE!Confs, Parties
<1>3. BpaceFirst.y = BPACE!Encr(con["A"].pwd, obj["B"].r)
  BY DEF BpaceFirst, BPACE!M1
<1>4. d = obj["B"].r
  BY <1>2, <1>3, Decrypted DEF BpaceHalf
<1>5. r = BPACE!Done([obj["A"] EXCEPT !.u = n, !.v = BPACE!Pt(<<x, d>>, n)],
            <<BPACE!M2(BPACE!Encr(con["A"].pwd, x), BPACE!Pt(<<x, d>>, n))>>)
  BY DEF BPACE!Step3
<1> HIDE DEF d
<1>6. r = BPACE!Done(s, <<w>>)
  BY <1>4, <1>5 DEF BpaceW
<1> HIDE DEF w, V
<1>7. DOMAIN s = Fields /\ s.u = n /\ s.v = V
  BY <1>1 DEF Fields
<1> HIDE DEF s
<1>8. Returned(r) /\ r.code = "ERR_OK" /\ r.st.u = n /\ r.st.v = V /\ r.send = <<w>>
  BY <1>6, <1>7 DEF BPACE!Done, Returned
<1> QED
  BY <1>8 DEF w, V

LEMMA BpaceGives4 ==
  ASSUME Shapes, NR \in Nat, con \in [Parties -> BPACE!Confs], con["A"] = con["B"],
         NEW x \in BPACE!Rs, BpacePoint(x), NEW n \in Points,
         NEW r, r = BPACE!Step4(BpaceSecond(x), n)
  PROVE  LET V == BPACE!Pt(BpaceW(x), n)
             agreed == BPACE!KeyOf("B", BPACE!Mul(n, obj["A"].v), obj["A"].v, V)
         IN  /\ Returned(r) /\ r.code = "ERR_OK"
             /\ r.st.u = n /\ r.st.v = V /\ r.st.key = agreed /\ r.st.r = obj["B"].r
             /\ r.send = <<BPACE!M3(V, BPACE!TagIf(con["B"].kcb, "Tb", agreed))>>
<1> DEFINE V == BPACE!Pt(BpaceW(x), n)
           agreed == BPACE!KeyOf("B", BPACE!Mul(n, obj["A"].v), obj["A"].v, V)
           w == BPACE!M3(V, BPACE!TagIf(con["B"].kcb, "Tb", agreed))
           m == BpaceSecond(x)
           d == BPACE!Decr(con["B"].pwd, m.y)
           z == BPACE!Pt(<<d, obj["B"].r>>, n)
           k == BPACE!KeyOf("B", BPACE!Mul(n, m.V), m.V, z)
           s == [obj["B"] EXCEPT !.u = n, !.v = V, !.key = agreed]
<1>1. DOMAIN obj["B"] = Fields
  BY DEF Shapes, Parties
<1>2. con["A"].pwd \in BPACE!Rs /\ con["B"].pwd = con["A"].pwd
  BY DEF BPACE!Confs, Parties
<1>3. m.y = BPACE!Encr(con["A"].pwd, x) /\ m.V = obj["A"].v
  BY DEF BpaceSecond, BPACE!M2
<1>4. d = x
  BY <1>2, <1>3, Decrypted
<1>5. m.V.k # 0
  BY <1>3, SamePoint DEF BpacePoint
<1>6. r = IF m.V.k = 0 THEN BPACE!Error("ERR_BAD_POINT", obj["B"])
          ELSE BPACE!Done([obj["B"] EXCEPT !.u = n, !.v = z, !.key = k],
                          <<BPACE!M3(z, BPACE!TagIf(con["B"].kcb, "Tb", k))>>)
  BY DEF BPACE!Step4
<1> HIDE DEF d, m
<1>7. z = V
  BY <1>4 DEF BpaceW
<1> HIDE DEF z
<1>8. k = agreed
  BY <1>3, <1>7
<1> HIDE DEF V, k
<1>9. r = BPACE!Done(s, <<w>>)
  BY <1>5, <1>6, <1>7, <1>8
<1> HIDE DEF w, agreed
<1>10. DOMAIN s = Fields /\ s.u = n /\ s.v = V /\ s.key = agreed /\ s.r = obj["B"].r
  BY <1>1 DEF Fields
<1> HIDE DEF s
<1>11. Returned(r) /\ r.code = "ERR_OK" /\ r.st.u = n /\ r.st.v = V /\ r.st.key = agreed
       /\ r.st.r = obj["B"].r /\ r.send = <<w>>
  BY <1>9, <1>10 DEF BPACE!Done, Returned
<1> QED
  BY <1>11 DEF w, agreed, V

LEMMA BpaceGives5 ==
  ASSUME Shapes, con["A"] = con["B"], NEW x, BpaceFull(x),
         NEW r, r = BPACE!Step5(BpaceThird)
  PROVE  /\ Returned(r) /\ r.code = "ERR_OK" /\ r.st.key = obj["B"].key
         /\ r.send = IF con["A"].kca THEN <<BPACE!M4(BPACE!Tag("Ta", obj["B"].key))>> ELSE <<>>
<1> DEFINE s == obj["A"]
           m == BpaceThird
           agreed == BPACE!KeyOf("A", BPACE!Mul(s.u, m.V), s.v, m.V)
           k == [s EXCEPT !.key = agreed]
           w == BPACE!M4(BPACE!Tag("Ta", agreed))
<1>1. DOMAIN s = Fields
  BY DEF Shapes, Parties
<1>2. m.V = obj["B"].v /\ m.T = BPACE!TagIf(con["B"].kcb, "Tb", obj["B"].key)
  BY DEF BpaceThird, BPACE!M3
<1>3. BPACE!Mul(s.u, obj["B"].v) = BPACE!Mul(obj["B"].u, s.v) /\ m.V.k # 0
  BY <1>2, SamePoint DEF BpaceFull, BpacePoint
<1>4. agreed = obj["B"].key
  BY <1>2, <1>3 DEF BpaceFull, BpaceKey, BPACE!KeyOf
<1>5. con["A"].kcb => m.T = BPACE!Tag("Tb", agreed)
  BY <1>2, <1>4 DEF BPACE!TagIf
<1>6. r = CASE m.V.k = 0 -> BPACE!Error("ERR_BAD_POINT", s)
            [] m.V.k # 0 /\ con["A"].kcb /\ m.T # BPACE!Tag("Tb", agreed) -> BPACE!Error("ERR_AUTH", k)
            [] OTHER -> BPACE!Done(k, IF con["A"].kca THEN <<w>> ELSE <<>>)
  BY DEF BPACE!Step5
<1> HIDE DEF agreed, m, s
<1>7. r = BPACE!Done(k, IF con["A"].kca THEN <<w>> ELSE <<>>)
  BY <1>3, <1>5, <1>6
<1>8. DOMAIN k = Fields /\ k.key = agreed
  BY <1>1 DEF Fields
<1> HIDE DEF k, w
<1>9. /\ Returned(r) /\ r.code = "ERR_OK" /\ r.st.key = agreed
      /\ r.send = IF con["A"].kca THEN <<w>> ELSE <<>>
  BY <1>7, <1>8 DEF BPACE!Done, Returned
<1> QED
  BY <1>4, <1>9 DEF w

LEMMA BpaceGives6 ==
  ASSUME Shapes, obj["A"].key = obj["B"].key, NEW r, r = BPACE!Step6(BpaceFourth)
  PROVE  Returned(r) /\ r.code = "ERR_OK" /\ r.st.key = obj["B"].key /\ r.send = <<>>
<1>1. DOMAIN obj["B"] = Fields
  BY DEF Shapes, Parties
<1>2. BpaceFourth.T = BPACE!Tag("Ta", obj["B"].key)
  BY DEF BpaceFourth, BPACE!M4
<1>3. r = BPACE!Done(obj["B"], <<>>)
  BY <1>2 DEF BPACE!Step6
<1> QED
  BY <1>1, <1>3 DEF BPACE!Done, Returned

LEMMA BpaceStill ==
  ASSUME NEW p \in Parties, Still(p), BpaceServed, CodesGood
  PROVE  BpaceServed' /\ CodesGood'
<1>1. "A" \in Parties /\ "B" \in Parties
  BY DEF Parties
<1>2. /\ con' = con /\ line' = line /\ CodesGood'
      /\ \A q \in Parties : obj'[q].u = obj[q].u /\ obj'[q].v = obj[q].v
                            /\ obj'[q].r = obj[q].r /\ obj'[q].key = obj[q].key
  BY DEF Still
<1>3. /\ at["A"] \in {"start", "read3"} => at'["A"] \in {"start", "read3"}
      /\ at["B"] \in {"start", "step2"} => at'["B"] \in {"start", "step2"}
      /\ \A q \in Parties : /\ at[q] \in {"read4", "read5", "read6"} => at'[q] = at[q]
                            /\ Over(q) => Over(q)'
  BY <1>1 DEF Still, Over
<1>4. /\ BpaceFirst' = BpaceFirst /\ BpaceThird' = BpaceThird /\ BpaceFourth' = BpaceFourth
      /\ \A r : BpaceSecond(r)' = BpaceSecond(r)
  BY <1>1, <1>2 DEF BpaceFirst, BpaceSecond, BpaceThird, BpaceFourth
<1>5. BpaceKey' = BpaceKey /\ \A r : BpaceW(r)' = BpaceW(r)
  BY <1>1, <1>2 DEF BpaceKey, BpaceW, BPACE!KeyOf
<1>6. /\ BpaceHalf => BpaceHalf'
      /\ \A r : (BpacePoint(r) => BpacePoint(r)') /\ (BpaceFull(r) => BpaceFull(r)')
  BY <1>1, <1>2, <1>5 DEF BpaceHalf, BpacePoint, BpaceFull
<1>7. \A a, b : Lines(a, b) => Lines(a, b)'
  BY <1>2 DEF Lines
<1>8. (Unopened => Unopened') /\ (Waiting => Waiting')
  BY <1>1, <1>2, <1>3 DEF Unopened, Waiting, Lines
<1>9. CASE Waiting /\ BpaceHalf /\ Lines(<<BpaceFirst>>, <<>>)
  BY <1>2, <1>4, <1>6, <1>8, <1>9 DEF BpaceServed, Lines
<1>10. CASE /\ at["A"] = "read5" /\ at["B"] = "read4" /\ BpaceHalf
            /\ \E r \in BPACE!Rs : BpacePoint(r) /\ Lines(<<>>, <<BpaceSecond(r)>>)
  <2>1. PICK r \in BPACE!Rs : BpacePoint(r) /\ Lines(<<>>, <<BpaceSecond(r)>>)
    BY <1>10
  <2>2. BpacePoint(r)' /\ Lines(<<>>, <<BpaceSecond(r)>>)'
    BY <1>2, <1>4, <1>6, <2>1 DEF Lines
  <2>3. at'["A"] = "read5" /\ at'["B"] = "read4" /\ BpaceHalf'
    BY <1>1, <1>3, <1>6, <1>10
  <2> QED
    BY Zenon, <1>2, <2>2, <2>3 DEF BpaceServed
<1>11. CASE /\ at["A"] = "read5" /\ (IF con["B"].kca THEN at["B"] = "read6" ELSE Over("B"))
            /\ (\E r : BpaceFull(r)) /\ Lines(<<BpaceThird>>, <<>>)
  <2>1. (\E r : BpaceFull(r))' /\ Lines(<<BpaceThird>>, <<>>)'
    BY <1>2, <1>4, <1>6, <1>11 DEF Lines
  <2>2. at'["A"] = "read5" /\ (IF con'["B"].kca THEN at'["B"] = "read6" ELSE Over("B")')
    BY <1>1, <1>2, <1>3, <1>11
  <2> QED
    BY Zenon, <1>2, <2>1, <2>2 DEF BpaceServed
<1>12. CASE /\ Over("A") /\ at["B"] = "read6" /\ obj["A"].key = obj["B"].key
            /\ Lines(<<>>, <<BpaceFourth>>)
  BY <1>1, <1>2, <1>3, <1>4, <1>12 DEF BpaceServed, Lines
<1>13. CASE Over("A") /\ Over("B") /\ obj["A"].key = obj["B"].key /\ Lines(<<>>, <<>>)
  BY <1>1, <1>2, <1>3, <1>13 DEF BpaceServed, Lines
<1>14. CASE Unopened
  BY <1>2, <1>8, <1>14 DEF BpaceServed
<1> QED
  BY Zenon, <1>9, <1>10, <1>11, <1>12, <1>13, <1>14 DEF BpaceServed

LEMMA BpaceLeft ==
  ASSUME NEW p \in Parties, BpaceServed
  PROVE  ~ Left(p)
<1>1. \A w : <<w>> # <<>>
  OBVIOUS
<1>2. \/ at["A"] \notin {"end", "stepG"} /\ at["B"] \notin {"end", "stepG"}
      \/ at["A"] = "read5" /\ line["A"] = <<BpaceThird>>
      \/ at["B"] = "read6" /\ line["B"] = <<BpaceFourth>>
      \/ Over("A") /\ Over("B")
  BY DEF BpaceServed, Lines, Waiting, Unopened
<1> QED
  BY <1>1, <1>2 DEF Left, Over, Other, Parties

LEMMA BpaceServes ==
  ASSUME Shapes, NR \in Nat, con \in [Parties -> BPACE!Confs], con["A"] = con["B"],
         BpaceServed, CodesGood, NEW p \in Parties, BpaceAnswers(p)
  PROVE  BpaceServed' /\ CodesGood'
<1>1. Other("A") = "B" /\ Other("B") = "A" /\ "A" \in Parties /\ "B" \in Parties
  BY DEF Other, Parties
<1>2. ASSUME NEW x \in BPACE!Rs,
             Opening([obj["B"] EXCEPT !.r = x], BPACE!M1(BPACE!Encr(con["B"].pwd, x)))
      PROVE  BpaceServed' /\ CodesGood'
  <2> DEFINE m == BPACE!M1(BPACE!Encr(con["B"].pwd, x))
  <2>1. Unopened
    BY <1>2 DEF BpaceServed, Opening, Unopened, Waiting, Over
  <2>2. Opening([obj["B"] EXCEPT !.r = x], m)
    BY <1>2
  <2> HIDE DEF m
  <2>3. /\ at'["A"] = at["A"] /\ at'["B"] = "read4" /\ line'["B"] = <<>>
        /\ line'["A"] = <<m>> /\ at["B"] = "step2" /\ code' = code /\ con' = con
        /\ \A q \in Parties : q # "B" => at'[q] = at[q]
    BY <1>1, <2>1, <2>2 DEF Opening, Unopened, Shapes, Lines
  <2>4. obj'["B"].r = x
    BY <1>1, <2>2 DEF Opening, Shapes, Fields
  <2>5. CodesGood'
    BY <1>1, <2>3 DEF CodesGood
  <2>6. BpaceFirst' = m
    BY <2>3, <2>4 DEF BpaceFirst, m
  <2>7. Waiting' /\ BpaceHalf' /\ Lines(<<BpaceFirst>>, <<>>)'
    BY <2>1, <2>3, <2>4, <2>6 DEF Waiting, Unopened, BpaceHalf, Lines
  <2> QED
    BY Zenon, <2>5, <2>7 DEF BpaceServed
<1>3. ASSUME at["A"] = "read3", line["A"] # <<>>, NEW x \in BPACE!Rs, NEW n \in Points,
             Turned("A", BPACE!Step3(Head(line["A"]), x, n), "read5")
      PROVE  BpaceServed' /\ CodesGood'
  <2>1. Waiting /\ BpaceHalf /\ Lines(<<BpaceFirst>>, <<>>)
    BY <1>3 DEF BpaceServed, Unopened, Waiting, Over, Lines
  <2> DEFINE r == BPACE!Step3(BpaceFirst, x, n)
             V == BPACE!Pt(BpaceW(x), n)
             w == BPACE!M2(BPACE!Encr(con["A"].pwd, x), V)
  <2>2. Turned("A", r, "read5")
    BY <1>3, <2>1 DEF Lines
  <2>3. /\ Returned(r) /\ r.code = "ERR_OK" /\ r.st.u = n /\ r.st.v = V /\ r.send = <<w>>
    BY <2>1, BpaceGives3
  <2>4. line["A"] = <<BpaceFirst>> /\ line[Other("A")] = <<>>
    BY <1>1, <2>1 DEF Lines
  <2> HIDE DEF r
  <2>5. /\ line'["A"] = <<>> /\ line'["B"] = <<w>>
        /\ at' = [at EXCEPT !["A"] = "read5"] /\ con' = con /\ CodesGood'
        /\ obj'["B"] = obj["B"] /\ obj'["A"].u = n /\ obj'["A"].v = V
    <3> HIDE DEF V, w
    <3> QED
      BY <1>1, <2>2, <2>3, <2>4, TurnedWell
  <2>6. at'["A"] = "read5" /\ at'["B"] = "read4"
    BY <1>1, <2>1, <2>5 DEF Shapes, Waiting
  <2>7. BpaceHalf' /\ BpacePoint(x)' /\ BpaceSecond(x)' = w
    BY <2>1, <2>5 DEF BpaceHalf, BpacePoint, BpaceW, BpaceSecond
  <2> HIDE DEF V, w
  <2>8. BpacePoint(x)' /\ Lines(<<>>, <<BpaceSecond(x)>>)'
    BY <2>5, <2>7 DEF Lines
  <2> QED
    BY Zenon, <2>5, <2>6, <2>7, <2>8 DEF BpaceServed
<1>4. ASSUME at["B"] = "read4", line["B"] # <<>>, NEW n \in Points,
             Turned("B", BPACE!Step4(Head(line["B"]), n),
                    IF con["B"].kca THEN "read6" ELSE "stepG")
      PROVE  BpaceServed' /\ CodesGood'
  <2>1. /\ at["A"] = "read5" /\ BpaceHalf
        /\ \E x \in BPACE!Rs : BpacePoint(x) /\ Lines(<<>>, <<BpaceSecond(x)>>)
    BY <1>4 DEF BpaceServed, Unopened, Waiting, Over, Lines
  <2>2. PICK x \in BPACE!Rs : BpacePoint(x) /\ Lines(<<>>, <<BpaceSecond(x)>>)
    BY <2>1
  <2> DEFINE next == IF con["B"].kca THEN "read6" ELSE "stepG"
             r == BPACE!Step4(BpaceSecond(x), n)
             V == BPACE!Pt(BpaceW(x), n)
             k == BPACE!KeyOf("B", BPACE!Mul(n, obj["A"].v), obj["A"].v, V)
             w == BPACE!M3(V, BPACE!TagIf(con["B"].kcb, "Tb", k))
  <2>3. Turned("B", r, next)
    BY <1>4, <2>2 DEF Lines
  <2>4. /\ Returned(r) /\ r.code = "ERR_OK" /\ r.st.u = n /\ r.st.v = V /\ r.st.key = k
        /\ r.st.r = obj["B"].r /\ r.send = <<w>>
    BY <2>2, BpaceGives4
  <2>5. line["B"] = <<BpaceSecond(x)>> /\ line[Other("B")] = <<>>
    BY <1>1, <2>2 DEF Lines
  <2> HIDE DEF r
  <2>6. /\ line'["B"] = <<>> /\ line'["A"] = <<w>>
        /\ at' = [at EXCEPT !["B"] = next] /\ con' = con /\ CodesGood'
        /\ obj'["A"] = obj["A"] /\ obj'["B"].u = n /\ obj'["B"].v = V
        /\ obj'["B"].key = k /\ obj'["B"].r = obj["B"].r
    <3> HIDE DEF V, w, k, next
    <3> QED
      BY <1>1, <2>3, <2>4, <2>5, TurnedWell
  <2>7. at'["A"] = "read5" /\ (IF con'["B"].kca THEN at'["B"] = "read6" ELSE Over("B")')
    BY <1>1, <2>1, <2>6 DEF Shapes, Over
  <2>8. BpaceKey' = k /\ BpaceW(x)' = BpaceW(x) /\ BpaceThird' = w
    BY <2>6 DEF BpaceKey, BpaceW, BpaceThird, BPACE!KeyOf
  <2>9. BpaceFull(x)'
    BY <2>2, <2>6, <2>8 DEF BpaceFull, BpacePoint
  <2> HIDE DEF w
  <2>10. Lines(<<BpaceThird>>, <<>>)'
    BY <2>6, <2>8 DEF Lines
  <2>11. (\E y : BpaceFull(y))'
    BY <2>9
  <2> QED
    BY Zenon, <2>6, <2>7, <2>10, <2>11 DEF BpaceServed
<1>5. ASSUME at["A"] = "read5", line["A"] # <<>>,
             Turned("A", BPACE!Step5(Head(line["A"])), "stepG")
      PROVE  BpaceServed' /\ CodesGood'
  <2>1. /\ (IF con["B"].kca THEN at["B"] = "read6" ELSE Over("B"))
        /\ (\E x : BpaceFull(x)) /\ Lines(<<BpaceThird>>, <<>>)
    BY <1>5 DEF BpaceServed, Unopened, Waiting, Over, Lines
  <2>2. PICK x : BpaceFull(x)
    BY <2>1
  <2> DEFINE r == BPACE!Step5(BpaceThird)
             w == BPACE!M4(BPACE!Tag("Ta", obj["B"].key))
             out1 == IF con["A"].kca THEN <<w>> ELSE <<>>
  <2>3. Turned("A", r, "stepG")
    BY <1>5, <2>1 DEF Lines
  <2>4. Returned(r) /\ r.code = "ERR_OK" /\ r.st.key = obj["B"].key /\ r.send = out1
    BY <2>2, BpaceGives5
  <2>5. line["A"] = <<BpaceThird>> /\ line[Other("A")] = <<>>
    BY <1>1, <2>1 DEF Lines
  <2> HIDE DEF r
  <2>6. /\ line'["A"] = <<>> /\ line'["B"] = out1
        /\ at' = [at EXCEPT !["A"] = "stepG"] /\ con' = con /\ CodesGood'
        /\ obj'["B"] = obj["B"] /\ obj'["A"].key = obj["B"].key
    <3> HIDE DEF out1
    <3> QED
      BY <1>1, <2>3, <2>4, <2>5, TurnedWell
  <2>7. Over("A")' /\ at'["B"] = at["B"]
    BY <1>1, <2>6 DEF Shapes, Over
  <2>8. BpaceFourth' = w /\ obj'["A"].key = obj'["B"].key
    BY <2>6 DEF BpaceFourth
  <2> HIDE DEF w
  <2>9. CASE con["B"].kca
    <3>1. at'["B"] = "read6" /\ Lines(<<>>, <<BpaceFourth>>)'
      BY <2>1, <2>6, <2>7, <2>8, <2>9 DEF Lines
    <3> QED
      BY Zenon, <2>6, <2>7, <2>8, <3>1 DEF BpaceServed
  <2>10. CASE ~ con["B"].kca
    <3>1. Over("B")' /\ Lines(<<>>, <<>>)'
      BY <2>1, <2>6, <2>7, <2>10 DEF Lines, Over
    <3> QED
      BY Zenon, <2>6, <2>7, <2>8, <3>1 DEF BpaceServed
  <2> QED
    BY <2>9, <2>10
<1>6. ASSUME at["B"] = "read6", line["B"] # <<>>,
             Turned("B", BPACE!Step6(Head(line["B"])), "stepG")
      PROVE  BpaceServed' /\ CodesGood'
  <2>1. Over("A") /\ obj["A"].key = obj["B"].key /\ Lines(<<>>, <<BpaceFourth>>)
    BY <1>6 DEF BpaceServed, Unopened, Waiting, Over, Lines
  <2> DEFINE r == BPACE!Step6(BpaceFourth)
  <2>2. Turned("B", r, "stepG")
    BY <1>6, <2>1 DEF Lines
  <2>3. Returned(r) /\ r.code = "ERR_OK" /\ r.st.key = obj["B"].key /\ r.send = <<>>
    BY <2>1, BpaceGives6
  <2>4. line["B"] = <<BpaceFourth>> /\ line[Other("B")] = <<>>
    BY <1>1, <2>1 DEF Lines
  <2> HIDE DEF r
  <2>5. /\ line'["B"] = <<>> /\ line'["A"] = <<>>
        /\ at' = [at EXCEPT !["B"] = "stepG"] /\ CodesGood'
        /\ obj'["A"] = obj["A"] /\ obj'["B"].key = obj["B"].key
    BY <1>1, <2>2, <2>3, <2>4, TurnedWell
  <2>6. Over("A")' /\ Over("B")' /\ obj'["A"].key = obj'["B"].key /\ Lines(<<>>, <<>>)'
    BY <1>1, <2>1, <2>5 DEF Shapes, Over, Lines
  <2> QED
    BY Zenon, <2>5, <2>6 DEF BpaceServed
<1> QED
  BY Zenon, <1>2, <1>3, <1>4, <1>5, <1>6 DEF BpaceAnswers
-----------------------------------------------------------------------------
(* BAUTH: the nonces and the texts that fit.                               *)
BauthFirst ==
  BAUTH!M1(obj["B"].u,
           BAUTH!Wrapped(BAUTH!X((obj["B"].u * con["B"].certt) % Q), obj["B"].r))
BauthSecond == BAUTH!M2([of |-> obj["A"].key], obj["A"].r)
BauthText ==
  [key |-> obj["B"].key,
   s |-> BAUTH!Sign(BAUTH!Challenge(obj["B"].u, obj["A"].r), obj["B"].u, con["B"].d),
   cert |-> con["B"].own]
BauthSent ==
  /\ obj["B"].u \in Points /\ obj["A"].v = obj["B"].u
  /\ obj["A"].r \in (IF con["A"].kcb THEN BAUTH!Nonces ELSE {0})

BauthServed ==
  \/ Unopened
  \/ Waiting /\ obj["B"].u \in Points /\ Lines(<<BauthFirst>>, <<>>)
  \/ /\ (IF con["A"].kcb THEN at["A"] = "read5" ELSE Over("A")) /\ at["B"] = "read4"
     /\ BauthSent /\ obj["A"].key = BAUTH!KeyOf("A", obj["B"].r, obj["A"].r)
     /\ Lines(<<>>, <<BauthSecond>>)
  \/ /\ con["A"].kcb /\ at["A"] = "read5" /\ Over("B")
     /\ BauthSent /\ obj["A"].key = obj["B"].key
     /\ Lines(<<BAUTH!M3(BauthText)>>, <<>>)
  \/ Over("A") /\ Over("B") /\ obj["A"].key = obj["B"].key /\ Lines(<<>>, <<>>)

(* What the runs do when nothing fails.                                    *)
BauthAnswers(p) ==
  \/ /\ p = "A" /\ at["A"] = "read3" /\ line["A"] # <<>>
     /\ \E n \in BAUTH!Nonces : Turned("A", BAUTH!TStep3(Head(line["A"]), n),
                                       IF con["A"].kcb THEN "read5" ELSE "stepG")
  \/ /\ p = "A" /\ at["A"] = "read5" /\ line["A"] # <<>>
     /\ Turned("A", BAUTH!TStep5(Head(line["A"])), "stepG")
  \/ /\ p = "B" /\ at["B"] = "read4" /\ line["B"] # <<>>
     /\ Turned("B", BAUTH!CTStep4(Head(line["B"])), "stepG")
  \/ /\ p = "B"
     /\ \E x \in Points, r \in BAUTH!Nonces :
          Opening([obj["B"] EXCEPT !.u = x, !.r = r],
                  BAUTH!M1(x, BAUTH!Wrapped(BAUTH!X((x * con["B"].certt) % Q), r)))

LEMMA BauthSmooth ==
  ASSUME Shapes, NEW p \in Parties, slips = 0, slips' = 0
  PROVE  /\ \A next : BAUTH!Start(p, next)
              /\ next = (IF p = "A" THEN "read3" ELSE "step2") => Still(p)
         /\ BAUTH!Breaks(p, BAUTH!Outside, {"blob"}) => Left(p)
         /\ BAUTH!StepG(p) => Still(p)
         /\ \A m, r, next : BAUTH!Turn(p, m, r, next) => m = Head(line[p])
<1>1. ~ BAUTH!Fault
  BY DEF BAUTH!Fault
<1>2. ASSUME NEW next, BAUTH!Start(p, next), next = (IF p = "A" THEN "read3" ELSE "step2")
      PROVE  Still(p)
  <2>1. Started(p, next)
    BY <1>1, <1>2 DEF BAUTH!Start, Started, Parties
  <2> QED
    BY <2>1, StillSteps
<1>3. ASSUME BAUTH!Breaks(p, BAUTH!Outside, {"blob"}) PROVE Left(p)
  <2>1. "ERR_FILE" \in BAUTH!Outside(at[p]) /\ line[p] = <<>> /\ at[BAUTH!Other(p)] = "end"
    BY Zenon, <1>1, <1>3 DEF BAUTH!Breaks
  <2>2. at[p] \in {"step2", "read3", "read4", "read5"}
    BY <2>1, BauthOutside
  <2>3. "ERR_FILE" \notin BAUTH!Outside("step2")
    BY DEF BAUTH!Outside
  <2> QED
    BY <2>1, <2>2, <2>3 DEF Left, BAUTH!Other, Other
<1>4. ASSUME BAUTH!StepG(p) PROVE Still(p)
  <2>1. Ended(p)
    BY <1>4 DEF BAUTH!StepG, BAUTH!Return, Ended
  <2> QED
    BY <2>1, StillSteps
<1>5. ASSUME NEW m, NEW r, NEW next, BAUTH!Turn(p, m, r, next)
      PROVE  m = Head(line[p])
  BY <1>5 DEF BAUTH!Turn
<1> QED
  BY <1>2, <1>3, <1>4, <1>5

LEMMA BauthHears ==
  ASSUME Shapes, NEW p \in Parties, slips = 0, slips' = 0, NEW l, BAUTH!Hears(p, l),
         l \in {"read3", "read4", "read5"}, con' = con,
         NEW m, NEW r, NEW next, next \notin {"start", "end"}, BAUTH!Turn(p, m, r, next)
  PROVE  m = Head(line[p]) /\ Turned(p, r, next) /\ at[p] = l /\ line[p] # <<>>
<1>1. at[p] = l /\ line[p] # <<>>
  BY DEF BAUTH!Hears
<1>2. m = Head(line[p])
  BY Zenon, BauthSmooth
<1>3. Turned(p, r, next)
  BY <1>1, BauthTurn
<1> QED
  BY <1>1, <1>2, <1>3

LEMMA BauthPlain ==
  ASSUME Shapes, slips = 0, slips' = 0, NEW p \in Parties,
         (p = "A" /\ BAUTH!RunT) \/ (p = "B" /\ BAUTH!RunCT)
  PROVE  Still(p) \/ Left(p) \/ BauthAnswers(p)
<1>1. "A" \in Parties /\ "B" \in Parties /\ "B" # "A" /\ Points = BAUTH!Points
  BY DEF Parties, Points, BAUTH!Points
<1>2. ASSUME p = "A", BAUTH!RunT PROVE Still(p) \/ Left(p) \/ BauthAnswers(p)
  <2>1. CASE \/ BAUTH!Start("A", "read3") \/ BAUTH!StepG("A")
             \/ BAUTH!Breaks("A", BAUTH!Outside, {"blob"})
    BY Zenon, <1>1, <1>2, <2>1, BauthSmooth
  <2>2. CASE /\ BAUTH!Hears("A", "read3")
             /\ \E m \in BAUTH!Heard("A", BAUTH!Spoil), n \in BAUTH!Nonces :
                  BAUTH!Turn("A", m, BAUTH!TStep3(m, n), IF con["A"].kcb THEN "read5" ELSE "stepG")
             /\ UNCHANGED con
    <3> DEFINE next == IF con["A"].kcb THEN "read5" ELSE "stepG"
    <3>1. PICK m, n : n \in BAUTH!Nonces /\ BAUTH!Turn("A", m, BAUTH!TStep3(m, n), next)
      BY Zenon, <2>2
    <3> DEFINE s == BAUTH!TStep3(m, n)
    <3>2. BAUTH!Turn("A", m, s, next) /\ con' = con
      BY Zenon, <2>2, <3>1
    <3>3. "read3" \in {"read3", "read4", "read5"} /\ next \notin {"start", "end"}
      OBVIOUS
    <3> HIDE DEF s, next
    <3>4. m = Head(line["A"]) /\ Turned("A", s, next) /\ at["A"] = "read3" /\ line["A"] # <<>>
      BY Zenon, <1>1, <2>2, <3>2, <3>3, BauthHears
    <3>5. Turned("A", BAUTH!TStep3(Head(line["A"]), n), next)
      BY Zenon, <3>4 DEF s
    <3> QED
      BY Zenon, <1>2, <3>1, <3>4, <3>5 DEF BauthAnswers, next
  <2>3. CASE /\ BAUTH!Hears("A", "read5")
             /\ \E m \in BAUTH!Heard("A", BAUTH!Spoil) : BAUTH!Turn("A", m, BAUTH!TStep5(m), "stepG")
             /\ UNCHANGED con
    <3>1. PICK m : BAUTH!Turn("A", m, BAUTH!TStep5(m), "stepG")
      BY Zenon, <2>3
    <3> DEFINE s == BAUTH!TStep5(m)
    <3>2. BAUTH!Turn("A", m, s, "stepG") /\ con' = con
      BY Zenon, <2>3, <3>1
    <3> HIDE DEF s
    <3>3. "read5" \in {"read3", "read4", "read5"} /\ "stepG" \notin {"start", "end"}
      OBVIOUS
    <3>4. m = Head(line["A"]) /\ Turned("A", s, "stepG") /\ at["A"] = "read5" /\ line["A"] # <<>>
      BY Zenon, <1>1, <2>3, <3>2, <3>3, BauthHears
    <3>5. Turned("A", BAUTH!TStep5(Head(line["A"])), "stepG")
      BY Zenon, <3>4 DEF s
    <3> QED
      BY Zenon, <1>2, <3>4, <3>5 DEF BauthAnswers
  <2> QED
    BY Zenon, <1>2, <2>1, <2>2, <2>3 DEF BAUTH!RunT
<1>3. ASSUME p = "B", BAUTH!RunCT PROVE Still(p) \/ Left(p) \/ BauthAnswers(p)
  <2>1. CASE \/ BAUTH!Start("B", "step2") \/ BAUTH!StepG("B")
             \/ BAUTH!Breaks("B", BAUTH!Outside, {"blob"})
    BY Zenon, <1>1, <1>3, <2>1, BauthSmooth
  <2>2. CASE /\ at["B"] = "step2"
             /\ \E x \in BAUTH!Points, r \in BAUTH!Nonces :
                  /\ obj' = [obj EXCEPT !["B"] = BAUTH!CTStep2(x, r).st]
                  /\ line' = [line EXCEPT !["A"] = BAUTH!CTStep2(x, r).send]
             /\ at' = [at EXCEPT !["B"] = "read4"]
             /\ UNCHANGED <<con, code, blobs, slips>>
    <3>1. PICK x, r : /\ x \in BAUTH!Points /\ r \in BAUTH!Nonces
                      /\ obj' = [obj EXCEPT !["B"] = BAUTH!CTStep2(x, r).st]
                      /\ line' = [line EXCEPT !["A"] = BAUTH!CTStep2(x, r).send]
      BY Zenon, <2>2
    <3> DEFINE m == BAUTH!M1(x, BAUTH!Wrapped(BAUTH!X((x * con["B"].certt) % Q), r))
    <3>2. BAUTH!CTStep2(x, r).st = [obj["B"] EXCEPT !.u = x, !.r = r]
          /\ BAUTH!CTStep2(x, r).send = <<m>>
      BY DEF BAUTH!CTStep2, BAUTH!Done
    <3> HIDE DEF m
    <3>3. Opening([obj["B"] EXCEPT !.u = x, !.r = r], m) /\ x \in Points
      BY <1>1, <2>2, <3>1, <3>2 DEF Opening
    <3> QED
      BY Zenon, <1>3, <3>1, <3>3 DEF BauthAnswers, m
  <2>3. CASE /\ BAUTH!Hears("B", "read4")
             /\ \E m \in BAUTH!Heard("B", BAUTH!Spoil) : BAUTH!Turn("B", m, BAUTH!CTStep4(m), "stepG")
             /\ UNCHANGED con
    <3>1. PICK m : BAUTH!Turn("B", m, BAUTH!CTStep4(m), "stepG")
      BY Zenon, <2>3
    <3> DEFINE s == BAUTH!CTStep4(m)
    <3>2. BAUTH!Turn("B", m, s, "stepG") /\ con' = con
      BY Zenon, <2>3, <3>1
    <3> HIDE DEF s
    <3>3. "read4" \in {"read3", "read4", "read5"} /\ "stepG" \notin {"start", "end"}
      OBVIOUS
    <3>4. m = Head(line["B"]) /\ Turned("B", s, "stepG") /\ at["B"] = "read4" /\ line["B"] # <<>>
      BY Zenon, <1>1, <2>3, <3>2, <3>3, BauthHears
    <3>5. Turned("B", BAUTH!CTStep4(Head(line["B"])), "stepG")
      BY Zenon, <3>4 DEF s
    <3> QED
      BY Zenon, <1>3, <3>4, <3>5 DEF BauthAnswers
  <2> QED
    BY Zenon, <1>3, <2>1, <2>2, <2>3 DEF BAUTH!RunCT
<1> QED
  BY Zenon, <1>2, <1>3
-----------------------------------------------------------------------------
LEMMA BauthGives3 ==
  ASSUME Shapes, BAUTH!Fits, \A p \in Parties : con[p].d \in Points, obj["B"].u \in Points, NEW n,
         NEW r, r = BAUTH!TStep3(BauthFirst, n)
  PROVE  LET rt == IF con["A"].kcb THEN n ELSE 0
             k == BAUTH!KeyOf("A", obj["B"].r, rt)
         IN  /\ Returned(r) /\ r.code = "ERR_OK"
             /\ r.st.v = obj["B"].u /\ r.st.r = rt /\ r.st.key = k
             /\ r.send = <<BAUTH!M2([of |-> k], rt)>>
<1> DEFINE rt == IF con["A"].kcb THEN n ELSE 0
           m == BauthFirst
           v == obj["B"].u
           k == BAUTH!KeyOf("A", obj["B"].r, rt)
           k1 == BAUTH!KeyOf("A", m.z.r, rt)
           w == BAUTH!M2([of |-> k], rt)
           s == [obj["A"] EXCEPT !.v = v, !.r = rt, !.key = k]
           e == BAUTH!X((con["A"].d * m.v) % Q)
<1>1. DOMAIN obj["A"] = Fields
  BY DEF Shapes, Parties
<1>2. con["B"].certt = con["A"].d /\ con["A"].d \in Points
  BY DEF BAUTH!Fits, BAUTH!Parties, Parties
<1>3. v # 0 /\ v * con["A"].d = con["A"].d * v
  BY <1>2, SameProduct
<1>4. m.v = v /\ m.z.r = obj["B"].r /\ m.z.k = BAUTH!X((v * con["B"].certt) % Q)
  BY DEF BauthFirst, BAUTH!M1, BAUTH!Wrapped
<1>5. m.z.k = e
  BY <1>2, <1>3, <1>4
<1>6. r = CASE m.v = 0 -> BAUTH!Error("ERR_BAD_POINT", obj["A"])
            [] m.v # 0 /\ m.z.k # e -> BAUTH!Error("ERR_AUTH", obj["A"])
            [] OTHER -> BAUTH!Done([obj["A"] EXCEPT !.v = m.v, !.r = rt, !.key = k1],
                                   <<BAUTH!M2([of |-> k1], rt)>>)
  BY DEF BAUTH!TStep3
<1>7. k1 = k
  BY <1>4
<1> HIDE DEF m, e, k1, v
<1>8. r = BAUTH!Done(s, <<w>>)
  BY <1>3, <1>4, <1>5, <1>6, <1>7
<1> HIDE DEF k, w, rt
<1>9. DOMAIN s = Fields /\ s.v = v /\ s.r = rt /\ s.key = k
  BY <1>1 DEF Fields
<1> HIDE DEF s
<1>10. Returned(r) /\ r.code = "ERR_OK" /\ r.st.v = v /\ r.st.r = rt /\ r.st.key = k
       /\ r.send = <<w>>
  BY <1>8, <1>9 DEF BAUTH!Done, Returned
<1> QED
  BY <1>10 DEF w, k, rt, v

LEMMA BauthGives4 ==
  ASSUME Shapes, BAUTH!Fits, con["A"].kcb = con["B"].kcb, con["B"].l = 128, BauthSent,
         obj["A"].key = BAUTH!KeyOf("A", obj["B"].r, obj["A"].r),
         NEW r, r = BAUTH!CTStep4(BauthSecond)
  PROVE  LET y == [key |-> obj["A"].key,
                   s |-> BAUTH!Sign(BAUTH!Challenge(obj["B"].u, obj["A"].r), obj["B"].u, con["B"].d),
                   cert |-> con["B"].own]
         IN  /\ Returned(r) /\ r.code = "ERR_OK"
             /\ r.st.u = obj["B"].u /\ r.st.key = obj["A"].key
             /\ r.send = IF con["A"].kcb THEN <<BAUTH!M3(y)>> ELSE <<>>
<1> DEFINE s == obj["B"]
           h == obj["A"].key
           m == BauthSecond
           sig == BAUTH!Sign(BAUTH!Challenge(s.u, obj["A"].r), s.u, con["B"].d)
           y == [key |-> h, s |-> sig, cert |-> con["B"].own]
           k1 == BAUTH!KeyOf("B", s.r, BAUTH!RtRead(m))
           k == [s EXCEPT !.key = h, !.peer = con["B"].certt]
           sent == IF con["A"].kcb THEN <<BAUTH!M3(y)>> ELSE <<>>
<1>1. DOMAIN s = Fields
  BY DEF Shapes, Parties
<1>2. m.T = [of |-> h] /\ m.rt = obj["A"].r
  BY DEF BauthSecond, BAUTH!M2
<1>3. BAUTH!RtRead(m) = obj["A"].r
  <2>1. CASE con["B"].kcb
    BY <1>2, <2>1 DEF BAUTH!RtRead
  <2>2. CASE ~ con["B"].kcb
    BY <1>2, <2>2 DEF BAUTH!RtRead, BauthSent
  <2> QED
    BY <2>1, <2>2
<1>4. k1 = h
  BY <1>3 DEF BAUTH!KeyOf, BAUTH!Fits
<1>5. r = LET k2 == [s EXCEPT !.key = k1, !.peer = con["B"].certt]
              y2 == [key |-> k1, s |-> BAUTH!Sign(BAUTH!Challenge(s.u, m.rt), s.u, con["B"].d),
                     cert |-> con["B"].own]
          IN CASE m.T # [of |-> k1] -> BAUTH!Error("ERR_AUTH", k2)
               [] m.T = [of |-> k1] /\ con["B"].kcb -> BAUTH!Done(k2, <<BAUTH!M3(y2)>>)
               [] OTHER -> BAUTH!Done(k2, <<>>)
  BY DEF BAUTH!CTStep4
<1> HIDE DEF k1
<1>6. r = CASE m.T # [of |-> h] -> BAUTH!Error("ERR_AUTH", k)
            [] m.T = [of |-> h] /\ con["B"].kcb -> BAUTH!Done(k, <<BAUTH!M3(y)>>)
            [] OTHER -> BAUTH!Done(k, <<>>)
  <2> HIDE DEF m, s, h
  <2> QED
    BY <1>2, <1>4, <1>5
<1> HIDE DEF m, y, h, s
<1>7. r = BAUTH!Done(k, sent)
  <2> HIDE DEF k
  <2> QED
    BY <1>2, <1>6
<1>8. DOMAIN k = Fields /\ k.key = h /\ k.u = s.u
  BY <1>1 DEF Fields
<1> HIDE DEF k
<1>9. sent = <<>> \/ \E x : sent = <<x>>
  OBVIOUS
<1> HIDE DEF sent
<1>10. Returned(r) /\ r.code = "ERR_OK" /\ r.st.u = s.u /\ r.st.key = h /\ r.send = sent
  BY <1>7, <1>8, <1>9 DEF BAUTH!Done, Returned
<1> QED
  BY <1>10 DEF sent, y, h, s

LEMMA BauthGives5 ==
  ASSUME Shapes, BAUTH!Fits, \A p \in Parties : con[p].d \in Points, BAUTH!Nonces \subseteq Xs,
         con["A"].kcb, BauthSent, obj["A"].key = obj["B"].key,
         NEW r, r = BAUTH!TStep5(BAUTH!M3(BauthText))
  PROVE  Returned(r) /\ r.code = "ERR_OK" /\ r.st.key = obj["A"].key /\ r.send = <<>>
<1> DEFINE s == obj["A"]
           m == BAUTH!M3(BauthText)
           c == BAUTH!Challenge(s.v, s.r)
           R == BAUTH!Restored(c, m.y.s, m.y.cert)
           e == [s EXCEPT !.peer = m.y.cert]
<1>1. DOMAIN s = Fields
  BY DEF Shapes, Parties
<1>2. s.v = obj["B"].u /\ s.v \in Points /\ s.r \in Xs /\ s.v # 0
  BY SameProduct DEF BauthSent
<1>3. con["B"].own = con["B"].d /\ con["B"].d \in Points
  BY DEF BAUTH!Fits, BAUTH!Parties, Parties
<1>4. c \in Int
  <2>1. BAUTH!X(s.v) \in Xs
    BY <1>2, OnePoint DEF BAUTH!X, Xs, X
  <2>2. BSTS!Factor(BAUTH!X(s.v), s.r) \in Int
    BY <1>2, <2>1, HashedNumber
  <2> QED
    BY <2>2 DEF BAUTH!Challenge, BAUTH!Factor, BSTS!Factor
<1>5. m.y = BauthText /\ m.t = m.y
  BY DEF BAUTH!M3
<1>6. m.y.key = s.key /\ m.y.s = BAUTH!Sign(c, s.v, con["B"].d) /\ m.y.cert = con["B"].d
  BY <1>2, <1>3, <1>5 DEF BauthText
<1>7. R = s.v
  <2> HIDE DEF c, s
  <2>1. BAUTH!Restored(c, BAUTH!Sign(c, s.v, con["B"].d), con["B"].d) = s.v
    BY <1>2, <1>3, <1>4, Restores DEF BAUTH!Restored, BAUTH!Sign
  <2> QED
    BY <1>6, <2>1
<1>8. r = CASE m.t # m.y \/ m.t.key # s.key -> BAUTH!Error("ERR_AUTH", s)
            [] m.t = m.y /\ m.t.key = s.key /\ R = 0 -> BAUTH!Error("ERR_BAD_PARAMS", s)
            [] m.t = m.y /\ m.t.key = s.key /\ R # 0 /\ R # s.v -> BAUTH!Error("ERR_AUTH", s)
            [] OTHER -> BAUTH!Done(e, <<>>)
  BY DEF BAUTH!TStep5
<1>9. DOMAIN e = Fields /\ e.key = s.key
  BY <1>1 DEF Fields
<1> HIDE DEF s, m, c, R, e
<1>10. r = BAUTH!Done(e, <<>>)
  BY <1>2, <1>5, <1>6, <1>7, <1>8
<1> SUFFICES Returned(r) /\ r.code = "ERR_OK" /\ r.st.key = s.key /\ r.send = <<>>
  BY DEF s
<1> QED
  BY <1>9, <1>10 DEF BAUTH!Done, Returned

LEMMA BauthStill ==
  ASSUME NEW p \in Parties, Still(p), BauthServed, CodesGood
  PROVE  BauthServed' /\ CodesGood'
<1>1. "A" \in Parties /\ "B" \in Parties
  BY DEF Parties
<1>2. /\ con' = con /\ line' = line /\ CodesGood'
      /\ \A q \in Parties : obj'[q].u = obj[q].u /\ obj'[q].v = obj[q].v
                            /\ obj'[q].r = obj[q].r /\ obj'[q].key = obj[q].key
  BY DEF Still
<1>3. /\ at["A"] \in {"start", "read3"} => at'["A"] \in {"start", "read3"}
      /\ at["B"] \in {"start", "step2"} => at'["B"] \in {"start", "step2"}
      /\ \A q \in Parties : /\ at[q] \in {"read4", "read5"} => at'[q] = at[q]
                            /\ Over(q) => Over(q)'
  BY <1>1 DEF Still, Over
<1>4. /\ BauthFirst' = BauthFirst /\ BauthSecond' = BauthSecond /\ BauthText' = BauthText
      /\ BauthSent => BauthSent'
  BY <1>1, <1>2 DEF BauthFirst, BauthSecond, BauthText, BauthSent
<1>5. BAUTH!KeyOf("A", obj["B"].r, obj["A"].r)' = BAUTH!KeyOf("A", obj["B"].r, obj["A"].r)
  BY <1>1, <1>2 DEF BAUTH!KeyOf
<1>6. (Unopened => Unopened') /\ (Waiting => Waiting')
  BY <1>1, <1>2, <1>3 DEF Unopened, Waiting, Lines
<1>7. CASE Unopened
  BY <1>2, <1>6, <1>7 DEF BauthServed
<1>8. CASE Waiting /\ obj["B"].u \in Points /\ Lines(<<BauthFirst>>, <<>>)
  BY <1>1, <1>2, <1>4, <1>6, <1>8 DEF BauthServed, Lines
<1>9. CASE /\ (IF con["A"].kcb THEN at["A"] = "read5" ELSE Over("A")) /\ at["B"] = "read4"
           /\ BauthSent /\ obj["A"].key = BAUTH!KeyOf("A", obj["B"].r, obj["A"].r)
           /\ Lines(<<>>, <<BauthSecond>>)
  <2>1. /\ (IF con'["A"].kcb THEN at'["A"] = "read5" ELSE Over("A")') /\ at'["B"] = "read4"
        /\ Lines(<<>>, <<BauthSecond>>)'
    BY <1>1, <1>2, <1>3, <1>4, <1>9 DEF Lines
  <2>2. (obj["A"].key = BAUTH!KeyOf("A", obj["B"].r, obj["A"].r))'
    BY <1>1, <1>2, <1>5, <1>9
  <2> QED
    BY Zenon, <1>2, <1>4, <1>9, <2>1, <2>2 DEF BauthServed
<1>10. CASE /\ con["A"].kcb /\ at["A"] = "read5" /\ Over("B")
            /\ BauthSent /\ obj["A"].key = obj["B"].key
            /\ Lines(<<BAUTH!M3(BauthText)>>, <<>>)
  BY <1>1, <1>2, <1>3, <1>4, <1>10 DEF BauthServed, Lines
<1>11. CASE Over("A") /\ Over("B") /\ obj["A"].key = obj["B"].key /\ Lines(<<>>, <<>>)
  BY <1>1, <1>2, <1>3, <1>11 DEF BauthServed, Lines
<1> QED
  BY Zenon, <1>7, <1>8, <1>9, <1>10, <1>11 DEF BauthServed

LEMMA BauthLeft ==
  ASSUME NEW p \in Parties, BauthServed
  PROVE  ~ Left(p)
<1>1. \A w : <<w>> # <<>>
  OBVIOUS
<1> DEFINE m == BAUTH!M3(BauthText)
<1>2. \/ at["A"] \notin {"end", "stepG"} /\ at["B"] \notin {"end", "stepG"}
      \/ at["B"] = "read4" /\ line["B"] = <<BauthSecond>>
      \/ at["A"] = "read5" /\ line["A"] = <<m>>
      \/ Over("A") /\ Over("B")
  BY DEF BauthServed, Lines, Waiting, Unopened
<1> HIDE DEF m
<1> QED
  BY <1>1, <1>2 DEF Left, Over, Other, Parties

LEMMA BauthServes ==
  ASSUME Shapes, BAUTH!Fits, con \in [Parties -> BAUTH!Confs], BAUTH!Nonces \subseteq Xs,
         con["A"].kcb = con["B"].kcb, con["B"].l = 128,
         BauthServed, CodesGood, NEW p \in Parties, BauthAnswers(p)
  PROVE  BauthServed' /\ CodesGood'
<1>1. Other("A") = "B" /\ Other("B") = "A" /\ "A" \in Parties /\ "B" \in Parties
  BY DEF Other, Parties
<1>2. \A q \in Parties : con[q].d \in Points
  BY BMQVAssumption DEF BAUTH!Confs
<1>3. ASSUME NEW x \in Points, NEW n,
             Opening([obj["B"] EXCEPT !.u = x, !.r = n],
                     BAUTH!M1(x, BAUTH!Wrapped(BAUTH!X((x * con["B"].certt) % Q), n)))
      PROVE  BauthServed' /\ CodesGood'
  <2> DEFINE m == BAUTH!M1(x, BAUTH!Wrapped(BAUTH!X((x * con["B"].certt) % Q), n))
  <2>1. Unopened
    BY <1>3 DEF BauthServed, Opening, Unopened, Waiting, Over
  <2>2. Opening([obj["B"] EXCEPT !.u = x, !.r = n], m)
    BY <1>3
  <2> HIDE DEF m
  <2>3. /\ at'["A"] = at["A"] /\ at'["B"] = "read4" /\ line'["B"] = <<>>
        /\ line'["A"] = <<m>> /\ at["B"] = "step2" /\ code' = code /\ con' = con
        /\ \A q \in Parties : q # "B" => at'[q] = at[q]
    BY <1>1, <2>1, <2>2 DEF Opening, Unopened, Shapes, Lines
  <2>4. obj'["B"].u = x /\ obj'["B"].r = n
    BY <1>1, <2>2 DEF Opening, Shapes, Fields
  <2>5. CodesGood'
    BY <1>1, <2>3 DEF CodesGood
  <2>6. BauthFirst' = m
    BY <2>3, <2>4 DEF BauthFirst, m
  <2>7. Waiting' /\ (obj["B"].u \in Points)' /\ Lines(<<BauthFirst>>, <<>>)'
    BY <2>1, <2>3, <2>4, <2>6 DEF Waiting, Unopened, Lines
  <2> QED
    BY Zenon, <2>5, <2>7 DEF BauthServed
<1>4. ASSUME at["A"] = "read3", line["A"] # <<>>, NEW n \in BAUTH!Nonces,
             Turned("A", BAUTH!TStep3(Head(line["A"]), n),
                    IF con["A"].kcb THEN "read5" ELSE "stepG")
      PROVE  BauthServed' /\ CodesGood'
  <2>1. Waiting /\ obj["B"].u \in Points /\ Lines(<<BauthFirst>>, <<>>)
    BY <1>4 DEF BauthServed, Unopened, Waiting, Over, Lines
  <2> DEFINE next == IF con["A"].kcb THEN "read5" ELSE "stepG"
             r == BAUTH!TStep3(BauthFirst, n)
             rt == IF con["A"].kcb THEN n ELSE 0
             k == BAUTH!KeyOf("A", obj["B"].r, rt)
             w == BAUTH!M2([of |-> k], rt)
  <2>2. Turned("A", r, next)
    BY <1>4, <2>1 DEF Lines
  <2>3. /\ Returned(r) /\ r.code = "ERR_OK" /\ r.send = <<w>>
        /\ r.st.v = obj["B"].u /\ r.st.r = rt /\ r.st.key = k
    BY <1>2, <2>1, BauthGives3
  <2>4. line["A"] = <<BauthFirst>> /\ line[Other("A")] = <<>>
    BY <1>1, <2>1 DEF Lines
  <2> HIDE DEF r
  <2>5. /\ line'["A"] = <<>> /\ line'["B"] = <<w>>
        /\ at' = [at EXCEPT !["A"] = next] /\ con' = con /\ CodesGood'
        /\ obj'["B"] = obj["B"] /\ obj'["A"].v = obj["B"].u /\ obj'["A"].r = rt
        /\ obj'["A"].key = k
    <3> HIDE DEF rt, w, k, next
    <3> QED
      BY <1>1, <2>2, <2>3, <2>4, TurnedWell
  <2>6. (IF con'["A"].kcb THEN at'["A"] = "read5" ELSE Over("A")') /\ at'["B"] = "read4"
    BY <1>1, <2>1, <2>5 DEF Shapes, Waiting, Over
  <2>7. BauthSent' /\ BauthSecond' = w
    BY <2>1, <2>5 DEF BauthSent, BauthSecond
  <2>8. (obj["A"].key = BAUTH!KeyOf("A", obj["B"].r, obj["A"].r))'
    BY <2>5 DEF BAUTH!KeyOf
  <2> HIDE DEF w, k
  <2>9. Lines(<<>>, <<BauthSecond>>)'
    BY <2>5, <2>7 DEF Lines
  <2> QED
    BY Zenon, <2>5, <2>6, <2>7, <2>8, <2>9 DEF BauthServed
<1>5. ASSUME at["B"] = "read4", line["B"] # <<>>,
             Turned("B", BAUTH!CTStep4(Head(line["B"])), "stepG")
      PROVE  BauthServed' /\ CodesGood'
  <2>1. /\ (IF con["A"].kcb THEN at["A"] = "read5" ELSE Over("A"))
        /\ BauthSent /\ obj["A"].key = BAUTH!KeyOf("A", obj["B"].r, obj["A"].r)
        /\ Lines(<<>>, <<BauthSecond>>)
    BY <1>5 DEF BauthServed, Unopened, Waiting, Over, Lines
  <2> DEFINE r == BAUTH!CTStep4(BauthSecond)
             y == [key |-> obj["A"].key,
                   s |-> BAUTH!Sign(BAUTH!Challenge(obj["B"].u, obj["A"].r), obj["B"].u, con["B"].d),
                   cert |-> con["B"].own]
             m == BAUTH!M3(y)
             sent == IF con["A"].kcb THEN <<m>> ELSE <<>>
  <2>2. Turned("B", r, "stepG")
    BY <1>5, <2>1 DEF Lines
  <2>3. /\ Returned(r) /\ r.code = "ERR_OK" /\ r.send = sent
        /\ r.st.u = obj["B"].u /\ r.st.key = obj["A"].key
    BY <2>1, BauthGives4
  <2>4. line["B"] = <<BauthSecond>> /\ line[Other("B")] = <<>>
    BY <1>1, <2>1 DEF Lines
  <2> HIDE DEF r
  <2>5. /\ line'["B"] = <<>> /\ line'["A"] = sent
        /\ at' = [at EXCEPT !["B"] = "stepG"] /\ con' = con /\ CodesGood'
        /\ obj'["A"] = obj["A"] /\ obj'["B"].u = obj["B"].u /\ obj'["B"].key = obj["A"].key
    <3> HIDE DEF sent
    <3> QED
      BY <1>1, <2>2, <2>3, <2>4, TurnedWell
  <2>6. at'["A"] = at["A"] /\ Over("B")' /\ obj'["A"].key = obj'["B"].key
    BY <1>1, <2>5 DEF Shapes, Over
  <2>7. BauthText' = y /\ BauthSent'
    BY <2>1, <2>5 DEF BauthText, BauthSent
  <2> HIDE DEF y
  <2>8. CASE con["A"].kcb
    <3>1. Lines(<<BAUTH!M3(BauthText)>>, <<>>)' /\ at'["A"] = "read5" /\ con'["A"].kcb
      BY <2>1, <2>5, <2>6, <2>7, <2>8 DEF Lines
    <3> QED
      BY Zenon, <2>5, <2>6, <2>7, <3>1 DEF BauthServed
  <2>9. CASE ~ con["A"].kcb
    <3>1. Lines(<<>>, <<>>)' /\ Over("A")'
      BY <2>1, <2>5, <2>6, <2>9 DEF Lines, Over
    <3> QED
      BY Zenon, <2>5, <2>6, <3>1 DEF BauthServed
  <2> QED
    BY <2>8, <2>9
<1>6. ASSUME at["A"] = "read5", line["A"] # <<>>,
             Turned("A", BAUTH!TStep5(Head(line["A"])), "stepG")
      PROVE  BauthServed' /\ CodesGood'
  <2> DEFINE m == BAUTH!M3(BauthText)
  <2>1. /\ con["A"].kcb /\ Over("B") /\ BauthSent /\ obj["A"].key = obj["B"].key
        /\ Lines(<<m>>, <<>>)
    BY <1>6 DEF BauthServed, Unopened, Waiting, Over, Lines
  <2> DEFINE r == BAUTH!TStep5(m)
  <2>2. Turned("A", r, "stepG")
    BY <1>6, <2>1 DEF Lines
  <2>3. Returned(r) /\ r.code = "ERR_OK" /\ r.st.key = obj["A"].key /\ r.send = <<>>
    BY <1>2, <2>1, BauthGives5
  <2>4. line["A"] = <<m>> /\ line[Other("A")] = <<>>
    BY <1>1, <2>1 DEF Lines
  <2> HIDE DEF r, m
  <2>5. /\ line'["A"] = <<>> /\ line'["B"] = <<>>
        /\ at' = [at EXCEPT !["A"] = "stepG"] /\ con' = con /\ CodesGood'
        /\ obj'["B"] = obj["B"] /\ obj'["A"].key = obj["A"].key
    BY <1>1, <2>2, <2>3, <2>4, TurnedWell
  <2>6. Over("A")' /\ Over("B")' /\ obj'["A"].key = obj'["B"].key /\ Lines(<<>>, <<>>)'
    BY <1>1, <2>1, <2>5 DEF Shapes, Over, Lines
  <2> QED
    BY Zenon, <2>5, <2>6 DEF BauthServed
<1> QED
  BY Zenon, <1>3, <1>4, <1>5, <1>6 DEF BauthAnswers
-----------------------------------------------------------------------------
(* The number of failures never falls, and nobody is given anything else.  *)
LEMMA BstsCounts ==
  ASSUME slips \in Nat, BSTS!RunA \/ BSTS!RunB
  PROVE  con' = con /\ slips' \in Nat /\ (slips' = 0 => slips = 0)
<1> DEFINE Counted == con' = con /\ slips' \in {slips, slips + 1}
<1>1. \A p, next : BSTS!Start(p, next) => Counted
  BY DEF BSTS!Start, BSTS!Fault
<1>2. \A p : BSTS!ReadBlock(p) \/ BSTS!LastFails(p) => Counted
  BY DEF BSTS!ReadBlock, BSTS!LastFails, BSTS!Fault
<1>3. \A p, sent : BSTS!WriteFails(p, sent) => Counted
  BY DEF BSTS!WriteFails, BSTS!Fault
<1>4. \A p, bs : BSTS!Breaks(p, BSTS!Outside, bs) => Counted
  BY Zenon DEF BSTS!Breaks, BSTS!Fault
<1>5. \A p : BSTS!StepG(p) => Counted
  BY DEF BSTS!StepG
<1>6. \A p, m, r, next : BSTS!Turn(p, m, r, next) /\ con' = con => Counted
  <2> SUFFICES ASSUME NEW p, NEW m, NEW r, NEW next, BSTS!Turn(p, m, r, next), con' = con
               PROVE  Counted
    OBVIOUS
  <2>1. slips' = slips + (IF m # Head(line[p]) THEN 1 ELSE 0)
    BY Zenon DEF BSTS!Turn
  <2> QED
    BY <2>1
<1>7. UNCHANGED <<con, code, blobs, slips>> => Counted
  OBVIOUS
<1>8. Counted => con' = con /\ slips' \in Nat /\ (slips' = 0 => slips = 0)
  OBVIOUS
<1> HIDE DEF Counted
<1>9. BSTS!RunA => Counted
  BY Zenon, <1>1, <1>2, <1>3, <1>4, <1>5, <1>6 DEF BSTS!RunA
<1>10. BSTS!RunB => Counted
  BY Zenon, <1>1, <1>2, <1>3, <1>4, <1>5, <1>6, <1>7 DEF BSTS!RunB
<1> QED
  BY <1>8, <1>9, <1>10

LEMMA BpaceCounts ==
  ASSUME slips \in Nat, BPACE!RunA \/ BPACE!RunB
  PROVE  con' = con /\ slips' \in Nat /\ (slips' = 0 => slips = 0)
<1> DEFINE Counted == con' = con /\ slips' \in {slips, slips + 1}
<1>1. \A p, next : BPACE!Start(p, next) => Counted
  BY DEF BPACE!Start, BPACE!Fault
<1>2. \A p, sent : BPACE!WriteFails(p, sent) => Counted
  BY DEF BPACE!WriteFails, BPACE!Fault
<1>3. \A p, bs : BPACE!Breaks(p, BPACE!Outside, bs) => Counted
  BY Zenon DEF BPACE!Breaks, BPACE!Fault
<1>4. \A p : BPACE!StepG(p) => Counted
  BY DEF BPACE!StepG
<1>5. \A p, m, r, next : BPACE!Turn(p, m, r, next) /\ con' = con => Counted
  <2> SUFFICES ASSUME NEW p, NEW m, NEW r, NEW next, BPACE!Turn(p, m, r, next), con' = con
               PROVE  Counted
    OBVIOUS
  <2>1. slips' = slips + (IF m # Head(line[p]) THEN 1 ELSE 0)
    BY Zenon DEF BPACE!Turn
  <2> QED
    BY <2>1
<1>6. UNCHANGED <<con, code, blobs, slips>> => Counted
  OBVIOUS
<1>7. BPACE!ShortRead => Counted
  BY DEF BPACE!ShortRead
<1>8. Counted => con' = con /\ slips' \in Nat /\ (slips' = 0 => slips = 0)
  OBVIOUS
<1> HIDE DEF Counted
<1>9. BPACE!RunA => Counted
  BY Zenon, <1>1, <1>2, <1>3, <1>4, <1>5, <1>7 DEF BPACE!RunA
<1>10. BPACE!RunB => Counted
  BY Zenon, <1>1, <1>2, <1>3, <1>4, <1>5, <1>6 DEF BPACE!RunB
<1> QED
  BY <1>8, <1>9, <1>10

LEMMA BauthCounts ==
  ASSUME slips \in Nat, BAUTH!RunT \/ BAUTH!RunCT
  PROVE  con' = con /\ slips' \in Nat /\ (slips' = 0 => slips = 0)
<1> DEFINE Counted == con' = con /\ slips' \in {slips, slips + 1}
<1>1. \A p, next : BAUTH!Start(p, next) => Counted
  BY DEF BAUTH!Start, BAUTH!Fault
<1>2. \A p, bs : BAUTH!Breaks(p, BAUTH!Outside, bs) => Counted
  BY Zenon DEF BAUTH!Breaks, BAUTH!Fault
<1>3. \A p : BAUTH!StepG(p) => Counted
  BY DEF BAUTH!StepG
<1>4. \A p, m, r, next : BAUTH!Turn(p, m, r, next) /\ con' = con => Counted
  <2> SUFFICES ASSUME NEW p, NEW m, NEW r, NEW next, BAUTH!Turn(p, m, r, next), con' = con
               PROVE  Counted
    OBVIOUS
  <2>1. slips' = slips + (IF m # Head(line[p]) THEN 1 ELSE 0)
    BY Zenon DEF BAUTH!Turn
  <2> QED
    BY <2>1
<1>5. UNCHANGED <<con, code, blobs, slips>> => Counted
  OBVIOUS
<1>6. Counted => con' = con /\ slips' \in Nat /\ (slips' = 0 => slips = 0)
  OBVIOUS
<1> HIDE DEF Counted
<1>7. BAUTH!RunT => Counted
  BY Zenon, <1>1, <1>2, <1>3, <1>4 DEF BAUTH!RunT
<1>8. BAUTH!RunCT => Counted
  BY Zenon, <1>1, <1>2, <1>3, <1>4, <1>5 DEF BAUTH!RunCT
<1> QED
  BY <1>6, <1>7, <1>8
-----------------------------------------------------------------------------
(* In a run without failures of parties that fit each protocol is where    *)
(* its part of the definitions above says.                                 *)
BpaceFits == con["A"] = con["B"]
BauthFits == BAUTH!Fits /\ con["A"].l = 128
ServedInv ==
  /\ slips \in Nat /\ Granted
  /\ slips = 0 =>
       /\ part = "bsts" /\ BstsFits => BstsServed /\ CodesGood
       /\ part = "bpace" /\ BpaceFits => BpaceServed /\ CodesGood
       /\ part = "bauth" /\ BauthFits => BauthServed /\ CodesGood

LEMMA ServedStart == MCInit => ServedInv
<1> SUFFICES ASSUME MCInit PROVE ServedInv
  OBVIOUS
<1>1. \A p \in Parties : at[p] = "start" /\ line[p] = <<>> /\ code[p] = "running"
  BY RestStart DEF AtRest
<1>2. Unopened /\ CodesGood
  BY <1>1 DEF Unopened, CodesGood, Lines, Parties
<1>3. part = "bsts" => slips = 0 /\ con \in [Parties -> BSTS!Confs]
  BY DEF MCInit, BSTS!Init, BSTS!LineInit, BSTS!Parties, Parties
<1>4. part = "bpace" => slips = 0 /\ con \in [Parties -> BPACE!Confs]
  BY DEF MCInit, BPACE!Init, BPACE!LineInit, BPACE!Parties, Parties
<1>5. part = "bauth" => /\ slips = 0 /\ con \in [Parties -> BAUTH!Confs]
                        /\ con["A"].kcb = con["B"].kcb /\ con["A"].l = con["B"].l
  BY DEF MCInit, BAUTH!Init, BAUTH!LineInit, BAUTH!Parties, Parties
<1>6. part = "bmqv" => slips = 0
  BY DEF MCInit, BSTS!LineInit
<1>7. part \in {"bmqv", "bsts", "bpace", "bauth"}
  BY ProtocolsAssumption DEF MCInit
<1> QED
  BY <1>2, <1>3, <1>4, <1>5, <1>6, <1>7
  DEF ServedInv, Granted, BstsServed, BpaceServed, BauthServed

LEMMA ServedRest ==
  ASSUME ServedInv, UNCHANGED <<part, theirVars>>
  PROVE  ServedInv'
<1>1. UNCHANGED <<part, con, at, obj, line, code, slips>>
  BY DEF theirVars
<1>2. Granted' = Granted /\ CodesGood' = CodesGood /\ Unopened' = Unopened /\ Waiting' = Waiting
      /\ Over("A")' = Over("A") /\ Over("B")' = Over("B")
      /\ \A a, b : Lines(a, b)' = Lines(a, b)
  BY <1>1 DEF Granted, CodesGood, Unopened, Waiting, Over, Lines
<1>3. (BstsFits' => BstsFits) /\ (BpaceFits' => BpaceFits) /\ (BauthFits' => BauthFits)
  BY <1>1 DEF BstsFits, BpaceFits, BauthFits, BAUTH!Fits
<1>4. ASSUME CodesGood PROVE Still("A")
  <2>1. \A q \in Parties : obj'[q] = obj[q]
    BY <1>1
  <2> QED
    BY <1>1, <1>2, <1>4, <2>1 DEF Still
<1>5. "A" \in Parties
  BY DEF Parties
<1>6. /\ BstsServed /\ CodesGood => BstsServed' /\ CodesGood'
      /\ BpaceServed /\ CodesGood => BpaceServed' /\ CodesGood'
      /\ BauthServed /\ CodesGood => BauthServed' /\ CodesGood'
  BY Zenon, <1>4, <1>5, BstsStill, BpaceStill, BauthStill
<1> QED
  BY <1>1, <1>2, <1>3, <1>6 DEF ServedInv

LEMMA ServedStep ==
  ASSUME TheirInv, ServedInv, NEW p \in Parties, Theirs(p), part' = part
  PROVE  ServedInv'
<1>1. Shapes /\ MemInv /\ slips \in Nat /\ Granted
  BY DEF TheirInv, ServedInv
<1>2. CASE part = "bsts"
  <2>1. (p = "A" /\ BSTS!RunA) \/ (p = "B" /\ BSTS!RunB)
    BY Zenon, <1>2 DEF Theirs
  <2>2. con' = con /\ slips' \in Nat /\ (slips' = 0 => slips = 0)
    BY Zenon, <1>1, <2>1, BstsCounts
  <2>3. ASSUME slips' = 0, BstsFits' PROVE BstsServed' /\ CodesGood'
    <3>1. BstsFits /\ slips = 0
      BY <2>2, <2>3 DEF BstsFits
    <3>2. BstsServed /\ CodesGood /\ con \in [Parties -> BSTS!Confs]
      BY <1>1, <1>2, <3>1 DEF ServedInv, Granted
    <3>3. Still(p) \/ Left(p) \/ BstsAnswers(p)
      BY Zenon, <1>1, <2>1, <2>3, <3>1, BstsPlain
    <3> QED
      BY Zenon, <1>1, <3>1, <3>2, <3>3, BstsStill, BstsLeft, BstsServes
  <2>4. Granted'
    BY <1>1, <1>2, <2>2 DEF Granted
  <2> QED
    BY <1>2, <2>2, <2>3, <2>4 DEF ServedInv
<1>3. CASE part = "bpace"
  <2>1. (p = "A" /\ BPACE!RunA) \/ (p = "B" /\ BPACE!RunB)
    BY Zenon, <1>3 DEF Theirs
  <2>2. con' = con /\ slips' \in Nat /\ (slips' = 0 => slips = 0)
    BY Zenon, <1>1, <2>1, BpaceCounts
  <2>3. ASSUME slips' = 0, BpaceFits' PROVE BpaceServed' /\ CodesGood'
    <3>1. con["A"] = con["B"] /\ slips = 0
      BY <2>2, <2>3 DEF BpaceFits
    <3>2. BpaceServed /\ CodesGood /\ con \in [Parties -> BPACE!Confs] /\ NR \in Nat
      BY <1>1, <1>3, <3>1, NoncesAssumption DEF ServedInv, Granted, BpaceFits
    <3>3. Still(p) \/ Left(p) \/ BpaceAnswers(p) \/ BPACE!ShortRead
      BY Zenon, <1>1, <2>1, <2>3, <3>1, BpacePlain
    <3>4. ~ BPACE!ShortRead
      BY Zenon, <3>1, <3>2, BpaceLong
    <3> QED
      BY Zenon, <1>1, <3>1, <3>2, <3>3, <3>4, BpaceStill, BpaceLeft, BpaceServes
  <2>4. Granted'
    BY <1>1, <1>3, <2>2 DEF Granted
  <2> QED
    BY <1>3, <2>2, <2>3, <2>4 DEF ServedInv
<1>4. CASE part = "bauth"
  <2>1. (p = "A" /\ BAUTH!RunT) \/ (p = "B" /\ BAUTH!RunCT)
    BY Zenon, <1>4 DEF Theirs
  <2>2. con' = con /\ slips' \in Nat /\ (slips' = 0 => slips = 0)
    BY Zenon, <1>1, <2>1, BauthCounts
  <2>3. ASSUME slips' = 0, BauthFits' PROVE BauthServed' /\ CodesGood'
    <3>1. BAUTH!Fits /\ con["A"].l = 128 /\ BauthFits /\ slips = 0
      BY <2>2, <2>3 DEF BauthFits, BAUTH!Fits
    <3>2. /\ BauthServed /\ CodesGood /\ con \in [Parties -> BAUTH!Confs]
          /\ con["A"].kcb = con["B"].kcb /\ con["B"].l = 128 /\ BAUTH!Nonces \subseteq Xs
      BY <1>1, <1>4, <3>1, NoncesAssumption DEF ServedInv, Granted
    <3>3. Still(p) \/ Left(p) \/ BauthAnswers(p)
      BY Zenon, <1>1, <2>1, <2>3, <3>1, BauthPlain
    <3> QED
      BY Zenon, <1>1, <3>1, <3>2, <3>3, BauthStill, BauthLeft, BauthServes
  <2>4. Granted'
    BY <1>1, <1>4, <2>2 DEF Granted
  <2> QED
    BY <1>4, <2>2, <2>3, <2>4 DEF ServedInv
<1>5. part \in {"bsts", "bpace", "bauth"}
  BY Zenon DEF Theirs
<1> QED
  BY <1>2, <1>3, <1>4, <1>5

LEMMA ServedInvariant == MCSpec => []ServedInv
<1>1. MCInit => ServedInv
  BY ServedStart
<1>2. TheirInv /\ ServedInv /\ [MCNext]_all => ServedInv'
  <2>1. ASSUME TheirInv, ServedInv, NEW p \in Parties, MCStep(p) PROVE ServedInv'
    <3>1. CASE UNCHANGED <<part, theirVars>>
      BY <2>1, <3>1, ServedRest
    <3>2. CASE Theirs(p) /\ UNCHANGED <<part, bmqvVars>>
      BY <2>1, <3>2, ServedStep
    <3>3. QED
      BY Zenon, <2>1, <3>1, <3>2 DEF MCStep
  <2>2. CASE UNCHANGED all
    BY <2>2, ServedRest DEF all
  <2>3. QED
    BY Zenon, <2>1, <2>2 DEF MCNext
<1>3. QED
  BY <1>1, <1>2, TheirInductive, PTL DEF MCSpec

(* Parties that were given what fits together and whose line, rng and      *)
(* memory never fail end without an error in each of the four protocols,   *)
(* however their steps interleave, and where the protocol promises it with *)
(* one key: for every group, every settings and (BSTS) every number of     *)
(* blocks.                                                                 *)
THEOREM PartnersServedCorrect == MCSpec => []PartnersServed
<1>1. ServedInv /\ HonestAgree => PartnersServed
  <2> SUFFICES ASSUME ServedInv, HonestAgree PROVE PartnersServed
    OBVIOUS
  <2>1. /\ Parties = BSTS!Parties /\ Parties = BPACE!Parties /\ Parties = BAUTH!Parties
        /\ "A" \in Parties /\ "B" \in Parties
    BY DEF Parties, BSTS!Parties, BPACE!Parties, BAUTH!Parties
  <2>2. CodesGood => \A p \in Parties : code[p] \in {"running", "ERR_OK"}
    BY DEF CodesGood
  <2>3. CodesGood /\ (\A p \in Parties : code[p] = "ERR_OK") => at["A"] = "end" /\ at["B"] = "end"
    BY <2>1 DEF CodesGood
  <2>4. part = "bsts" => BSTS!Honest
    BY <2>1, <2>2 DEF ServedInv, BstsFits, BSTS!Honest
  <2>5. part = "bpace" => BPACE!Honest
    <3>1. BpaceServed /\ at["A"] = "end" /\ at["B"] = "end" => obj["A"].key = obj["B"].key
      BY DEF BpaceServed, Unopened, Waiting, Over
    <3> QED
      BY <2>1, <2>2, <2>3, <3>1 DEF ServedInv, BpaceFits, BPACE!Honest, BPACE!Finished
  <2>6. part = "bauth" => BAUTH!HonestAt({128})
    <3>1. BauthServed /\ at["A"] = "end" /\ at["B"] = "end" => obj["A"].key = obj["B"].key
      BY DEF BauthServed, Unopened, Waiting, Over
    <3> QED
      BY <2>1, <2>2, <2>3, <3>1 DEF ServedInv, BauthFits, BAUTH!HonestAt, BAUTH!Finished
  <2> QED
    BY <2>4, <2>5, <2>6 DEF PartnersServed
<1>2. MCSpec => []HonestAgree
  BY BmqvPart, HonestAgreeCorrect
<1>3. QED
  BY <1>1, <1>2, ServedInvariant, PTL
=============================================================================
