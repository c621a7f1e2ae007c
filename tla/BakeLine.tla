------------------------------ MODULE BakeLine ------------------------------
(***************************************************************************)
(* What the protocols BSTS, BPACE and BAUTH have in common: two parties    *)
(* that take turns over a line which may lose or spoil a message, and the  *)
(* one-time arithmetic of src/src/crypto/bake.c and btok_bauth.c.          *)
(*                                                                         *)
(* A turn of a party is what it does between two reads: it takes a         *)
(* message, makes a step, sends the answer.  A step is a function that     *)
(* returns what it leaves in the state and its code, as the C function     *)
(* does.  Points are multiples of the base of a group of prime order Q, 0  *)
(* is what octets that are not a point stand for.  Keys are what they are  *)
(* derived from; hashing, MAC, encryption and key wrap are injective.      *)
(***************************************************************************)
EXTENDS Integers, Sequences, FiniteSets

CONSTANTS
  Q,             \* the order of the group, a prime
  TwoL,          \* 2^l
  HashT,         \* beltHash of two values, modulo 2^l
  MaxFaults      \* how many failures of the line, rng, memory are explored

Points == 1 .. Q - 1
Parties == {"A", "B"}
Other(p) == IF p = "A" THEN "B" ELSE "A"

VARIABLES
  conf,          \* what each party is given before the run
  pc,            \* where each party is
  st,            \* the state object of each party
  file,          \* file[p]: messages on their way to p
  result,        \* the code each run returns
  heap,          \* blobs a party has and has not closed
  faults         \* failures so far

lineVars == <<conf, pc, st, file, result, heap, faults>>

NoKey == [none |-> TRUE]
NoiseKey == [noise |-> TRUE]
NoTag == [of |-> NoKey]
Noise == [of |-> NoiseKey]
NoSt == [u |-> 0, v |-> 0, t |-> 0, r |-> 0, key |-> NoKey, peer |-> 0,
         got |-> 0]

LineInit ==
  /\ pc = [p \in Parties |-> "start"]
  /\ st = [p \in Parties |-> NoSt]
  /\ file = [p \in Parties |-> <<>>]
  /\ result = [p \in Parties |-> "running"]
  /\ heap = [p \in Parties |-> {}]
  /\ faults = 0
-----------------------------------------------------------------------------
(* x-coordinates: opposite points share it.                                *)
X(k) == IF 2 * k > Q THEN Q - k ELSE k

(* 2^l + t.                                                                *)
Factor(x, y) == TwoL + HashT[<<x, y>>]

(* s <- (u - (2^l + t)d) mod q.                                            *)
Sign(c, u, d) == (u - c * d) % Q

(* sG + (2^l + t)Q; 0 is O, which ecAddMulA() does not return.             *)
Restored(c, s, q) == (s + c * q) % Q
-----------------------------------------------------------------------------
Fault == faults < MaxFaults /\ faults' = faults + 1

(* What a step returns when it fails, and what it has left in the state.   *)
Error(code, s) == [code |-> code, st |-> s, send |-> <<>>]
Done(s, msgs) == [code |-> "ERR_OK", st |-> s, send |-> msgs]

(* The run closes blobs and returns.                                       *)
Return(p, code, blobs) ==
  /\ pc' = [pc EXCEPT ![p] = "end"]
  /\ result' = [result EXCEPT ![p] = code]
  /\ heap' = [heap EXCEPT ![p] = @ \ blobs]

(* blobCreate() and Start: the memory, the own certificate.                *)
Start(p, next) ==
  /\ pc[p] = "start"
  /\ \/ /\ pc' = [pc EXCEPT ![p] = next]
        /\ heap' = [heap EXCEPT ![p] = {"blob"}]
        /\ UNCHANGED <<result, faults>>
     \/ Fault /\ \E c \in {"ERR_OUTOFMEMORY", "ERR_BAD_CERT"} : Return(p, c, {"blob"})
  /\ UNCHANGED <<conf, st, file>>

(* What p may read: the next message, or what the line makes of it.        *)
Heard(p, Spoil(_)) ==
  {Head(file[p])} \cup (IF faults < MaxFaults THEN Spoil(Head(file[p])) ELSE {})

(* p has read m, made a step with the outcome r and goes on at next.  The  *)
(* copy "M" of a long message is closed as soon as the step is made, and   *)
(* no block of the next one has been read.                                 *)
Turn(p, m, r, next) ==
  LET spoiled == IF m # Head(file[p]) THEN 1 ELSE 0
  IN /\ st' = [st EXCEPT ![p] = [r.st EXCEPT !.got = 0]]
     /\ file' = [file EXCEPT ![p] = Tail(@), ![Other(p)] = @ \o r.send]
     /\ faults' = faults + spoiled
     /\ IF r.code # "ERR_OK" THEN Return(p, r.code, {"blob", "M"})
        ELSE /\ pc' = [pc EXCEPT ![p] = next]
             /\ heap' = [heap EXCEPT ![p] = @ \ {"M"}]
             /\ UNCHANGED result

(* write() reports an error when the message may be on its way, or not.    *)
WriteFails(p, sent) ==
  /\ pc[p] \in sent /\ st[p].got = 0
  /\ Fault /\ Return(p, "ERR_FILE", {"blob"})
  /\ \/ UNCHANGED file
     \/ /\ file[Other(p)] # <<>>
        /\ file' = [file EXCEPT ![Other(p)] = SubSeq(@, 1, Len(@) - 1)]
  /\ UNCHANGED <<conf, st>>

(* Something p calls fails at one of its labels: read(), the certificate   *)
(* of the other party, rng, memory.  read() also fails when nothing comes  *)
(* because the other run has ended.                                        *)
Breaks(p, Outside(_), blobs) ==
  /\ \/ Fault /\ \E c \in Outside(pc[p]) :
          /\ c # "ERR_FILE" /\ pc[p] # "step2" => file[p] # <<>>
          /\ Return(p, c, blobs)
     \/ /\ "ERR_FILE" \in Outside(pc[p]) /\ file[p] = <<>>
        /\ pc[Other(p)] = "end"
        /\ Return(p, "ERR_FILE", blobs) /\ UNCHANGED faults
  /\ UNCHANGED <<conf, st, file>>

(* StepG and the end of the run.                                           *)
StepG(p) ==
  /\ pc[p] = "stepG"
  /\ Return(p, "ERR_OK", {"blob"})
  /\ UNCHANGED <<conf, st, file, faults>>
-----------------------------------------------------------------------------
Finished(p) == result[p] = "ERR_OK"

(* The run as KeyAgreement.tla sees it.                                    *)
Outcome(p) ==
  CASE result[p] = "running" -> "running"
    [] result[p] = "ERR_OK" -> "ok"
    [] OTHER -> "failed"
=============================================================================
