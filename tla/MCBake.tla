------------------------------- MODULE MCBake -------------------------------
(* The protocols of key agreement over a group of five elements, l = 1.    *)
(* A behaviour shows one of them and leaves the others at rest.            *)
EXTENDS BakeBMQV

CONSTANTS Protocols, Levels, NR, MaxBlocks

ASSUME ProtocolsAssumption == Protocols \subseteq {"bmqv", "bsts", "bpace", "bauth"}

VARIABLES part, con, at, obj, line, code, blobs, slips

theirVars == <<con, at, obj, line, code, blobs, slips>>
all == <<part, bmqvVars, theirVars>>

BSTS == INSTANCE BakeBSTS WITH
  conf <- con, pc <- at, st <- obj, file <- line, result <- code,
  heap <- blobs, faults <- slips
BPACE == INSTANCE BakeBPACE WITH
  conf <- con, pc <- at, st <- obj, file <- line, result <- code,
  heap <- blobs, faults <- slips
BAUTH == INSTANCE BtokBAuth WITH
  conf <- con, pc <- at, st <- obj, file <- line, result <- code,
  heap <- blobs, faults <- slips

(* Numbers are drawn from 0 .. NR - 1, and the hash takes every nonce.      *)
ASSUME NoncesAssumption == NR \in Nat /\ BAUTH!Nonces \subseteq Xs

MCHashT == [xs \in Xs \X Xs |-> (xs[1] + 2 * xs[2]) % TwoL]
MCAllFlags == BOOLEAN \X BOOLEAN
-----------------------------------------------------------------------------
Rest == [p \in Parties |-> [d |-> 2, own |-> 2, peer |-> 2, kca |-> TRUE,
                            kcb |-> TRUE, hello |-> CHOOSE h \in Hellos : TRUE]]

(* How many of the disagreements given hold.  Parties of BPACE with other   *)
(* flags have the same password and hello, which of them is all the same.  *)
Some(claims) == Cardinality({i \in DOMAIN claims : claims[i]})
FlagsDiffer(c) == <<c["A"].kca # c["B"].kca, c["A"].kcb # c["B"].kcb>>
OneText(c) == \A p \in Parties : c[p].pwd = 0 /\ c[p].hello = Rest[p].hello
Strange(c) == <<c["A"].own # c["A"].d, c["B"].own # c["B"].d,
                c["A"].hello # c["B"].hello>>

MCInit ==
  /\ part \in Protocols
  /\ Init /\ (part # "bmqv" => conf = Rest)
  /\ CASE part = "bmqv" -> BSTS!LineInit /\ con = Rest
       [] part = "bsts" -> BSTS!Init /\ Some(Strange(con)) <= 1
                           /\ con["A"].blocks = con["B"].blocks
       [] part = "bpace" -> BPACE!Init
            /\ (Some(FlagsDiffer(con)) = 0 \/ OneText(con))
       [] part = "bauth" -> BAUTH!Init
            /\ Some(Strange(con) \o <<con["B"].certt # con["A"].own>>) <= 1

Theirs(p) ==
  \/ part = "bsts" /\ ((p = "A" /\ BSTS!RunA) \/ (p = "B" /\ BSTS!RunB))
  \/ part = "bpace" /\ ((p = "A" /\ BPACE!RunA) \/ (p = "B" /\ BPACE!RunB))
  \/ part = "bauth" /\ ((p = "A" /\ BAUTH!RunT) \/ (p = "B" /\ BAUTH!RunCT))

MCStep(p) ==
  \/ part = "bmqv" /\ Step(p) /\ UNCHANGED <<part, theirVars>>
  \/ Theirs(p) /\ UNCHANGED <<part, bmqvVars>>

MCNext == \E p \in Parties : MCStep(p)

MCSpec == MCInit /\ [][MCNext]_all /\ \A p \in Parties : WF_all(MCStep(p))
-----------------------------------------------------------------------------
(* A party that ends well and was to be shown the other one has the very   *)
(* key of its partner, and in BSTS, BPACE and BAUTH the hellos and the     *)
(* certificate of its partner, whatever the line did.                      *)
KeysConfirmed ==
  /\ part = "bmqv" => Confirmed
  /\ part = "bsts" => BSTS!OneKey
  /\ part = "bpace" => BPACE!OneKey
  /\ part = "bauth" => BAUTH!OneKey

(* Such a partner knows the password or owns the private key of its        *)
(* certificate, and the one-time points are of the same run.               *)
PartnersBound ==
  /\ part = "bsts" => BSTS!Bound
  /\ part = "bpace" => BPACE!Bound
  /\ part = "bauth" => BAUTH!Bound

(* Parties that were given what fits together (and use l = 128 in BAUTH)   *)
(* end well when nothing fails, with one key (in BSTS that it is one       *)
(* follows from KeysConfirmed).                                            *)
PartnersServed ==
  /\ part = "bmqv" => HonestAgree
  /\ part = "bsts" => BSTS!Honest
  /\ part = "bpace" => BPACE!Honest
  /\ part = "bauth" => BAUTH!HonestAt({128})

(* bakeBSTSRunA() and bakeBSTSRunB() close what they have made, whatever   *)
(* block of M2 or M3 the line or the certificate fails at; when the memory *)
(* ends in the middle of M2 or M3 they do not.                             *)
MemoryBack ==
  \A p \in Parties : at[p] = "end" /\ code[p] # "ERR_OUTOFMEMORY" => blobs[p] = {}

(* Every run ends, whoever fails and wherever, and whatever the parties    *)
(* have set: only a party that waits for a tag its partner was not told to *)
(* send, while the partner waits for the next message, waits for ever (in  *)
(* BMQV kca of B against kca of A, in BPACE kcb of A against kcb of B).    *)
EveryRunEnds ==
  <>(\/ \A p \in Parties : (IF part = "bmqv" THEN pc[p] ELSE at[p]) = "end"
     \/ part = "bmqv" /\ Deadlock
     \/ part = "bpace" /\ BPACE!Deadlock)
=============================================================================
