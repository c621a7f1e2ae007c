---------------------------- MODULE KeyAgreement ----------------------------
(***************************************************************************)
(* What a run of one of the bake protocols promises its two parties.  Each *)
(* party derives a key at most once and ends with it or with an error.  A  *)
(* party the other one has to confirm the key to ends well only when the   *)
(* other one has derived the same key.                                     *)
(***************************************************************************)
CONSTANTS
  Parties,       \* the two parties
  Keys,          \* the keys they may derive
  NoKey          \* not in Keys: a party has derived nothing yet

VARIABLES
  due,           \* the parties to whom the key has to be confirmed
  derived,       \* the key of each party
  result         \* "running", "ok" or "failed"

agreementVars == <<due, derived, result>>

Init ==
  /\ due \in SUBSET Parties
  /\ derived = [p \in Parties |-> NoKey]
  /\ result = [p \in Parties |-> "running"]

(* A key is derived; the check made in the same step may fail.             *)
Derive(p) ==
  /\ result[p] = "running" /\ derived[p] = NoKey
  /\ \E k \in Keys : derived' = [derived EXCEPT ![p] = k]
  /\ \E r \in {"running", "failed"} : result' = [result EXCEPT ![p] = r]
  /\ UNCHANGED due

Finish(p) ==
  /\ result[p] = "running" /\ derived[p] # NoKey
  /\ p \in due => \A r \in Parties : derived[r] = derived[p]
  /\ result' = [result EXCEPT ![p] = "ok"]
  /\ UNCHANGED <<due, derived>>

Fail(p) ==
  /\ result[p] = "running"
  /\ result' = [result EXCEPT ![p] = "failed"]
  /\ UNCHANGED <<due, derived>>

Next == \E p \in Parties : Derive(p) \/ Finish(p) \/ Fail(p)

Spec == Init /\ [][Next]_agreementVars
=============================================================================
