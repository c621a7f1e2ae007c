------------------------------ MODULE BtokPwd ------------------------------
(***************************************************************************)
(* The password automaton of a token: src/src/crypto/btok/btok_pwd.c.      *)
(*                                                                         *)
(* A token keeps the state of the PIN between sessions and, during a       *)
(* session, by which of the passwords PIN, CAN, PUK its user is            *)
(* authenticated.  btokPwdTransition() moves the two on an event; an event *)
(* it refuses (it returns FALSE) changes nothing and is not an action      *)
(* here.                                                                   *)
(*                                                                         *)
(* The states of the PIN are the numbers of the enumeration in btok.h: the *)
(* code counts tries by --state->pin and asks where the state lies.        *)
(***************************************************************************)
EXTENDS Integers

Puk0 == 0      \* puk0: terminated; puk1 ... puk9 are 1 ... 9
Puk1 == 1
Pin0 == 10     \* locked
Pin1 == 11     \* the last try
PinD == 12     \* deactivated
PinS == 13     \* suspended
Pin2 == 14
Pin3 == 15     \* operational
PinStates == Puk0 .. Pin3

Passwords == {"pin", "can", "puk"}

CONSTANT MaxActs     \* bound: activations of a PIN that is not made right

VARIABLES
  pin,       \* state->pin
  auth,      \* state->auth: a password, or "none"
  (* What happened, told by the events alone.                              *)
  misses,    \* wrong PINs since the PIN was last right or unlocked
  spent,     \* wrong PUKs, while it was locked, since then
  acts,      \* activations since then
  before,    \* misses and spent as they were at the last of these
  resumed,   \* the CAN was right after the last wrong PIN
  proved,    \* passwords that were right in this session and not wrong since
  dead       \* the PIN was locked for good

state == <<pin, auth>>
past == <<misses, spent, acts, before, resumed, proved, dead>>
vars == <<state, past>>

Never == [misses |-> 0, spent |-> 0]

Init ==
  /\ pin = Pin3 /\ auth = "none"
  /\ misses = 0 /\ spent = 0 /\ acts = 0 /\ before = Never
  /\ resumed = FALSE /\ proved = {} /\ dead = FALSE
-----------------------------------------------------------------------------

(* A wrong password ends the authentication by that password only.         *)
Drop(p) == IF auth = p THEN "none" ELSE auth

(* The states in which a PIN is taken at all.                              *)
Enterable == {Pin1, Pin2, Pin3}

(* The locked states from which a PUK brings the PIN back.                 *)
Unlockable == Puk1 .. Pin0

(* A right PIN and an unlocking give all the tries back.                   *)
Restored == misses' = 0 /\ spent' = 0 /\ acts' = 0 /\ before' = Never

PinOk ==
  /\ pin \in Enterable
  /\ pin' = Pin3 /\ auth' = "pin"
  /\ Restored /\ resumed' = FALSE /\ proved' = proved \cup {"pin"}
  /\ UNCHANGED dead

(* Faulty variant: the suspended state is stepped over.                    *)
PinBad_skips ==
  /\ pin \in Enterable
  /\ pin' = (IF pin = Pin2 THEN Pin1 ELSE pin - 1) /\ auth' = Drop("pin")
  /\ misses' = misses + 1 /\ resumed' = FALSE /\ proved' = proved \ {"pin"}
  /\ UNCHANGED <<spent, acts, before, dead>>

PinBad ==
  /\ pin \in Enterable
  /\ pin' = pin - 1 /\ auth' = Drop("pin")
  /\ misses' = misses + 1 /\ resumed' = FALSE /\ proved' = proved \ {"pin"}
  /\ UNCHANGED <<spent, acts, before, dead>>

CanOk ==
  /\ pin' = IF pin = PinS THEN Pin1 ELSE pin
  /\ auth' = "can"
  /\ resumed' = TRUE /\ proved' = proved \cup {"can"}
  /\ UNCHANGED <<misses, spent, acts, before, dead>>

CanBad ==
  /\ auth' = Drop("can")
  /\ proved' = proved \ {"can"}
  /\ UNCHANGED <<pin, misses, spent, acts, before, resumed, dead>>

(* The wrong tries made of those that the last activation left.            *)
Wrong == misses - before.misses
WrongPuk == spent - before.spent

(* A locked PIN with tries of the PUK left, as the events tell.            *)
Locked == pin # PinD /\ Wrong = 3 /\ WrongPuk < 10

PukOk ==
  /\ pin' = IF pin \in Unlockable THEN Pin3 ELSE pin
  /\ auth' = "puk"
  /\ IF Locked THEN Restored ELSE UNCHANGED <<misses, spent, acts, before>>
  /\ proved' = proved \cup {"puk"}
  /\ UNCHANGED <<resumed, dead>>

(* Faulty variant: the authentication by the PUK outlives a wrong one.     *)
PukBad_kept ==
  /\ pin' = IF pin \in Unlockable THEN pin - 1 ELSE pin
  /\ spent' = (IF Locked THEN spent + 1 ELSE spent)
  /\ dead' = (dead \/ (Locked /\ WrongPuk = 9))
  /\ proved' = proved \ {"puk"}
  /\ UNCHANGED <<auth, misses, acts, before, resumed>>

PukBad ==
  /\ pin' = IF pin \in Unlockable THEN pin - 1 ELSE pin
  /\ auth' = Drop("puk")
  /\ spent' = (IF Locked THEN spent + 1 ELSE spent)
  /\ dead' = (dead \/ (Locked /\ WrongPuk = 9))
  /\ proved' = proved \ {"puk"}
  /\ UNCHANGED <<misses, acts, before, resumed>>

(* Deactivation by the PIN ends the authentication, by the PUK it does not.*)
PinDeactivate ==
  /\ auth \in {"pin", "puk"}
  /\ pin' = PinD /\ auth' = Drop("pin")
  /\ proved' = proved \ {"pin"}
  /\ UNCHANGED <<misses, spent, acts, before, resumed, dead>>

(* The code makes the PIN operational, whatever it was before.             *)
PinActivate ==
  /\ acts < MaxActs
  /\ pin = PinD /\ auth = "puk"
  /\ pin' = Pin3
  /\ acts' = acts + 1 /\ before' = [misses |-> misses, spent |-> spent]
  /\ UNCHANGED <<auth, misses, spent, resumed, proved, dead>>

AuthClose ==
  /\ auth # "none"
  /\ auth' = "none"
  /\ proved' = {}
  /\ UNCHANGED <<pin, misses, spent, acts, before, resumed, dead>>

(* The token is taken out and put in again: btok.h keeps the state of the  *)
(* PIN and begins every session without authentication.                    *)
NewSession ==
  /\ auth' = "none" /\ proved' = {}
  /\ UNCHANGED <<pin, misses, spent, acts, before, resumed, dead>>

Next ==
  \/ PinOk \/ PinBad \/ PinDeactivate \/ PinActivate
  \/ CanOk \/ CanBad \/ PukOk \/ PukBad
  \/ AuthClose \/ NewSession

Spec == Init /\ [][Next]_vars
-----------------------------------------------------------------------------
TypeOK ==
  /\ pin \in PinStates /\ auth \in Passwords \cup {"none"}
  /\ misses \in Nat /\ spent \in Nat /\ acts \in Nat
  /\ before \in [misses : Nat, spent : Nat]
  /\ resumed \in BOOLEAN /\ dead \in BOOLEAN /\ proved \subseteq Passwords

(* How many tries an enemy without the PUK has.  The state of the PIN      *)
(* counts the wrong tries, whatever passwords and sessions come between    *)
(* them: three of the PIN, the last of them only after the CAN was given   *)
(* right since the second, and, of a locked PIN, ten of the PUK.  It       *)
(* counts them from the last time that the PIN was right, unlocked or      *)
(* activated.  btok.h says that an activation leaves the tries as they     *)
(* are; in the code it gives all of them again (LockedForever shows what   *)
(* comes of it), and never more than that, however often it is done.       *)
Tries ==
  /\ pin \in {Pin2, Pin3} => Wrong = Pin3 - pin
  /\ pin \in {PinS, Pin1} => Wrong = 2
  /\ pin = Pin1 => resumed
  /\ pin <= Pin0 => Wrong = 3 /\ WrongPuk = Pin0 - pin
  /\ misses <= 3 * (acts + 1) /\ spent <= 10 * (acts + 1)

(* A user is authenticated by a password only if it was right in this      *)
(* session and was not wrong since; by the PIN moreover only while it is   *)
(* operational and has all its tries.                                      *)
Authenticated ==
  /\ auth # "none" => auth \in proved
  /\ auth = "pin" => pin = Pin3

(* The wrong PINs that are still taken in a state; the PIN whose last try  *)
(* is suspended has it.                                                    *)
TriesLeft(p) ==
  CASE p = Pin3 -> 3
    [] p = Pin2 -> 2
    [] p \in {Pin1, PinS} -> 1
    [] OTHER -> 0

(* No step gives tries of the PIN but one of its owner, who has given, in  *)
(* this session and not wrong since, the PUK if none were left (the PIN    *)
(* was locked or deactivated) and the PIN itself otherwise.                *)
OwnerUnlocks ==
  [][TriesLeft(pin') > TriesLeft(pin) =>
       (IF TriesLeft(pin) = 0 THEN "puk" ELSE "pin") \in proved']_vars

(* btok.h: after ten wrong PUKs on a locked PIN the PIN is locked forever. *)
LockedForever == dead => pin = Puk0
=============================================================================
