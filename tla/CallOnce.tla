------------------------------ MODULE CallOnce ------------------------------
(***************************************************************************)
(* One-time initialisation of bee2: mtCallOnce() of src/src/core/mt.c.     *)
(*                                                                         *)
(* Every lazily initialised part of the library (the generator rng, the    *)
(* destructor list of util, the timer frequency of tm) owns a trigger      *)
(* `once' and calls mtCallOnce(&once, fn).  The trigger is 0 before the    *)
(* first call, SIZE_MAX while fn runs and 1 afterwards.  Any number of     *)
(* threads may call concurrently; a thread that does not win the trigger   *)
(* spins on the compare-and-swap until the winner publishes 1.             *)
(***************************************************************************)
EXTENDS Naturals

CONSTANTS
  Threads,     \* the threads of the program
  SIZE_MAX     \* the largest size_t, the mark of a call in progress

ASSUME SizeMaxAssumption == SIZE_MAX \in Nat /\ SIZE_MAX > 1

VARIABLES
  once,        \* the trigger *once
  pc,          \* where each thread is inside mtCallOnce()
  old,         \* each thread's local t: the value its last swap returned
  begun,       \* how many times fn() was entered
  ended        \* how many times fn() returned

onceVars == <<once, pc, old, begun, ended>>

Places == {"idle", "cas", "test", "fn", "inFn", "publish", "ret"}

(* mtAtomicCmpSwap(): the whole swap is one atomic step.                   *)
CmpSwapped(ctr, cmp, swap) == IF ctr = cmp THEN swap ELSE ctr

Init ==
  /\ once = 0
  /\ pc = [t \in Threads |-> "idle"]
  /\ old = [t \in Threads |-> 0]
  /\ begun = 0
  /\ ended = 0

(* A thread enters mtCallOnce().                                           *)
Call(t) ==
  /\ pc[t] = "idle"
  /\ pc' = [pc EXCEPT ![t] = "cas"]
  /\ UNCHANGED <<once, old, begun, ended>>

(* Faulty variant: the trigger is read but not captured.                   *)
CmpSwap_noCapture(t) ==
  /\ pc[t] = "cas"
  /\ old' = [old EXCEPT ![t] = once]
  /\ pc' = [pc EXCEPT ![t] = "test"]
  /\ UNCHANGED <<once, begun, ended>>

(* t = mtAtomicCmpSwap(once, 0, SIZE_MAX).                                 *)
CmpSwap(t) ==
  /\ pc[t] = "cas"
  /\ once' = CmpSwapped(once, 0, SIZE_MAX)
  /\ old' = [old EXCEPT ![t] = once]
  /\ pc' = [pc EXCEPT ![t] = "test"]
  /\ UNCHANGED <<begun, ended>>

(* Faulty variant: the trigger is published before fn() is called.         *)
Captured_early(t) ==
  /\ pc[t] = "test"
  /\ old[t] = 0
  /\ once' = 1
  /\ pc' = [pc EXCEPT ![t] = "fn"]
  /\ UNCHANGED <<old, begun, ended>>

(* The swap found 0: this thread runs fn().                                *)
Captured(t) ==
  /\ pc[t] = "test"
  /\ old[t] = 0
  /\ pc' = [pc EXCEPT ![t] = "fn"]
  /\ UNCHANGED <<once, old, begun, ended>>

(* The swap found SIZE_MAX: another thread is inside fn(), try again.      *)
Spin(t) ==
  /\ pc[t] = "test"
  /\ old[t] = SIZE_MAX
  /\ pc' = [pc EXCEPT ![t] = "cas"]
  /\ UNCHANGED <<once, old, begun, ended>>

(* The swap found 1: fn() has run already.  The local is dead past this    *)
(* test, its dead value is 0.                                              *)
Found(t) ==
  /\ pc[t] = "test"
  /\ old[t] \notin {0, SIZE_MAX}
  /\ old' = [old EXCEPT ![t] = 0]
  /\ pc' = [pc EXCEPT ![t] = "ret"]
  /\ UNCHANGED <<once, begun, ended>>

(* fn() takes time: other threads move between its entry and its return.   *)
FnBegin(t) ==
  /\ pc[t] = "fn"
  /\ begun' = begun + 1
  /\ pc' = [pc EXCEPT ![t] = "inFn"]
  /\ UNCHANGED <<once, old, ended>>

FnEnd(t) ==
  /\ pc[t] = "inFn"
  /\ ended' = ended + 1
  /\ pc' = [pc EXCEPT ![t] = "publish"]
  /\ UNCHANGED <<once, old, begun>>

(* Faulty variant: the winner leaves the trigger in progress.              *)
Publish_lost(t) ==
  /\ pc[t] = "publish"
  /\ pc' = [pc EXCEPT ![t] = "ret"]
  /\ UNCHANGED <<once, old, begun, ended>>

(* The trigger becomes 1, a plain store after fn() has returned.           *)
Publish(t) ==
  /\ pc[t] = "publish"
  /\ once' = 1
  /\ pc' = [pc EXCEPT ![t] = "ret"]
  /\ UNCHANGED <<old, begun, ended>>

(* mtCallOnce() returns TRUE; the thread may call it again later.          *)
Return(t) ==
  /\ pc[t] = "ret"
  /\ pc' = [pc EXCEPT ![t] = "idle"]
  /\ UNCHANGED <<once, old, begun, ended>>

(* The steps of a call in progress, everything but the decision to call.   *)
Progress(t) ==
  \/ CmpSwap(t) \/ Captured(t) \/ Spin(t) \/ Found(t)
  \/ FnBegin(t) \/ FnEnd(t) \/ Publish(t) \/ Return(t)

Next == \E t \in Threads : Call(t) \/ Progress(t)

Spec == Init /\ [][Next]_onceVars

(* A thread inside the library keeps running under a preemptive scheduler; *)
(* nothing forces a thread to call.                                        *)
Fairness == \A t \in Threads : WF_onceVars(Progress(t))

FairSpec == Spec /\ Fairness

-----------------------------------------------------------------------------
(* Every variable stays in its range.                                      *)
TypeOK ==
  /\ once \in {0, 1, SIZE_MAX}
  /\ pc \in [Threads -> Places]
  /\ old \in [Threads -> {0, 1, SIZE_MAX}]
  /\ begun \in Nat
  /\ ended \in Nat

(* mt.h: "fn() is called exactly once even when several threads request    *)
(* the call concurrently".                                                 *)
ExactlyOnce == begun <= 1

(* A thread leaves mtCallOnce() only after the one run of fn() has         *)
(* returned, whichever thread ran it, and with the trigger at 1: this is   *)
(* what lets the callers of mtCallOnce() read what fn() wrote, and what    *)
(* its closing assertion (the trigger equals 1) says.                      *)
ReturnAfterFn == \A t \in Threads : pc[t] = "ret" => ended = 1 /\ once = 1

(* Every call of mtCallOnce() returns, the spinning ones too.              *)
CallReturns == \A t \in Threads : pc[t] = "cas" ~> pc[t] = "ret"
=============================================================================
