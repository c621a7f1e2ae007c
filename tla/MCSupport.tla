----------------------------- MODULE MCSupport ------------------------------
(***************************************************************************)
(* What the rest of the library stands on: three threads race through      *)
(* mtCallOnce() on one trigger, or two threads and two destructors, one of *)
(* which registers again, go through utilOnExit() to the end of a program. *)
(* A behaviour shows one part and leaves the other at rest.                *)
(***************************************************************************)
EXTENDS CallOnce, Sequences

CONSTANTS
  Users,         \* the threads that register destructors
  Fns, Nested, MaxRegs

(* A thread is none of the marks the trigger and the mutex may bear, and   *)
(* the one in exit() is not counted among those that register.             *)
ASSUME UsersAssumption ==
  Users \cap {"exit", "none", "free", "closed", "new", "done"} = {}

VARIABLES
  part,          \* the part shown
  latch, place,  \* once and pc of OnExit
  inited, mtx, fns, fn, phase, pos, accepted, atExit, called, regs

AtEnd == INSTANCE OnExit WITH Threads <- Users, once <- latch, pc <- place

(* A size_t of 16 bits, the narrowest build the library knows.             *)
MCSizeMax == 65535

exitVars == <<latch, place, inited, mtx, fns, fn, phase, pos, accepted, atExit,
              called, regs>>
all == <<part, onceVars, exitVars>>

MCInit == part \in {"once", "exit"} /\ Init /\ AtEnd!Init

OnceStep(t) == part = "once" /\ Progress(t) /\ UNCHANGED <<part, exitVars>>
ExitStep(t) == part = "exit" /\ AtEnd!Step(t) /\ UNCHANGED <<part, onceVars>>
ExitRun == part = "exit" /\ AtEnd!Run /\ UNCHANGED <<part, onceVars>>

MCNext ==
  \/ part = "once" /\ Next /\ UNCHANGED <<part, exitVars>>
  \/ part = "exit" /\ AtEnd!Next /\ UNCHANGED <<part, onceVars>>

(* A thread inside the library runs on, and so does the one in exit().     *)
MCFairness ==
  /\ \A t \in Threads : WF_all(OnceStep(t))
  /\ \A t \in Users \cup {"exit"} : WF_all(ExitStep(t))
  /\ WF_all(ExitRun)
MCSpec == MCInit /\ [][MCNext]_all /\ MCFairness

-----------------------------------------------------------------------------
(* The list of destructors and its mutex are right between the calls, and  *)
(* the destructors run from the last registration down (util.c).           *)
ListLifo == AtEnd!ListExact /\ AtEnd!Lifo /\ AtEnd!MutexHeld

(* What was accepted before exit() has been called when the program ends.  *)
AllCalled == AtEnd!AllCalled

(* A program that comes to exit() gets through utilOnExitRun().            *)
ExitEnds == AtEnd!ExitEnds
=============================================================================
