------------------------------- MODULE OnExit -------------------------------
(***************************************************************************)
(* The destructors of the library: utilOnExit(), utilOnExitInit() and      *)
(* utilOnExitRun() of src/src/core/util.c.                                 *)
(*                                                                         *)
(* Threads register functions; the first of them, through mtCallOnce(),    *)
(* makes the mutex and gives utilOnExitRun() to atexit().  At the end of   *)
(* the program exit() runs it in the thread that ends the program, while   *)
(* the destructors themselves may still register.                          *)
(* The trigger is one variable here, CallOnce.tla has its steps.           *)
(***************************************************************************)
EXTENDS Naturals, Sequences

CONSTANTS
  Threads,       \* the threads of the program
  Fns,           \* the functions they register
  Nested,        \* those of Fns that register when they are called at the end
  MaxRegs        \* how many registrations are explored

(* exit() runs utilOnExitRun(), and what the destructors call, as one more *)
(* thread.                                                                 *)
Exiter == "exit"
Actors == Threads \cup {Exiter}

VARIABLES
  once,          \* _once: "new", the thread inside, or "done"
  inited,        \* _inited
  mtx,           \* _mtx: "none", "free", "closed" or its owner
  fns,           \* *_fns, with the number of each registration
  pc,            \* where each thread is in utilOnExit()
  fn,            \* the function each thread registers
  phase,         \* "up", "running" utilOnExitRun(), "down"
  pos,           \* utilOnExitRun(): pos
  accepted,      \* registrations answered with TRUE, in the order of _fns
  atExit,        \* how many of them there were when exit() was called
  called,        \* destructors called, in order
  regs           \* registrations so far

onExitVars == <<once, inited, mtx, fns, pc, fn, phase, pos, accepted, atExit,
                called, regs>>

Init ==
  /\ once = "new" /\ inited = FALSE /\ mtx = "none"
  /\ fns = <<>>
  /\ pc = [t \in Actors |-> "out"]
  /\ fn = [t \in Actors |-> "none"]
  /\ phase = "up" /\ pos = 0
  /\ accepted = <<>> /\ atExit = 0 /\ called = <<>>
  /\ regs = 0
-----------------------------------------------------------------------------
Goto(t, label) == pc' = [pc EXCEPT ![t] = label]

UnchangedRun == UNCHANGED <<phase, pos, atExit, called>>

(* A call of utilOnExit(f): a thread at any time before exit(), a          *)
(* destructor when it is called.                                           *)
Enter(t, f) ==
  /\ pc[t] = "out" /\ regs < MaxRegs
  /\ phase = "up"
  /\ regs' = regs + 1
  /\ fn' = [fn EXCEPT ![t] = f]
  /\ Goto(t, "once")
  /\ UNCHANGED <<once, inited, mtx, fns, accepted>> /\ UnchangedRun

(* utilOnExitInit() by the thread that won: the mutex or atexit() may fail.*)
Won(t) ==
  /\ pc[t] = "once" /\ once = "new"
  /\ once' = t /\ Goto(t, "init")
  /\ UNCHANGED <<inited, mtx, fns, fn, accepted, regs>> /\ UnchangedRun

InitMtx(t) ==
  /\ pc[t] = "init"
  /\ \/ mtx' = "free" /\ Goto(t, "atexit") /\ UNCHANGED once
     \/ once' = "done" /\ Goto(t, "test") /\ UNCHANGED mtx
  /\ UNCHANGED <<inited, fns, fn, accepted, regs>> /\ UnchangedRun

InitAtExit(t) ==
  /\ pc[t] = "atexit"
  /\ \/ inited' = TRUE /\ UNCHANGED mtx
     \/ mtx' = "closed" /\ UNCHANGED inited
  /\ once' = "done" /\ Goto(t, "test")
  /\ UNCHANGED <<fns, fn, accepted, regs>> /\ UnchangedRun

Others(t) ==
  /\ pc[t] = "once" /\ once = "done"
  /\ Goto(t, "test")
  /\ UNCHANGED <<once, inited, mtx, fns, fn, accepted, regs>> /\ UnchangedRun

(* !_inited: FALSE is returned.                                            *)
Test(t) ==
  /\ pc[t] = "test"
  /\ Goto(t, IF inited THEN "lock" ELSE "out")
  /\ UNCHANGED <<once, inited, mtx, fns, fn, accepted, regs>> /\ UnchangedRun

Lock(t) ==
  /\ pc[t] = "lock" /\ mtx = "free"
  /\ mtx' = t /\ Goto(t, "read")
  /\ UNCHANGED <<once, inited, fns, fn, accepted, regs>> /\ UnchangedRun

(* blobResize(): the list grows by one place, or the memory is out.        *)
Resize(t) ==
  /\ pc[t] = "read"
  /\ \/ fns' = Append(fns, <<0, "none">>) /\ Goto(t, "put")
     \/ Goto(t, "fail") /\ UNCHANGED fns
  /\ UNCHANGED <<once, inited, mtx, fn, accepted, regs>> /\ UnchangedRun

(* The function goes to the last place.                                    *)
Put(t) ==
  /\ pc[t] = "put"
  /\ fns' = [fns EXCEPT ![Len(fns)] = <<Len(accepted) + 1, fn[t]>>]
  /\ accepted' = Append(accepted, fn[t])
  /\ Goto(t, "unlock")
  /\ UNCHANGED <<once, inited, mtx, fn, regs>> /\ UnchangedRun

(* Faulty variant: the failure returns with the mutex held.                *)
Unlock_held(t) ==
  /\ pc[t] \in {"unlock", "fail"}
  /\ mtx' = IF pc[t] = "fail" THEN mtx ELSE "free"
  /\ Goto(t, "out")
  /\ UNCHANGED <<once, inited, fns, fn, accepted, regs>> /\ UnchangedRun

Unlock(t) ==
  /\ pc[t] \in {"unlock", "fail"}
  /\ mtx' = "free" /\ Goto(t, "out")
  /\ UNCHANGED <<once, inited, fns, fn, accepted, regs>> /\ UnchangedRun
-----------------------------------------------------------------------------
(* exit(): without the handler nothing runs.  The threads have left        *)
(* utilOnExit() by then and do not come back.                              *)
Exit ==
  /\ phase = "up"
  /\ \A t \in Threads : pc[t] = "out"
  /\ phase' = IF inited THEN "running" ELSE "down"
  /\ pos' = Len(fns)
  /\ atExit' = Len(accepted)
  /\ UNCHANGED <<once, inited, mtx, fns, pc, fn, accepted, called, regs>>

(* Faulty variant: the list is run from its front.                         *)
RunNext_fifo ==
  /\ phase = "running" /\ pos > 0 /\ pc[Exiter] = "out"
  /\ LET f == fns[Len(called) + 1]
     IN /\ called' = Append(called, f)
        /\ pos' = pos - 1
        /\ IF f[2] \in Nested /\ regs < MaxRegs
           THEN regs' = regs + 1 /\ Goto(Exiter, "once")
                /\ fn' = [fn EXCEPT ![Exiter] = f[2]]
           ELSE UNCHANGED <<pc, fn, regs>>
  /\ UNCHANGED <<once, inited, mtx, fns, phase, accepted, atExit>>

(* The loop of utilOnExitRun(): _fns[pos]().  A function of Nested         *)
(* registers itself.                                                       *)
RunNext ==
  /\ phase = "running" /\ pos > 0 /\ pc[Exiter] = "out"
  /\ LET f == fns[pos]
     IN /\ called' = Append(called, f)
        /\ pos' = pos - 1
        /\ IF f[2] \in Nested /\ regs < MaxRegs
           THEN regs' = regs + 1 /\ Goto(Exiter, "once")
                /\ fn' = [fn EXCEPT ![Exiter] = f[2]]
           ELSE UNCHANGED <<pc, fn, regs>>
  /\ UNCHANGED <<once, inited, mtx, fns, phase, accepted, atExit>>

(* Faulty variant: the loop stops one place early.                         *)
RunEnd_early ==
  /\ phase = "running" /\ pos <= 1 /\ pc[Exiter] = "out"
  /\ fns' = <<>> /\ mtx' = "closed"
  /\ phase' = "down"
  /\ UNCHANGED <<once, inited, pc, fn, pos, accepted, atExit, called, regs>>

(* The list and the mutex are closed.                                      *)
RunEnd ==
  /\ phase = "running" /\ pos = 0 /\ pc[Exiter] = "out"
  /\ fns' = <<>> /\ mtx' = "closed"
  /\ phase' = "down"
  /\ UNCHANGED <<once, inited, pc, fn, pos, accepted, atExit, called, regs>>

Step(t) ==
  \/ Won(t) \/ InitMtx(t) \/ InitAtExit(t) \/ Others(t) \/ Test(t)
  \/ Lock(t) \/ Resize(t) \/ Put(t) \/ Unlock(t)

Run == RunNext \/ RunEnd

Next ==
  \/ \E t \in Threads, f \in Fns : Enter(t, f)
  \/ \E t \in Actors : Step(t)
  \/ Exit \/ Run

Spec == Init /\ [][Next]_onExitVars
-----------------------------------------------------------------------------
(* Properties.                                                             *)

(* Between two calls of the mutex the list holds just what was accepted:   *)
(* no place of it is lost, left empty or filled twice.                     *)
ListExact ==
  mtx = "free" /\ phase # "down" =>
    /\ Len(fns) = Len(accepted)
    /\ \A i \in 1 .. Len(fns) : fns[i] = <<i, accepted[i]>>

(* The calls at the end are the registrations from the last one down.      *)
Lifo ==
  \A i \in 1 .. Len(called) :
    /\ i <= atExit
    /\ called[i] = <<atExit + 1 - i, accepted[atExit + 1 - i]>>

(* The mutex is locked while it exists, by one thread at a time.           *)
MutexHeld ==
  \A t \in Actors :
    /\ pc[t] = "lock" => mtx \notin {"none", "closed"}
    /\ pc[t] \in {"read", "put", "unlock", "fail"} => mtx = t

(* A program that comes to exit() gets through its destructors, even when  *)
(* they register others.                                                   *)
ExitEnds == phase = "running" ~> phase = "down"

(* What was accepted before exit() has been called when the program ends.  *)
AllCalled == phase = "down" => Len(called) = atExit
=============================================================================
