--------------------------- MODULE SupportProofs ---------------------------
(***************************************************************************)
(* Proofs about what the rest of the library stands on.                    *)
(*                                                                         *)
(* CallOnce: for any set of threads, fn() runs exactly once and nobody     *)
(* leaves mtCallOnce() before it has run.                                  *)
(*                                                                         *)
(* OnExit, as MCSupport takes it in: for any threads, functions and number *)
(* of registrations, and whichever of the mutex, atexit() and the memory   *)
(* fail, the list holds what was accepted, exit() calls just that, from    *)
(* the last registration down, and a destructor that registers another one *)
(* does not disturb it.                                                    *)
(*                                                                         *)
(* Blob: for any addresses, sizes of pages and headers and any octets, a   *)
(* blob holds what was put into it, whatever the allocator does.           *)
(***************************************************************************)
EXTENDS MCSupport, Blob, SequenceTheorems, TLAPS

(* A thread that has won the trigger and has not published yet.            *)
Winner(t) ==
  \/ pc[t] = "test" /\ old[t] = 0
  \/ pc[t] \in {"fn", "inFn", "publish"}

(* The trigger tells how far the winner has come.                          *)
TriggerTells ==
  /\ once = 0 => begun = 0 /\ ended = 0
  /\ once = 1 => begun = 1 /\ ended = 1
  /\ once = SIZE_MAX <=> \E t \in Threads : Winner(t)

(* The winner's place tells how far fn() has come.                         *)
WinnerTells ==
  \A t \in Threads :
    /\ pc[t] = "test" /\ old[t] = 0 => begun = 0 /\ ended = 0
    /\ pc[t] = "fn" => begun = 0 /\ ended = 0
    /\ pc[t] = "inFn" => begun = 1 /\ ended = 0
    /\ pc[t] = "publish" => begun = 1 /\ ended = 1

OneWinner == \A s, t \in Threads : Winner(s) /\ Winner(t) => s = t

(* A thread whose swap found 1, or that has returned, has seen the end.    *)
SeenEnd ==
  \A t \in Threads :
    \/ pc[t] = "test" /\ old[t] = 1
    \/ pc[t] = "ret"
    => once = 1

IInv == TypeOK /\ TriggerTells /\ WinnerTells /\ OneWinner /\ SeenEnd

(* Every variable of mtCallOnce() keeps its range, for any set of threads. *)
THEOREM TypeCorrect == Spec => []TypeOK
<1>1. Init => TypeOK
  BY SizeMaxAssumption DEF Init, TypeOK, Places
<1>2. TypeOK /\ [Next]_onceVars => TypeOK'
  <2> SUFFICES ASSUME TypeOK, [Next]_onceVars
               PROVE TypeOK'
    OBVIOUS
  <2> USE SizeMaxAssumption DEF TypeOK, Places
  <2>1. ASSUME NEW t \in Threads, Call(t)
        PROVE TypeOK'
    BY <2>1 DEF Call
  <2>2. ASSUME NEW t \in Threads, CmpSwap(t)
        PROVE TypeOK'
    BY <2>2 DEF CmpSwap, CmpSwapped
  <2>3. ASSUME NEW t \in Threads, Captured(t) \/ Spin(t) \/ Found(t)
        PROVE TypeOK'
    BY <2>3 DEF Captured, Spin, Found
  <2>4. ASSUME NEW t \in Threads, FnBegin(t) \/ FnEnd(t)
        PROVE TypeOK'
    BY <2>4 DEF FnBegin, FnEnd
  <2>5. ASSUME NEW t \in Threads, Publish(t) \/ Return(t)
        PROVE TypeOK'
    BY <2>5 DEF Publish, Return
  <2>6. CASE UNCHANGED onceVars
    BY <2>6 DEF onceVars
  <2>7. QED
    BY <2>1, <2>2, <2>3, <2>4, <2>5, <2>6 DEF Next, Progress
<1>3. QED
  BY <1>1, <1>2, PTL DEF Spec

(* The strengthened invariant holds of every behaviour: the three marks    *)
(* of the trigger, the winner's progress and the run of fn() move together.*)
THEOREM Inductive == Spec => []IInv
<1>1. Init => IInv
  BY SizeMaxAssumption
  DEF Init, IInv, TypeOK, Places, TriggerTells, WinnerTells, OneWinner,
      SeenEnd, Winner
<1>2. IInv /\ [Next]_onceVars => IInv'
  <2> SUFFICES ASSUME IInv, [Next]_onceVars
               PROVE IInv'
    OBVIOUS
  <2> USE SizeMaxAssumption
          DEF IInv, TypeOK, Places, TriggerTells, WinnerTells, OneWinner,
              SeenEnd, Winner
  <2>1. ASSUME NEW t \in Threads, Call(t)
        PROVE IInv'
    BY <2>1 DEF Call
  <2>2. ASSUME NEW t \in Threads, CmpSwap(t)
        PROVE IInv'
    <3>1. CASE once = 0
      BY <2>2, <3>1 DEF CmpSwap, CmpSwapped
    <3>2. CASE once # 0
      BY <2>2, <3>2 DEF CmpSwap, CmpSwapped
    <3>3. QED
      BY <3>1, <3>2
  <2>3. ASSUME NEW t \in Threads, Captured(t)
        PROVE IInv'
    BY <2>3 DEF Captured
  <2>4. ASSUME NEW t \in Threads, Spin(t) \/ Found(t)
        PROVE IInv'
    BY <2>4 DEF Spin, Found
  <2>5. ASSUME NEW t \in Threads, FnBegin(t)
        PROVE IInv'
    BY <2>5 DEF FnBegin
  <2>6. ASSUME NEW t \in Threads, FnEnd(t)
        PROVE IInv'
    BY <2>6 DEF FnEnd
  <2>7. ASSUME NEW t \in Threads, Publish(t)
        PROVE IInv'
    BY <2>7 DEF Publish
  <2>8. ASSUME NEW t \in Threads, Return(t)
        PROVE IInv'
    BY <2>8 DEF Return
  <2>9. CASE UNCHANGED onceVars
    BY <2>9 DEF onceVars
  <2>10. QED
    BY <2>1, <2>2, <2>3, <2>4, <2>5, <2>6, <2>7, <2>8, <2>9
    DEF Next, Progress
<1>3. QED
  BY <1>1, <1>2, PTL DEF Spec

(* fn() is entered at most once, for any number of threads (mt.h).         *)
THEOREM CalledOnce == Spec => []ExactlyOnce
<1>1. IInv => ExactlyOnce
  BY DEF IInv, TypeOK, TriggerTells, WinnerTells, Winner, ExactlyOnce
<1>2. QED
  BY <1>1, Inductive, PTL

(* No thread leaves mtCallOnce() before fn() has returned, so what fn()    *)
(* wrote is there for all of them.                                         *)
THEOREM ReturnsAfter == Spec => []ReturnAfterFn
<1>1. IInv => ReturnAfterFn
  BY DEF IInv, TriggerTells, SeenEnd, ReturnAfterFn
<1>2. QED
  BY <1>1, Inductive, PTL

-----------------------------------------------------------------------------
(* The destructors: the inductive invariant of utilOnExit() and of         *)
(* utilOnExitRun().                                                        *)

Actors == Users \cup {"exit"}

Labels == {"out", "once", "init", "atexit", "test", "lock", "read", "put",
           "unlock", "fail"}

(* The places between mtMtxLock() and mtMtxUnlock().                       *)
Inside == {"read", "put", "unlock", "fail"}

ExitTypes ==
  /\ latch \in {"new", "done"} \cup Actors
  /\ inited \in BOOLEAN
  /\ mtx \in {"none", "free", "closed"} \cup Actors
  /\ place \in [Actors -> Labels]
  /\ phase \in {"up", "running", "down"}
  /\ pos \in Nat /\ atExit \in Nat
  /\ fns \in Seq(Nat \X (Fns \cup {"none"}))
  /\ fn \in [Actors -> Fns \cup {"none"}]
  /\ accepted \in Seq(Fns \cup {"none"})
  /\ called \in Seq(Nat \X (Fns \cup {"none"}))

(* One thread is in utilOnExitInit(), and _inited is up only after it.     *)
LatchTells ==
  /\ \A t \in Actors : place[t] \in {"init", "atexit"} <=> latch = t
  /\ \A t \in Actors : place[t] = "atexit" => mtx = "free"
  /\ inited => latch = "done"

(* The owner of the mutex is the thread between lock and unlock; nobody    *)
(* comes to the mutex before it is made or after it is closed.             *)
MutexTells ==
  /\ \A t \in Actors : place[t] \in Inside <=> mtx = t
  /\ mtx \in Actors => inited
  /\ inited /\ phase # "down" => mtx \in {"free"} \cup Actors
  /\ \A t \in Actors : place[t] = "lock" => inited

(* When exit() begins the threads have left and do not come back.          *)
PhaseTells ==
  /\ phase # "running" => place["exit"] = "out"
  /\ phase # "up" => \A t \in Users : place[t] = "out"
  /\ phase = "running" => inited

(* The list is what was accepted, and one empty place while a thread is    *)
(* about to fill it.                                                       *)
ListTells ==
  /\ ~inited => accepted = <<>> /\ fns = <<>>
  /\ phase # "down" =>
       /\ Len(fns) = IF \E t \in Actors : place[t] = "put"
                     THEN Len(accepted) + 1 ELSE Len(accepted)
       /\ \A i \in 1 .. Len(accepted) : fns[i] = <<i, accepted[i]>>

(* How far utilOnExitRun() has come down the list it began with.           *)
RunTells ==
  /\ phase = "up" => called = <<>> /\ pos = 0 /\ atExit = 0
  /\ phase # "up" => Len(called) + pos = atExit /\ atExit <= Len(accepted)
  /\ phase = "down" => pos = 0
  /\ \A i \in 1 .. Len(called) :
       called[i] = <<atExit + 1 - i, accepted[atExit + 1 - i]>>

ExitInv ==
  /\ ExitTypes /\ LatchTells /\ MutexTells /\ PhaseTells /\ ListTells
  /\ RunTells

(* What the steps of a thread that leave the list alone, and those of the  *)
(* other part, have in common.                                             *)
LEMMA ListStays ==
  ASSUME ExitInv, UNCHANGED <<fns, accepted, called, pos, atExit, phase>>,
         inited => inited',
         \A t \in Actors : place'[t] = "put" <=> place[t] = "put"
  PROVE  ListTells' /\ RunTells'
<1>1. RunTells'
  BY DEF ExitInv, RunTells
<1>2. ListTells'
  BY DEF ExitInv, ListTells
<1>3. QED
  BY <1>1, <1>2

(* No step of a thread inside utilOnExit() disturbs the invariant.         *)
LEMMA ThreadStep ==
  ASSUME ExitInv, NEW t \in Actors, AtEnd!Step(t)
  PROVE  ExitInv'
<1> USE UsersAssumption DEF Actors
<1>1. ExitTypes
  BY DEF ExitInv
<1>2. place[t] \in Labels \ {"out"} /\ phase # "down"
  <2>1. place[t] # "out" /\ place[t] \in Labels
    BY <1>1 DEF ExitTypes, Labels, AtEnd!Step, AtEnd!Won, AtEnd!InitMtx,
       AtEnd!InitAtExit, AtEnd!Others, AtEnd!Test, AtEnd!Lock, AtEnd!Resize,
       AtEnd!Put, AtEnd!Unlock
  <2>2. QED
    BY <2>1 DEF ExitInv, PhaseTells
<1>3. CASE AtEnd!Won(t)
  <2> USE <1>3 DEF AtEnd!Won, AtEnd!Goto, AtEnd!UnchangedRun
  <2>1. ExitTypes'
    BY <1>1 DEF ExitTypes, Labels
  <2>2. LatchTells'
    BY <1>1 DEF ExitInv, ExitTypes, LatchTells, MutexTells, Inside
  <2>3. MutexTells'
    BY <1>1 DEF ExitInv, ExitTypes, LatchTells, MutexTells, Inside
  <2>4. PhaseTells'
    BY <1>1, <1>2 DEF ExitInv, ExitTypes, PhaseTells
  <2>5. ListTells' /\ RunTells'
    BY <1>1, ListStays DEF ExitTypes
  <2>6. QED
    BY <2>1, <2>2, <2>3, <2>4, <2>5 DEF ExitInv
<1>4. CASE AtEnd!InitMtx(t)
  <2> USE <1>4 DEF AtEnd!InitMtx, AtEnd!Goto, AtEnd!UnchangedRun
  <2>1. ExitTypes'
    BY <1>1 DEF ExitTypes, Labels
  <2>2. LatchTells'
    BY <1>1 DEF ExitInv, ExitTypes, LatchTells, MutexTells, Inside
  <2>3. MutexTells'
    BY <1>1 DEF ExitInv, ExitTypes, LatchTells, MutexTells, Inside
  <2>4. PhaseTells'
    BY <1>1, <1>2 DEF ExitInv, ExitTypes, PhaseTells
  <2>5. ListTells' /\ RunTells'
    BY <1>1, ListStays DEF ExitTypes
  <2>6. QED
    BY <2>1, <2>2, <2>3, <2>4, <2>5 DEF ExitInv
<1>5. CASE AtEnd!InitAtExit(t)
  <2> USE <1>5 DEF AtEnd!InitAtExit, AtEnd!Goto, AtEnd!UnchangedRun
  <2>1. ExitTypes'
    BY <1>1 DEF ExitTypes, Labels
  <2>2. LatchTells'
    BY <1>1 DEF ExitInv, ExitTypes, LatchTells, MutexTells, Inside
  <2>3. MutexTells'
    BY <1>1 DEF ExitInv, ExitTypes, LatchTells, MutexTells, Inside
  <2>4. PhaseTells'
    BY <1>1, <1>2 DEF ExitInv, ExitTypes, PhaseTells
  <2>5. ListTells' /\ RunTells'
    BY <1>1, ListStays DEF ExitTypes
  <2>6. QED
    BY <2>1, <2>2, <2>3, <2>4, <2>5 DEF ExitInv
<1>6. CASE AtEnd!Others(t)
  <2> USE <1>6 DEF AtEnd!Others, AtEnd!Goto, AtEnd!UnchangedRun
  <2>1. ExitTypes'
    BY <1>1 DEF ExitTypes, Labels
  <2>2. LatchTells'
    BY <1>1 DEF ExitInv, ExitTypes, LatchTells, MutexTells, Inside
  <2>3. MutexTells'
    BY <1>1 DEF ExitInv, ExitTypes, LatchTells, MutexTells, Inside
  <2>4. PhaseTells'
    BY <1>1, <1>2 DEF ExitInv, ExitTypes, PhaseTells
  <2>5. ListTells' /\ RunTells'
    BY <1>1, ListStays DEF ExitTypes
  <2>6. QED
    BY <2>1, <2>2, <2>3, <2>4, <2>5 DEF ExitInv
<1>7. CASE AtEnd!Test(t)
  <2> USE <1>7 DEF AtEnd!Test, AtEnd!Goto, AtEnd!UnchangedRun
  <2>1. ExitTypes'
    BY <1>1 DEF ExitTypes, Labels
  <2>2. LatchTells'
    BY <1>1 DEF ExitInv, ExitTypes, LatchTells, MutexTells, Inside
  <2>3. MutexTells'
    BY <1>1 DEF ExitInv, ExitTypes, LatchTells, MutexTells, Inside
  <2>4. PhaseTells'
    BY <1>1, <1>2 DEF ExitInv, ExitTypes, PhaseTells
  <2>5. ListTells' /\ RunTells'
    BY <1>1, ListStays DEF ExitTypes
  <2>6. QED
    BY <2>1, <2>2, <2>3, <2>4, <2>5 DEF ExitInv
<1>8. CASE AtEnd!Lock(t)
  <2> USE <1>8 DEF AtEnd!Lock, AtEnd!Goto, AtEnd!UnchangedRun
  <2>1. ExitTypes'
    BY <1>1 DEF ExitTypes, Labels
  <2>2. LatchTells'
    BY <1>1 DEF ExitInv, ExitTypes, LatchTells, MutexTells, Inside
  <2>3. MutexTells'
    BY <1>1 DEF ExitInv, ExitTypes, LatchTells, MutexTells, Inside
  <2>4. PhaseTells'
    BY <1>1, <1>2 DEF ExitInv, ExitTypes, PhaseTells
  <2>5. ListTells' /\ RunTells'
    BY <1>1, ListStays DEF ExitTypes
  <2>6. QED
    BY <2>1, <2>2, <2>3, <2>4, <2>5 DEF ExitInv
<1>9. CASE AtEnd!Unlock(t)
  <2> USE <1>9 DEF AtEnd!Unlock, AtEnd!Goto, AtEnd!UnchangedRun
  <2>1. ExitTypes'
    BY <1>1 DEF ExitTypes, Labels
  <2>2. LatchTells'
    BY <1>1 DEF ExitInv, ExitTypes, LatchTells, MutexTells, Inside
  <2>3. MutexTells'
    BY <1>1 DEF ExitInv, ExitTypes, LatchTells, MutexTells, Inside
  <2>4. PhaseTells'
    BY <1>1, <1>2 DEF ExitInv, ExitTypes, PhaseTells
  <2>5. ListTells' /\ RunTells'
    BY <1>1, ListStays DEF ExitTypes
  <2>6. QED
    BY <2>1, <2>2, <2>3, <2>4, <2>5 DEF ExitInv
<1>10. CASE AtEnd!Resize(t)
  <2> USE <1>10 DEF AtEnd!Resize, AtEnd!Goto, AtEnd!UnchangedRun
  <2>0. /\ fns' \in Seq(Nat \X (Fns \cup {"none"}))
        /\ \A i \in 1 .. Len(fns) : fns'[i] = fns[i]
    <3> DEFINE Entry == Nat \X (Fns \cup {"none"})
    <3>1. fns \in Seq(Entry) /\ <<0, "none">> \in Entry
      BY <1>1 DEF ExitTypes
    <3> HIDE DEF Entry
    <3>2. /\ Append(fns, <<0, "none">>) \in Seq(Entry)
          /\ \A i \in 1 .. Len(fns) : Append(fns, <<0, "none">>)[i] = fns[i]
      BY <3>1, AppendProperties
    <3>3. fns' = Append(fns, <<0, "none">>) \/ fns' = fns
      OBVIOUS
    <3>4. QED
      BY <3>1, <3>2, <3>3 DEF Entry
  <2>1. ExitTypes'
    <3>1. place' \in [Actors -> Labels]
      BY <1>1 DEF ExitTypes, Labels
    <3>2. QED
      BY <1>1, <2>0, <3>1 DEF ExitTypes
  <2>2. LatchTells'
    BY <1>1 DEF ExitInv, ExitTypes, LatchTells, MutexTells, Inside
  <2>3. MutexTells'
    BY <1>1 DEF ExitInv, ExitTypes, LatchTells, MutexTells, Inside
  <2>4. PhaseTells'
    BY <1>1, <1>2 DEF ExitInv, ExitTypes, PhaseTells
  <2>5. RunTells'
    BY DEF ExitInv, RunTells
  <2>6. ListTells'
    <3>1. Len(fns) = Len(accepted) /\ ~ \E u \in Actors : place[u] = "put"
      BY <1>1, <1>2 DEF ExitInv, MutexTells, Inside, ListTells
    <3>2. inited
      BY DEF ExitInv, MutexTells, Inside
    <3>3. \A i \in 1 .. Len(accepted) : fns'[i] = fns[i]
      BY <2>0, <3>1
    <3>4. Len(fns') = IF \E u \in Actors : place'[u] = "put"
                     THEN Len(accepted) + 1 ELSE Len(accepted)
      BY <1>1, <3>1 DEF ExitTypes
    <3>5. QED
      BY <1>2, <3>2, <3>3, <3>4 DEF ExitInv, ListTells
  <2>7. QED
    BY <2>1, <2>2, <2>3, <2>4, <2>5, <2>6 DEF ExitInv
<1>11. CASE AtEnd!Put(t)
  <2> USE <1>11 DEF AtEnd!Put, AtEnd!Goto, AtEnd!UnchangedRun
  <2>1. /\ Len(fns) = Len(accepted) + 1 /\ inited
        /\ \A u \in Actors : place[u] = "put" => u = t
    BY <1>2 DEF ExitInv, MutexTells, Inside, ListTells
  <2>2. /\ accepted' \in Seq(Fns \cup {"none"})
        /\ Len(accepted') = Len(accepted) + 1
        /\ accepted'[Len(accepted) + 1] = fn[t]
        /\ \A i \in 1 .. Len(accepted) : accepted'[i] = accepted[i]
    BY <1>1 DEF ExitTypes
  <2>3. /\ fns' \in Seq(Nat \X (Fns \cup {"none"})) /\ Len(fns') = Len(fns)
        /\ fns'[Len(accepted) + 1] = <<Len(accepted) + 1, fn[t]>>
        /\ \A i \in 1 .. Len(accepted) : fns'[i] = fns[i]
    BY <1>1, <2>1, SMTT(40) DEF ExitTypes
  <2>4. ExitTypes'
    BY <1>1, <2>2, <2>3 DEF ExitTypes, Labels
  <2>5. LatchTells'
    BY <1>1 DEF ExitInv, ExitTypes, LatchTells, MutexTells, Inside
  <2>6. MutexTells'
    BY <1>1 DEF ExitInv, ExitTypes, LatchTells, MutexTells, Inside
  <2>7. PhaseTells'
    BY <1>1, <1>2 DEF ExitInv, ExitTypes, PhaseTells
  <2>8. ListTells'
    <3>1. ~ \E u \in Actors : place'[u] = "put"
      BY <1>1, <2>1 DEF ExitTypes
    <3>2. \A i \in 1 .. Len(accepted') : fns'[i] = <<i, accepted'[i]>>
      <4>1. Len(accepted) \in Nat
        BY <1>1 DEF ExitTypes
      <4>2. \A i \in 1 .. Len(accepted) : fns[i] = <<i, accepted[i]>>
        BY <1>2, SMTT(40) DEF ExitInv, ListTells
      <4>3. TAKE i \in 1 .. Len(accepted')
      <4>4. CASE i = Len(accepted) + 1
        BY <2>2, <2>3, <4>4, ZenonT(60)
      <4>5. CASE i # Len(accepted) + 1
        <5>1. i \in 1 .. Len(accepted)
          BY <2>2, <4>1, <4>3, <4>5
        <5>2. QED
          BY <2>2, <2>3, <4>2, <5>1
      <4>6. QED
        BY <4>4, <4>5
    <3>3. QED
      BY <1>1, <2>1, <2>2, <2>3, <3>1, <3>2 DEF ExitTypes, ListTells
  <2>9. RunTells'
    <3>1. CASE phase = "up"
      BY <3>1 DEF ExitInv, RunTells
    <3>2. CASE phase # "up"
      <4>1. /\ Len(accepted) \in Nat /\ Len(called) \in Nat
            /\ pos \in Nat /\ atExit \in Nat
        BY <1>1 DEF ExitTypes
      <4>2. /\ Len(called) + pos = atExit /\ atExit <= Len(accepted)
            /\ \A i \in 1 .. Len(called) :
                 called[i] = <<atExit + 1 - i, accepted[atExit + 1 - i]>>
        BY <3>2 DEF ExitInv, RunTells
      <4>3. \A i \in 1 .. Len(called) :
              accepted'[atExit + 1 - i] = accepted[atExit + 1 - i]
        <5>1. TAKE i \in 1 .. Len(called)
        <5>2. atExit + 1 - i \in 1 .. Len(accepted)
          BY <4>1, <4>2
        <5>3. QED
          BY <2>2, <5>2
      <4>4. atExit <= Len(accepted')
        BY <2>2, <4>1, <4>2
      <4>5. \A i \in 1 .. Len(called) :
              called[i] = <<atExit + 1 - i, accepted'[atExit + 1 - i]>>
        BY <4>2, <4>3
      <4>6. UNCHANGED <<phase, pos, atExit, called>>
        OBVIOUS
      <4> HIDE <1>11 DEF AtEnd!Put, AtEnd!Goto, AtEnd!UnchangedRun
      <4>7. QED
        BY <1>2, <3>2, <4>2, <4>4, <4>5, <4>6 DEF RunTells
    <3>3. QED
      BY <3>1, <3>2
  <2>10. QED
    BY <2>4, <2>5, <2>6, <2>7, <2>8, <2>9 DEF ExitInv
<1>12. QED
  BY <1>3, <1>4, <1>5, <1>6, <1>7, <1>8, <1>9, <1>10, <1>11 DEF AtEnd!Step

(* Entering utilOnExit() before exit() does not disturb it either.         *)
LEMMA EnterStep ==
  ASSUME ExitInv, NEW t \in Users, NEW f \in Fns, AtEnd!Enter(t, f)
  PROVE  ExitInv'
<1> USE UsersAssumption DEF Actors, AtEnd!Enter, AtEnd!Goto,
        AtEnd!UnchangedRun
<1>1. ExitTypes /\ place[t] = "out" /\ phase = "up"
  BY DEF ExitInv
<1>2. ExitTypes'
  BY <1>1 DEF ExitTypes, Labels
<1>3. LatchTells'
  BY <1>1 DEF ExitInv, ExitTypes, LatchTells, MutexTells, Inside
<1>4. MutexTells'
  BY <1>1 DEF ExitInv, ExitTypes, LatchTells, MutexTells, Inside
<1>5. PhaseTells'
  BY <1>1 DEF ExitInv, ExitTypes, PhaseTells
<1>6. ListTells' /\ RunTells'
  BY <1>1, ListStays DEF ExitTypes
<1>7. QED
  BY <1>2, <1>3, <1>4, <1>5, <1>6 DEF ExitInv

(* exit() begins with the whole list in front of it.                       *)
LEMMA ExitingStep ==
  ASSUME ExitInv, AtEnd!Exit
  PROVE  ExitInv'
<1> USE DEF AtEnd!Exit
<1>1. ExitTypes /\ phase = "up"
  BY DEF ExitInv
<1>2. \A t \in Actors : place[t] = "out"
  BY <1>1 DEF ExitInv, PhaseTells, Actors
<1>3. /\ Len(fns) = Len(accepted) /\ Len(accepted) \in Nat
      /\ called = <<>>
      /\ ~inited => Len(fns) = 0
  BY <1>1, <1>2 DEF ExitInv, ExitTypes, ListTells, RunTells
<1>4. ExitTypes'
  BY <1>1, <1>3 DEF ExitTypes
<1>5. LatchTells' /\ MutexTells' /\ PhaseTells'
  BY <1>1, <1>2
  DEF ExitInv, ExitTypes, LatchTells, MutexTells, PhaseTells, Inside, Actors
<1>6. ListTells'
  BY <1>1 DEF ExitInv, ListTells
<1>7. RunTells'
  BY <1>1, <1>3 DEF ExitTypes, RunTells
<1>8. QED
  BY <1>4, <1>5, <1>6, <1>7 DEF ExitInv

(* Each call of utilOnExitRun() goes one place down the list.              *)
LEMMA RunNextStep ==
  ASSUME ExitInv, AtEnd!RunNext
  PROVE  ExitInv'
<1> USE UsersAssumption DEF Actors
<1>1. /\ ExitTypes /\ phase = "running" /\ pos > 0
      /\ place["exit"] = "out" /\ inited
  BY DEF ExitInv, PhaseTells, AtEnd!RunNext, AtEnd!Exiter
<1>2. /\ called' = Append(called, fns[pos]) /\ pos' = pos - 1
      /\ UNCHANGED <<latch, inited, mtx, fns, phase, accepted, atExit>>
  BY DEF AtEnd!RunNext
<1>3. \/ UNCHANGED <<place, fn>>
      \/ /\ place' = [place EXCEPT !["exit"] = "once"]
         /\ fns[pos][2] \in Nested
         /\ fn' = [fn EXCEPT !["exit"] = fns[pos][2]]
  BY DEF AtEnd!RunNext, AtEnd!Goto, AtEnd!Exiter
<1>4. /\ Len(called) \in Nat /\ Len(accepted) \in Nat
      /\ pos \in Nat /\ atExit \in Nat
  BY <1>1 DEF ExitTypes
<1>5. Len(called) + pos = atExit /\ atExit <= Len(accepted)
  BY <1>1 DEF ExitInv, RunTells
<1>6. pos \in 1 .. Len(accepted) /\ Len(fns) = Len(accepted)
  <2>1. \A t \in Actors : place[t] # "put"
    BY <1>1 DEF ExitInv, PhaseTells
  <2>2. QED
    BY <1>1, <1>4, <1>5, <2>1 DEF ExitInv, ListTells
<1>7. fns[pos] = <<pos, accepted[pos]>>
  BY <1>1, <1>6 DEF ExitInv, ListTells
<1>8. /\ fns[pos] \in Nat \X (Fns \cup {"none"})
      /\ fns[pos][2] \in Fns \cup {"none"}
  BY <1>1, <1>6, <1>7 DEF ExitTypes
<1>9. /\ called' \in Seq(Nat \X (Fns \cup {"none"}))
      /\ Len(called') = Len(called) + 1
      /\ called'[Len(called) + 1] = fns[pos]
      /\ \A i \in 1 .. Len(called) : called'[i] = called[i]
  <2> DEFINE Entry == Nat \X (Fns \cup {"none"})
  <2>1. called \in Seq(Entry) /\ fns[pos] \in Entry
    BY <1>1, <1>8 DEF ExitTypes
  <2> HIDE DEF Entry
  <2>2. QED
    BY <1>2, <2>1, AppendProperties DEF Entry
<1>10. ExitTypes'
  <2>1. /\ place' \in [Actors -> Labels]
        /\ fn' \in [Actors -> Fns \cup {"none"}]
    BY <1>1, <1>3, <1>8 DEF ExitTypes, Labels
  <2>2. pos' \in Nat
    BY <1>1, <1>2, <1>4
  <2>3. QED
    BY <1>1, <1>2, <1>9, <2>1, <2>2 DEF ExitTypes
<1>11. LatchTells'
  BY <1>1, <1>2, <1>3 DEF ExitInv, ExitTypes, LatchTells
<1>12. MutexTells'
  BY <1>1, <1>2, <1>3 DEF ExitInv, ExitTypes, MutexTells, Inside
<1>13. PhaseTells'
  BY <1>1, <1>2, <1>3 DEF ExitInv, ExitTypes, PhaseTells
<1>14. ListTells'
  <2>1. \A t \in Actors : place'[t] = "put" <=> place[t] = "put"
    BY <1>1, <1>3 DEF ExitTypes
  <2>2. QED
    BY <1>2, <2>1 DEF ExitInv, ListTells
<1>15. RunTells'
  <2>1. \A i \in 1 .. Len(called) :
          called[i] = <<atExit + 1 - i, accepted[atExit + 1 - i]>>
    BY DEF ExitInv, RunTells
  <2>2. \A i \in 1 .. Len(called) + 1 :
          called'[i] = <<atExit + 1 - i, accepted[atExit + 1 - i]>>
    <3>1. TAKE i \in 1 .. Len(called) + 1
    <3>2. CASE i = Len(called) + 1
      <4>1. atExit + 1 - i = pos
        BY <1>4, <1>5, <3>2
      <4>2. QED
        BY <1>7, <1>9, <3>2, <4>1
    <3>3. CASE i # Len(called) + 1
      <4>1. i \in 1 .. Len(called)
        BY <1>4, <3>1, <3>3
      <4>2. QED
        BY <1>9, <2>1, <4>1
    <3>4. QED
      BY <3>2, <3>3
  <2>3. \A i \in 1 .. Len(called') :
          called'[i] = <<atExit' + 1 - i, accepted'[atExit' + 1 - i]>>
    BY <1>2, <1>9, <2>2
  <2>4. Len(called') + pos' = atExit' /\ atExit' <= Len(accepted')
    <3>1. /\ Len(called') = Len(called) + 1 /\ pos' = pos - 1
          /\ atExit' = atExit /\ Len(accepted') = Len(accepted)
      BY <1>2, <1>9
    <3>2. QED
      BY <1>4, <1>5, <3>1
  <2>5. phase' = "running"
    BY <1>1, <1>2
  <2>6. QED
    BY <2>3, <2>4, <2>5 DEF RunTells
<1>16. QED
  BY <1>10, <1>11, <1>12, <1>13, <1>14, <1>15 DEF ExitInv

(* The run ends when nothing is left of the list.                          *)
LEMMA RunEndStep ==
  ASSUME ExitInv, AtEnd!RunEnd
  PROVE  ExitInv'
<1> USE UsersAssumption DEF Actors, AtEnd!RunEnd, AtEnd!Exiter
<1>1. /\ ExitTypes /\ phase = "running" /\ pos = 0 /\ inited
      /\ \A t \in Actors : place[t] = "out"
  BY DEF ExitInv, PhaseTells
<1>2. ExitTypes'
  BY <1>1 DEF ExitTypes
<1>3. LatchTells' /\ MutexTells' /\ PhaseTells'
  BY <1>1
  DEF ExitInv, ExitTypes, LatchTells, MutexTells, PhaseTells, Inside
<1>4. ListTells' /\ RunTells'
  BY <1>1 DEF ExitInv, ListTells, RunTells
<1>5. QED
  BY <1>2, <1>3, <1>4 DEF ExitInv

(* The invariant of the destructors holds of every behaviour.              *)
THEOREM ExitInductive == MCSpec => []ExitInv
<1>1. ASSUME MCInit
      PROVE  ExitInv
  <2> USE UsersAssumption DEF Actors
  <2>1. /\ latch = "new" /\ inited = FALSE /\ mtx = "none" /\ fns = <<>>
        /\ place = [t \in Actors |-> "out"]
        /\ fn = [t \in Actors |-> "none"]
        /\ phase = "up" /\ pos = 0
        /\ accepted = <<>> /\ atExit = 0 /\ called = <<>>
    BY <1>1 DEF MCInit, AtEnd!Init, AtEnd!Actors, AtEnd!Exiter
  <2>2. ExitTypes
    <3>1. /\ place \in [Actors -> Labels]
          /\ fn \in [Actors -> Fns \cup {"none"}]
      BY <2>1 DEF Labels
    <3>2. /\ fns \in Seq(Nat \X (Fns \cup {"none"}))
          /\ called \in Seq(Nat \X (Fns \cup {"none"}))
          /\ accepted \in Seq(Fns \cup {"none"})
      BY <2>1, EmptySeq
    <3>3. QED
      BY <2>1, <3>1, <3>2 DEF ExitTypes
  <2>3. LatchTells /\ MutexTells /\ PhaseTells
    BY <2>1 DEF LatchTells, MutexTells, PhaseTells, Inside
  <2>4. ListTells /\ RunTells
    BY <2>1 DEF ListTells, RunTells
  <2>5. QED
    BY <2>2, <2>3, <2>4 DEF ExitInv
<1>2. ASSUME ExitInv, UNCHANGED exitVars
      PROVE  ExitInv'
  BY <1>2
  DEF exitVars, ExitInv, ExitTypes, LatchTells, MutexTells, PhaseTells,
      ListTells, RunTells
<1>3. ASSUME ExitInv, AtEnd!Next
      PROVE  ExitInv'
  BY <1>3, EnterStep, ThreadStep, ExitingStep, RunNextStep, RunEndStep
  DEF AtEnd!Next, AtEnd!Run, AtEnd!Actors, AtEnd!Exiter, Actors
<1>4. ExitInv /\ [MCNext]_all => ExitInv'
  <2>1. ASSUME [MCNext]_all
        PROVE  AtEnd!Next \/ UNCHANGED exitVars
    BY <2>1 DEF MCNext, all
  <2>2. QED
    BY <1>2, <1>3, <2>1
<1>5. QED
  BY <1>1, <1>4, PTL DEF MCSpec

(* Between two calls of the mutex the list holds just what was accepted,   *)
(* the destructors are called from the last registration down, and the     *)
(* mutex has one owner, for any number of threads and registrations.       *)
THEOREM ListLifoCorrect == MCSpec => []ListLifo
<1>1. ASSUME ExitInv
      PROVE  AtEnd!ListExact
  <2>1. ASSUME mtx = "free" /\ phase # "down"
        PROVE  \A t \in Actors : place[t] # "put"
    BY <1>1, <2>1, UsersAssumption
    DEF ExitInv, MutexTells, Inside, Actors
  <2>2. QED
    BY <1>1, <2>1 DEF ExitInv, ListTells, AtEnd!ListExact
<1>2. ASSUME ExitInv
      PROVE  AtEnd!Lifo
  <2>1. /\ Len(called) \in Nat /\ pos \in Nat /\ atExit \in Nat
        /\ phase = "up" => Len(called) = 0
    BY <1>2 DEF ExitInv, ExitTypes, RunTells
  <2>2. QED
    BY <1>2, <2>1 DEF ExitInv, RunTells, AtEnd!Lifo
<1>3. ASSUME ExitInv
      PROVE  AtEnd!MutexHeld
  <2>1. ASSUME NEW t \in Actors, place[t] = "lock"
        PROVE  mtx \notin {"none", "closed"}
    BY <1>3, <2>1, UsersAssumption
    DEF ExitInv, MutexTells, PhaseTells, Actors
  <2>2. QED
    BY <1>3, <2>1
    DEF ExitInv, MutexTells, Inside, Actors, AtEnd!MutexHeld,
        AtEnd!Actors, AtEnd!Exiter
<1>4. ExitInv => ListLifo
  BY <1>1, <1>2, <1>3 DEF ListLifo
<1>5. QED
  BY <1>4, ExitInductive, PTL

(* What was accepted before exit() has been called when the program ends,  *)
(* whatever failed and whatever the destructors registered meanwhile.      *)
THEOREM AllCalledCorrect == MCSpec => []AllCalled
<1>1. ExitInv => AllCalled
  BY DEF ExitInv, ExitTypes, RunTells, AllCalled, AtEnd!AllCalled
<1>2. QED
  BY <1>1, ExitInductive, PTL

-----------------------------------------------------------------------------
(***************************************************************************)
(* Blob: what descriptors lead to.                                         *)
(***************************************************************************)
Stuff == Octet \cup {0, Junk}
Pieces == [size : Nat, val : Seq(Stuff)]

BlobShapes ==
  /\ heap \in [Addr -> Pieces]
  /\ held \in [Owners -> Addr \cup {NULL}]
  /\ said \in [Owners -> Seq(Stuff)]

(* A block that is in use has the room of its size, and somebody holds it. *)
Roomy ==
  \A a \in Addr : heap[a] # Free =>
    heap[a].size > 0 /\ Len(heap[a].val) = Room(heap[a].size)
Owned == \A a \in Addr : heap[a] # Free <=> \E u \in Owners : held[u] = a
Apart == \A u, w \in Owners : u # w /\ held[u] = held[w] => held[u] = NULL
Told ==
  \A u \in Owners :
    /\ Len(said[u]) = blobSize(heap, held[u])
    /\ held[u] # NULL =>
         \A i \in 1 .. Len(said[u]) : said[u][i] = heap[held[u]].val[i]

BlobInv == BlobShapes /\ Roomy /\ Owned /\ Apart /\ Told

LEMMA WholePages ==
  ASSUME NEW m \in Nat, NEW p \in Nat, p > 0
  PROVE  (m \div p) * p \in Int /\ (m \div p) * p > m - p
<1>1. (m \div p) * p \in Int
  BY SMTT(30)
<1>2. (m \div p) * p > m - p
  BY SMTT(30)
<1> QED
  BY <1>1, <1>2

LEMMA RoomEnough ==
  ASSUME NEW n \in Nat
  PROVE  Room(n) \in Nat /\ Room(n) >= n
<1> DEFINE m == n + HeaderSize + PageSize - 1
           whole == (m \div PageSize) * PageSize
<1>1. m \in Nat /\ PageSize \in Nat /\ PageSize > 0
  BY BlobAssumption
<1>2. whole \in Int /\ whole > m - PageSize
  BY <1>1, WholePages
<1>3. Room(n) = whole - HeaderSize
  BY DEF Room, blobPageCount
<1> HIDE DEF whole
<1> QED
  BY <1>2, <1>3, BlobAssumption

LEMMA SeqOf ==
  ASSUME NEW n \in Nat, NEW S, NEW f \in [1 .. n -> S]
  PROVE  f \in Seq(S) /\ Len(f) = n
<1>1. f \in Seq(S)
  OBVIOUS
<1>2. DOMAIN f = 1 .. n /\ DOMAIN f = 1 .. Len(f) /\ Len(f) \in Nat
  BY <1>1
<1> QED
  BY <1>1, <1>2

(* What is known of the block a descriptor leads to.                       *)
LEMMA HeldBlock ==
  ASSUME BlobInv, NEW u \in Owners, held[u] # NULL
  PROVE  /\ held[u] \in Addr /\ heap[held[u]] # Free /\ heap[held[u]] \in Pieces
         /\ heap[held[u]].size \in Nat \ {0}
         /\ heap[held[u]].val \in Seq(Stuff)
         /\ Len(heap[held[u]].val) = Room(heap[held[u]].size)
         /\ Len(heap[held[u]].val) >= heap[held[u]].size
         /\ Len(said[u]) = heap[held[u]].size
<1>1. held[u] \in Addr
  BY DEF BlobInv, BlobShapes
<1>2. heap[held[u]] # Free
  BY <1>1 DEF BlobInv, Owned
<1>3. heap[held[u]] \in Pieces
  BY <1>1 DEF BlobInv, BlobShapes
<1>4. heap[held[u]].size \in Nat /\ heap[held[u]].val \in Seq(Stuff)
  BY <1>3 DEF Pieces
<1>5. heap[held[u]].size > 0 /\ Len(heap[held[u]].val) = Room(heap[held[u]].size)
  BY <1>1, <1>2 DEF BlobInv, Roomy
<1>6. Len(said[u]) = heap[held[u]].size
  BY DEF BlobInv, Told, blobSize
<1> QED
  BY <1>1, <1>2, <1>3, <1>4, <1>5, <1>6, RoomEnough

LEMMA HeldNothing ==
  ASSUME BlobInv, NEW u \in Owners
  PROVE  /\ Len(said[u]) = blobSize(heap, held[u]) /\ blobSize(heap, held[u]) \in Nat
         /\ said[u] \in Seq(Stuff)
         /\ held[u] = NULL <=> said[u] = <<>>
<1>1. said[u] \in Seq(Stuff) /\ Len(said[u]) = blobSize(heap, held[u])
  BY DEF BlobInv, BlobShapes, Told
<1>2. held[u] = NULL => Len(said[u]) = 0
  BY <1>1 DEF blobSize
<1>3. held[u] # NULL => Len(said[u]) > 0
  BY HeldBlock
<1>4. Len(said[u]) \in Nat /\ (Len(said[u]) = 0 <=> said[u] = <<>>)
  BY <1>1, EmptySeq
<1> QED
  BY <1>1, <1>2, <1>3, <1>4

(* What the functions may come back with: nothing, when there is no        *)
(* memory; nothing for nothing; or the block with what was wanted.         *)
Served(r, blob, n, v) ==
  /\ n > 0 /\ r.blob \in Vacant(heap) \cup ({blob} \ {NULL})
  /\ r.heap \in [Addr -> Pieces]
  /\ \A a \in Addr \ {blob, r.blob} : r.heap[a] = heap[a]
  /\ blob \notin {NULL, r.blob} => r.heap[blob] = Free
  /\ r.heap[r.blob].size = n /\ Len(r.heap[r.blob].val) = Room(n)
  /\ \A i \in 1 .. n : r.heap[r.blob].val[i] = v[i]
Outcome(r, blob, n, v) ==
  \/ r.blob = NULL /\ n # 0 /\ r.heap = heap
  \/ r.blob = NULL /\ n = 0 /\ r.heap = blobClose(heap, blob)
  \/ Served(r, blob, n, v)

LEMMA Closed ==
  ASSUME BlobInv, NEW u \in Owners, heap' = blobClose(heap, held[u]),
         held' = [held EXCEPT ![u] = NULL], said' = [said EXCEPT ![u] = <<>>]
  PROVE  BlobInv'
<1>0. CASE held[u] = NULL
  <2>1. heap' = heap /\ said[u] = <<>>
    BY <1>0, HeldNothing DEF blobClose
  <2>2. held' = held /\ said' = said
    BY <1>0, <2>1 DEF BlobInv, BlobShapes
  <2> QED
    BY <2>1, <2>2 DEF BlobInv, BlobShapes, Roomy, Owned, Apart, Told, Vacant, blobSize
<1>1. CASE held[u] # NULL
  <2>1. heap' = [heap EXCEPT ![held[u]] = Free] /\ held[u] \in Addr
    BY <1>1, HeldBlock DEF blobClose
  <2>2. Free \in Pieces /\ <<>> \in Seq(Stuff)
    BY DEF Free, Pieces
  <2>3. BlobShapes'
    BY <2>1, <2>2 DEF BlobInv, BlobShapes
  <2>4. Roomy'
    BY <2>1 DEF BlobInv, BlobShapes, Roomy
  <2>5. \A w \in Owners : w # u => held'[w] = held[w] /\ said'[w] = said[w] /\ held[w] # held[u]
    BY <1>1 DEF BlobInv, BlobShapes, Apart
  <2>6. held'[u] = NULL /\ said'[u] = <<>>
    BY DEF BlobInv, BlobShapes
  <2>7. Owned'
    <3> SUFFICES ASSUME NEW a \in Addr
                 PROVE  heap'[a] # Free <=> \E w \in Owners : held'[w] = a
      BY DEF Owned
    <3>1. CASE a = held[u]
      BY <3>1, <2>1, <2>5, <2>6, BlobAssumption DEF BlobInv, BlobShapes
    <3>2. CASE a # held[u]
      <4>1. heap'[a] = heap[a]
        BY <3>2, <2>1 DEF BlobInv, BlobShapes
      <4>2. (\E w \in Owners : held'[w] = a) <=> (\E w \in Owners : held[w] = a)
        BY <3>2, <2>5, <2>6, BlobAssumption
      <4> QED
        BY <4>1, <4>2 DEF BlobInv, Owned
    <3> QED
      BY <3>1, <3>2
  <2>8. Apart'
    BY <2>5, <2>6 DEF BlobInv, Apart
  <2>9. Told'
    <3> SUFFICES ASSUME NEW w \in Owners
                 PROVE  /\ Len(said'[w]) = blobSize(heap', held'[w])
                        /\ held'[w] # NULL =>
                             \A i \in 1 .. Len(said'[w]) : said'[w][i] = heap'[held'[w]].val[i]
      BY DEF Told, blobSize
    <3>1. CASE w = u
      BY <3>1, <2>6 DEF blobSize
    <3>2. CASE w # u
      <4>1. held[w] # NULL => heap'[held[w]] = heap[held[w]]
        BY <3>2, <2>1, <2>5 DEF BlobInv, BlobShapes
      <4> QED
        BY <3>2, <4>1, <2>5 DEF BlobInv, Told, blobSize
    <3> QED
      BY <3>1, <3>2
  <2> QED
    BY <2>3, <2>4, <2>7, <2>8, <2>9 DEF BlobInv
<1> QED
  BY <1>0, <1>1

LEMMA Placed ==
  ASSUME BlobInv, NEW u \in Owners, NEW n \in Nat, NEW v \in Seq(Stuff), Len(v) = n,
         NEW r, Served(r, held[u], n, v), heap' = r.heap,
         held' = [held EXCEPT ![u] = r.blob], said' = [said EXCEPT ![u] = v]
  PROVE  BlobInv'
<1>1. r.blob \in Addr /\ r.blob # NULL
  BY BlobAssumption DEF Served, Vacant, BlobInv, BlobShapes
<1>2. \A w \in Owners : w # u => held'[w] = held[w] /\ said'[w] = said[w]
  BY DEF BlobInv, BlobShapes
<1>3. held'[u] = r.blob /\ said'[u] = v
  BY DEF BlobInv, BlobShapes
<1>4. \A w \in Owners : w # u /\ held[w] # NULL =>
        /\ held[w] \in Addr /\ held[w] # held[u] /\ held[w] # r.blob
        /\ heap'[held[w]] = heap[held[w]]
  <2> SUFFICES ASSUME NEW w \in Owners, w # u, held[w] # NULL
               PROVE  /\ held[w] \in Addr /\ held[w] # held[u] /\ held[w] # r.blob
                      /\ heap'[held[w]] = heap[held[w]]
    OBVIOUS
  <2>1. held[w] \in Addr /\ heap[held[w]] # Free
    BY HeldBlock
  <2>2. held[w] # held[u]
    BY DEF BlobInv, Apart
  <2>3. held[w] # r.blob
    BY <2>1, <2>2 DEF Served, Vacant
  <2> QED
    BY <2>1, <2>2, <2>3 DEF Served
<1>5. BlobShapes'
  BY <1>1 DEF BlobInv, BlobShapes, Served
<1>6. r.heap[r.blob] # Free
  BY DEF Served, Free
<1>7. Roomy'
  <2> SUFFICES ASSUME NEW a \in Addr, heap'[a] # Free
               PROVE  heap'[a].size > 0 /\ Len(heap'[a].val) = Room(heap'[a].size)
    BY DEF Roomy, Room, blobPageCount
  <2>1. CASE a = r.blob
    BY <2>1 DEF Served
  <2>2. CASE a # r.blob
    <3>1. heap'[a] = heap[a] \/ a = held[u]
      BY <2>2 DEF Served
    <3>2. a # held[u]
      BY <2>2, BlobAssumption DEF Served
    <3> QED
      BY <3>1, <3>2 DEF BlobInv, Roomy
  <2> QED
    BY <2>1, <2>2
<1>8. Owned'
  <2> SUFFICES ASSUME NEW a \in Addr
               PROVE  heap'[a] # Free <=> \E w \in Owners : held'[w] = a
    BY DEF Owned
  <2>1. CASE a = r.blob
    BY <2>1, <1>3, <1>6
  <2>2. CASE a # r.blob /\ a = held[u]
    <3>1. heap'[a] = Free
      BY <2>2, BlobAssumption DEF Served
    <3>2. \A w \in Owners : held'[w] # a
      BY <2>2, <1>2, <1>3, <1>4, BlobAssumption
    <3> QED
      BY <3>1, <3>2
  <2>3. CASE a # r.blob /\ a # held[u]
    <3>1. heap'[a] = heap[a]
      BY <2>3 DEF Served
    <3>2. (\E w \in Owners : held'[w] = a) <=> (\E w \in Owners : held[w] = a)
      BY <2>3, <1>2, <1>3
    <3> QED
      BY <3>1, <3>2 DEF BlobInv, Owned
  <2> QED
    BY <2>1, <2>2, <2>3
<1>9. Apart'
  BY <1>1, <1>2, <1>3, <1>4 DEF BlobInv, Apart
<1>10. Told'
  <2> SUFFICES ASSUME NEW w \in Owners
               PROVE  /\ Len(said'[w]) = blobSize(heap', held'[w])
                      /\ held'[w] # NULL =>
                           \A i \in 1 .. Len(said'[w]) : said'[w][i] = heap'[held'[w]].val[i]
    BY DEF Told, blobSize
  <2>1. CASE w = u
    BY <2>1, <1>1, <1>3 DEF blobSize, Served
  <2>2. CASE w # u
    BY <2>2, <1>2, <1>4 DEF BlobInv, Told, blobSize
  <2> QED
    BY <2>1, <2>2
<1> QED
  BY <1>5, <1>7, <1>8, <1>9, <1>10 DEF BlobInv

(* A new block: all its octets are zero.                                   *)
LEMMA Created ==
  ASSUME BlobInv, NEW n \in Nat, NEW r \in blobCreate(heap, n), NEW v, Len(v) = n,
         \A i \in 1 .. n : v[i] = 0
  PROVE  Outcome(r, NULL, n, v)
<1>1. CASE n = 0
  BY <1>1 DEF blobCreate, Outcome, blobClose
<1>2. CASE n # 0
  <2>1. PICK a \in memAlloc(heap) :
          r = [heap |-> IF a = NULL THEN heap ELSE [heap EXCEPT ![a] = Fresh(n)], blob |-> a]
    BY <1>2 DEF blobCreate
  <2>2. CASE a = NULL
    BY <1>2, <2>1, <2>2 DEF Outcome
  <2>3. CASE a # NULL
    <3>1. a \in Vacant(heap) /\ a \in Addr
      BY <2>3 DEF memAlloc, Vacant
    <3> DEFINE f == [i \in 1 .. Room(n) |-> IF i <= n THEN 0 ELSE Junk]
    <3>2. Room(n) \in Nat /\ Room(n) >= n
      BY RoomEnough
    <3>3. f \in [1 .. Room(n) -> Stuff]
      BY DEF Stuff
    <3>4. f \in Seq(Stuff) /\ Len(f) = Room(n)
      BY <3>2, <3>3, SeqOf
    <3>5. \A i \in 1 .. n : f[i] = 0
      BY <3>2
    <3>6. Fresh(n) = [size |-> n, val |-> f]
      BY DEF Fresh
    <3> HIDE DEF f
    <3>7. Fresh(n) \in Pieces
      BY <3>4, <3>6 DEF Pieces
    <3>8. r.blob = a /\ r.heap = [heap EXCEPT ![a] = Fresh(n)]
      BY <2>1, <2>3
    <3>9. r.heap \in [Addr -> Pieces] /\ r.heap[a] = Fresh(n)
      BY <3>1, <3>7, <3>8 DEF BlobInv, BlobShapes
    <3>10. \A b \in Addr \ {a} : r.heap[b] = heap[b]
      BY <3>8 DEF BlobInv, BlobShapes
    <3>11. Served(r, NULL, n, v)
      BY <1>2, <3>1, <3>4, <3>5, <3>6, <3>8, <3>9, <3>10 DEF Served
    <3> QED
      BY <3>11 DEF Outcome
  <2> QED
    BY <2>2, <2>3
<1> QED
  BY <1>1, <1>2

(* A block that changes its size: the octets that fit are kept, those that *)
(* are added are zero, wherever the block moved.                           *)
LEMMA ResizedRight ==
  ASSUME BlobInv, NEW u \in Owners, NEW n \in Nat, NEW r \in blobResize(heap, held[u], n)
  PROVE  Outcome(r, held[u], n, Resized(said[u], n))
<1> DEFINE v == Resized(said[u], n)
<1>1. /\ said[u] \in Seq(Stuff) /\ Len(said[u]) \in Nat
      /\ \A i \in 1 .. Len(said[u]) : said[u][i] \in Stuff
  BY HeldNothing
<1>2. v \in [1 .. n -> Stuff] /\ \A i \in 1 .. n : v[i] = IF i <= Len(said[u]) THEN said[u][i] ELSE 0
  BY <1>1 DEF Resized, Stuff
<1>3. v \in Seq(Stuff) /\ Len(v) = n
  BY <1>2, SeqOf
<1> HIDE DEF v
<1>4. CASE held[u] = NULL
  <2>1. Len(said[u]) = 0
    BY <1>4, HeldNothing
  <2>2. \A i \in 1 .. n : v[i] = 0
    BY <1>2, <2>1
  <2>3. r \in blobCreate(heap, n)
    BY <1>4 DEF blobResize
  <2> QED
    BY <1>3, <1>4, <2>2, <2>3, Created DEF v
<1>5. CASE held[u] # NULL /\ n = 0
  BY <1>5 DEF blobResize, Outcome
<1>6. CASE held[u] # NULL /\ n # 0
  <2> DEFINE c == held[u]
             was == heap[held[u]]
             kept == [i \in 1 .. Room(n) |-> IF i <= Len(was.val) THEN was.val[i] ELSE Junk]
             moves == IF Room(was.size) = Room(n) THEN {[heap |-> heap, at |-> c]}
                      ELSE memRealloc(heap, c, Room(n))
             Sized(b) == [size |-> n,
                          val |-> [i \in DOMAIN b.val |->
                                     IF i > was.size /\ i <= n THEN 0 ELSE b.val[i]]]
  <2>1. PICK m \in moves :
          r = [heap |-> IF m.at = NULL THEN m.heap ELSE [m.heap EXCEPT ![m.at] = Sized(@)],
               blob |-> m.at]
    BY <1>6 DEF blobResize
  <2>2. /\ c \in Addr /\ was # Free /\ was \in Pieces
        /\ was.size \in Nat \ {0} /\ was.val \in Seq(Stuff)
        /\ Len(was.val) = Room(was.size) /\ Len(was.val) >= was.size
        /\ Len(said[u]) = was.size
    BY <1>6, HeldBlock
  <2>3. Room(n) \in Nat /\ Room(n) >= n
    BY RoomEnough
  <2>4. Len(was.val) \in Nat /\ \A i \in 1 .. Len(was.val) : was.val[i] \in Stuff
    BY <2>2
  <2>5. \A i \in 1 .. was.size : said[u][i] = was.val[i]
    BY <1>6, <2>2 DEF BlobInv, Told
  <2>6. heap \in [Addr -> Pieces]
    BY DEF BlobInv, BlobShapes
  (* The block before its added octets are cleared.                        *)
  <2>7. CASE m.at # NULL
    <3>1. /\ m.at \in Vacant(heap) \cup {c} /\ m.at \in Addr
          /\ m.heap \in [Addr -> [size : Nat, val : Seq(Stuff)]]
          /\ \A a \in Addr \ {c, m.at} : m.heap[a] = heap[a]
          /\ c # m.at => m.heap[c] = Free
          /\ Len(m.heap[m.at].val) = Room(n)
          /\ \A i \in 1 .. n : i <= was.size => m.heap[m.at].val[i] = was.val[i]
      <4>1. CASE Room(was.size) = Room(n)
        <5>1. m.heap = heap /\ m.at = c
          BY <4>1
        <5> QED
          BY <5>1, <4>1, <2>2, <2>6 DEF Pieces
      <4>2. CASE Room(was.size) # Room(n)
        <5>1. m \in memRealloc(heap, c, Room(n))
          BY <4>2
        <5> DEFINE new == [size |-> heap[c].size, val |-> kept]
        <5>2. PICK b \in Vacant(heap) \cup {c} :
                m = [heap |-> [[heap EXCEPT ![c] = Free] EXCEPT ![b] = new], at |-> b]
          BY <5>1, <2>7 DEF memRealloc
        <5>3. kept \in [1 .. Room(n) -> Stuff]
          BY <2>4 DEF Stuff
        <5>4. kept \in Seq(Stuff) /\ Len(kept) = Room(n)
          BY <5>3, <2>3, SeqOf
        <5>5. \A i \in 1 .. n : i <= was.size => kept[i] = was.val[i]
          BY <2>2, <2>3, <2>4
        <5> HIDE DEF kept
        <5>6. b \in Addr
          BY <2>2 DEF Vacant
        <5>7. new \in Pieces /\ Free \in Pieces /\ new.val = kept
          BY <5>4, <2>2 DEF Pieces, Free
        <5> HIDE DEF new
        <5>8. m.at = b /\ m.heap = [[heap EXCEPT ![c] = Free] EXCEPT ![b] = new]
          BY <5>2
        <5> HIDE DEF c
        <5>9. /\ m.heap \in [Addr -> Pieces] /\ m.heap[b] = new
              /\ \A a \in Addr \ {c, b} : m.heap[a] = heap[a]
              /\ c # b => m.heap[c] = Free
          BY <5>6, <5>7, <5>8, <2>2, <2>6
        <5> QED
          BY <5>2, <5>4, <5>5, <5>6, <5>7, <5>8, <5>9 DEF Pieces
      <4> QED
        BY <4>1, <4>2
    <3> DEFINE d == m.at
               w == m.heap[d].val
               f == [i \in DOMAIN w |-> IF i > was.size /\ i <= n THEN 0 ELSE w[i]]
    <3>2. w \in Seq(Stuff) /\ Len(w) = Room(n) /\ DOMAIN w = 1 .. Room(n)
      BY <3>1
    <3>3. f \in [1 .. Room(n) -> Stuff]
      BY <3>2, <2>3 DEF Stuff
    <3>4. f \in Seq(Stuff) /\ Len(f) = Room(n)
      BY <3>3, <2>3, SeqOf
    <3>5. \A i \in 1 .. n : f[i] = v[i]
      BY <3>1, <3>2, <2>2, <2>3, <2>5, <1>2, SMTT(40)
    <3>6. r.blob = d /\ r.heap = [m.heap EXCEPT ![d] = [size |-> n, val |-> f]]
      BY <2>1, <2>7
    <3> HIDE DEF f, w
    <3>7. [size |-> n, val |-> f] \in Pieces
      BY <3>4 DEF Pieces
    <3>8. /\ r.heap \in [Addr -> Pieces] /\ r.heap[d] = [size |-> n, val |-> f]
          /\ \A a \in Addr \ {d} : r.heap[a] = m.heap[a]
      BY <3>1, <3>6, <3>7 DEF Pieces
    <3>9. Served(r, c, n, v)
      <4>1. r.heap[d].size = n /\ r.heap[d].val = f
        BY <3>8
      <4>2. \A i \in 1 .. n : r.heap[d].val[i] = v[i]
        BY <4>1, <3>5
      <4>3. r.blob = d /\ d \in Vacant(heap) \cup ({c} \ {NULL})
        BY <2>7, <3>1, <3>6
      <4> HIDE DEF kept, moves, Sized
      <4>4. c \notin {NULL, d} => r.heap[c] = Free
        BY <2>2, <3>1, <3>8
      <4>5. \A a \in Addr \ {c, d} : r.heap[a] = heap[a]
        BY <3>1, <3>8
      <4> QED
        BY <1>6, <3>4, <3>8, <4>1, <4>2, <4>3, <4>4, <4>5 DEF Served
    <3> QED
      BY <3>9 DEF Outcome, v
  <2>8. CASE m.at = NULL
    <3>1. m.heap = heap
      <4>1. Room(was.size) # Room(n)
        BY <2>8, <2>2, BlobAssumption
      <4> QED
        BY <4>1, <2>8, <2>2, BlobAssumption DEF memRealloc, Vacant
    <3> QED
      BY <3>1, <2>1, <2>8, <1>6 DEF Outcome
  <2> QED
    BY <2>7, <2>8
<1> QED
  BY <1>4, <1>5, <1>6

LEMMA ResizedShape ==
  ASSUME NEW b, NEW n, NEW r \in blobResize(heap, b, n)
  PROVE  \E g, c : r = [heap |-> g, blob |-> c]
BY DEF blobResize, blobCreate

(* A copy: the octets of the source, in a block of its own.                *)
LEMMA CopiedRight ==
  ASSUME BlobInv, NEW u \in Owners, NEW w \in Owners, held[u] # held[w],
         NEW r \in blobCopy(heap, held[u], held[w])
  PROVE  Outcome(r, held[u], blobSize(heap, held[w]), said[w])
<1> DEFINE n == blobSize(heap, held[w])
           c == held[u]
           Filled(s) ==
             IF s.blob = NULL THEN s
             ELSE [s EXCEPT !.heap[s.blob].val =
                     [i \in DOMAIN @ |-> IF i <= n THEN heap[held[w]].val[i] ELSE @[i]]]
<1>1. /\ n \in Nat /\ Len(said[w]) = n /\ said[w] \in Seq(Stuff)
      /\ \A i \in 1 .. n : said[w][i] \in Stuff
  BY HeldNothing
<1>2. PICK s \in blobResize(heap, c, n) : r = Filled(s)
  BY DEF blobCopy
<1>3. Outcome(s, c, n, Resized(said[u], n))
  BY <1>1, <1>2, ResizedRight
<1>4. CASE s.blob = NULL
  <2>1. r = s
    BY <1>2, <1>4
  <2>2. s.blob \notin Vacant(heap) \cup ({c} \ {NULL})
    BY <1>4, BlobAssumption DEF Vacant
  <2>3. ~Served(s, c, n, Resized(said[u], n))
    BY <2>2 DEF Served
  <2> QED
    BY <1>3, <1>4, <2>1, <2>3 DEF Outcome
<1>5. CASE s.blob # NULL
  <2> DEFINE d == s.blob
             was == s.heap[d]
             f == [i \in DOMAIN was.val |->
                     IF i <= n THEN heap[held[w]].val[i] ELSE was.val[i]]
  <2>1. Served(s, c, n, Resized(said[u], n))
    BY <1>3, <1>5 DEF Outcome
  <2>2. /\ n > 0 /\ d \in Vacant(heap) \cup ({c} \ {NULL}) /\ d \in Addr
        /\ s.heap \in [Addr -> Pieces] /\ was \in Pieces
    BY <2>1 DEF Served, Vacant, BlobInv, BlobShapes
  <2>3. held[w] # NULL /\ \A i \in 1 .. n : heap[held[w]].val[i] = said[w][i]
    <3>1. held[w] # NULL
      BY <2>2 DEF blobSize
    <3> QED
      BY <1>1, <3>1 DEF BlobInv, Told
  <2>4. /\ was.val \in Seq(Stuff) /\ Len(was.val) = Room(n) /\ was.size = n
        /\ DOMAIN was.val = 1 .. Room(n)
    BY <2>1, <2>2 DEF Served, Pieces
  <2>5. Room(n) \in Nat /\ Room(n) >= n
    BY <1>1, RoomEnough
  <2> HIDE DEF n
  <2>6. f \in [1 .. Room(n) -> Stuff]
    BY <1>1, <2>3, <2>4, <2>5
  <2>7. f \in Seq(Stuff) /\ Len(f) = Room(n)
    BY <2>5, <2>6, SeqOf
  <2>8. \A i \in 1 .. n : f[i] = said[w][i]
    BY <1>1, <2>3, <2>4, <2>5
  <2>9. r = [s EXCEPT !.heap = [s.heap EXCEPT ![d] = [was EXCEPT !.val = f]]]
    BY <1>2, <1>5
  <2> HIDE DEF f
  <2>10. [was EXCEPT !.val = f] = [size |-> n, val |-> f]
    BY <2>2, <2>4 DEF Pieces
  <2>11. \E g, b : s = [heap |-> g, blob |-> b]
    BY <1>2, ResizedShape DEF n
  <2>12. r.blob = d /\ r.heap = [s.heap EXCEPT ![d] = [size |-> n, val |-> f]]
    BY <2>9, <2>10, <2>11
  <2>13. [size |-> n, val |-> f] \in Pieces
    BY <1>1, <2>7 DEF Pieces
  <2>14. /\ r.heap \in [Addr -> Pieces] /\ r.heap[d] = [size |-> n, val |-> f]
         /\ \A a \in Addr \ {d} : r.heap[a] = s.heap[a]
    BY <2>2, <2>12, <2>13
  <2>15. Served(r, c, n, said[w])
    <3>1. r.heap[d].size = n /\ r.heap[d].val = f
      BY <2>14
    <3>2. \A i \in 1 .. n : r.heap[d].val[i] = said[w][i]
      BY <3>1, <2>8
    <3>3. c \notin {NULL, d} => r.heap[c] = Free
      BY <2>1, <2>14 DEF Served, BlobInv, BlobShapes
    <3>4. \A a \in Addr \ {c, d} : r.heap[a] = heap[a]
      BY <2>1, <2>14 DEF Served
    <3> QED
      BY <2>2, <2>7, <2>12, <2>14, <3>1, <3>2, <3>3, <3>4 DEF Served
  <2> QED
    BY <2>15 DEF Outcome, n
<1> QED
  BY <1>4, <1>5

(* What comes back is what the user then keeps and believes to be there.   *)
LEMMA Answered ==
  ASSUME BlobInv, NEW u \in Owners, NEW n \in Nat, NEW v \in Seq(Stuff), Len(v) = n,
         NEW r, Outcome(r, held[u], n, v), heap' = r.heap,
         held' = [held EXCEPT ![u] = Kept(u, r, n)],
         said' = IF r.blob = NULL /\ n # 0 THEN said ELSE [said EXCEPT ![u] = v]
  PROVE  BlobInv'
<1>1. CASE r.blob = NULL /\ n # 0
  <2>1. heap' = heap /\ said' = said
    BY <1>1, BlobAssumption DEF Outcome, Served, Vacant
  <2>2. held' = held
    BY <1>1 DEF Kept, BlobInv, BlobShapes
  <2> QED
    BY <2>1, <2>2 DEF BlobInv, BlobShapes, Roomy, Owned, Apart, Told, blobSize
<1>2. CASE r.blob = NULL /\ n = 0
  <2>1. heap' = blobClose(heap, held[u])
    BY <1>2 DEF Outcome, Served
  <2>2. v = <<>>
    BY <1>2, EmptySeq
  <2> QED
    BY <1>2, <2>1, <2>2, Closed DEF Kept
<1>3. CASE r.blob # NULL
  <2>1. Served(r, held[u], n, v)
    BY <1>3 DEF Outcome
  <2> QED
    BY <1>3, <2>1, Placed DEF Kept
<1> QED
  BY <1>1, <1>2, <1>3

LEMMA ResizeKeeps ==
  ASSUME BlobInv, NEW u \in Owners, NEW n \in Nat, Resize(u, n)
  PROVE  BlobInv'
<1> DEFINE v == Resized(said[u], n)
<1>1. PICK r \in blobResize(heap, held[u], n) :
        /\ heap' = r.heap /\ held' = [held EXCEPT ![u] = Kept(u, r, n)]
        /\ said' = IF r.blob = NULL /\ n # 0 THEN said ELSE [said EXCEPT ![u] = Resized(@, n)]
  BY DEF Resize
<1>2. said \in [Owners -> Seq(Stuff)] /\ said[u] \in Seq(Stuff)
  BY DEF BlobInv, BlobShapes
<1>3. \A i \in 1 .. Len(said[u]) : said[u][i] \in Stuff
  BY <1>2
<1>4. v \in [1 .. n -> Stuff]
  BY <1>2, <1>3 DEF Resized, Stuff
<1>5. v \in Seq(Stuff) /\ Len(v) = n
  BY <1>4, SeqOf
<1>6. Outcome(r, held[u], n, v)
  BY <1>1, ResizedRight
<1>7. [said EXCEPT ![u] = Resized(@, n)] = [said EXCEPT ![u] = v]
  BY <1>2
<1> HIDE DEF v
<1> QED
  BY <1>1, <1>5, <1>6, <1>7, Answered

LEMMA CopyKeeps ==
  ASSUME BlobInv, NEW u \in Owners, NEW w \in Owners, Copy(u, w)
  PROVE  BlobInv'
<1> DEFINE n == blobSize(heap, held[w])
<1>1. PICK r \in blobCopy(heap, held[u], held[w]) :
        /\ heap' = r.heap /\ held' = [held EXCEPT ![u] = Kept(u, r, n)]
        /\ said' = IF r.blob = NULL /\ n # 0 THEN said ELSE [said EXCEPT ![u] = said[w]]
  BY DEF Copy
<1>2. n \in Nat /\ said[w] \in Seq(Stuff) /\ Len(said[w]) = n
  BY HeldNothing
<1>3. CASE held[u] # held[w]
  <2>1. Outcome(r, held[u], n, said[w])
    BY <1>1, <1>3, CopiedRight
  <2> HIDE DEF n
  <2> QED
    BY <1>1, <1>2, <2>1, Answered
<1>4. CASE held[u] = held[w]
  <2>1. r = [heap |-> heap, blob |-> held[u]]
    BY <1>1, <1>4 DEF blobCopy
  <2>2. said[w] = said[u]
    <3>1. u # w => held[u] = NULL /\ held[w] = NULL
      BY <1>4 DEF BlobInv, Apart
    <3> QED
      BY <3>1, HeldNothing
  <2>3. heap' = heap /\ held' = held /\ said' = said
    BY <1>1, <2>1, <2>2 DEF Kept, BlobInv, BlobShapes
  <2> QED
    BY <2>3 DEF BlobInv, BlobShapes, Roomy, Owned, Apart, Told, blobSize
<1> QED
  BY <1>3, <1>4

(* A block that keeps its size and gets other octets in its contents.      *)
LEMMA RewrittenKeeps ==
  ASSUME BlobInv, NEW u \in Owners, held[u] # NULL, NEW f, NEW v,
         f \in [1 .. Len(heap[held[u]].val) -> Stuff],
         v \in [1 .. Len(said[u]) -> Stuff],
         \A i \in 1 .. Len(said[u]) : v[i] = f[i],
         heap' = [heap EXCEPT ![held[u]].val = f], held' = held,
         said' = [said EXCEPT ![u] = v]
  PROVE  BlobInv'
<1> DEFINE c == held[u]
           n == heap[c].size
<1>1. /\ c \in Addr /\ heap[c] # Free /\ heap[c] \in Pieces /\ n \in Nat \ {0}
      /\ Len(heap[c].val) = Room(n) /\ Len(heap[c].val) >= n /\ Len(said[u]) = n
  BY HeldBlock
<1>2. f \in Seq(Stuff) /\ Len(f) = Room(n) /\ v \in Seq(Stuff) /\ Len(v) = n
  BY <1>1, RoomEnough, SeqOf
<1>3. [heap[c] EXCEPT !.val = f] = [size |-> n, val |-> f]
  BY <1>1 DEF Pieces
<1>4. heap' = [heap EXCEPT ![c] = [size |-> n, val |-> f]]
  BY <1>3
<1>5. [size |-> n, val |-> f] \in Pieces /\ [size |-> n, val |-> f] # Free
  BY <1>1, <1>2 DEF Pieces, Free
<1>6. /\ heap \in [Addr -> Pieces] /\ heap'[c] = [size |-> n, val |-> f]
      /\ \A a \in Addr \ {c} : heap'[a] = heap[a]
  BY <1>1, <1>4 DEF BlobInv, BlobShapes
<1>7. \A w \in Owners : w # u => said'[w] = said[w] /\ (held[w] # NULL => held[w] # c)
  BY DEF BlobInv, BlobShapes, Apart
<1>8. said'[u] = v
  BY DEF BlobInv, BlobShapes
<1>9. BlobShapes'
  BY <1>1, <1>2, <1>4, <1>5 DEF BlobInv, BlobShapes
<1>10. Roomy'
  BY <1>1, <1>2, <1>6 DEF BlobInv, Roomy
<1>11. Owned'
  BY <1>1, <1>5, <1>6 DEF BlobInv, Owned
<1>12. Apart'
  BY DEF BlobInv, Apart
<1>13. Told'
  <2> SUFFICES ASSUME NEW w \in Owners
               PROVE  /\ Len(said'[w]) = blobSize(heap', held[w])
                      /\ held[w] # NULL =>
                           \A i \in 1 .. Len(said'[w]) : said'[w][i] = heap'[held[w]].val[i]
    BY DEF Told, blobSize
  <2>1. CASE w = u
    BY <2>1, <1>1, <1>2, <1>6, <1>8 DEF blobSize
  <2>2. CASE w # u
    <3>1. held[w] # NULL => held[w] \in Addr /\ heap'[held[w]] = heap[held[w]]
      BY <2>2, <1>6, <1>7, HeldBlock
    <3> QED
      BY <2>2, <1>7, <3>1 DEF BlobInv, Told, blobSize
  <2> QED
    BY <2>1, <2>2
<1> QED
  BY <1>9, <1>10, <1>11, <1>12, <1>13 DEF BlobInv

LEMMA WipeKeeps ==
  ASSUME BlobInv, NEW u \in Owners, Wipe(u)
  PROVE  BlobInv'
<1> DEFINE c == held[u]
           w == heap[c].val
           f == [i \in DOMAIN w |-> IF Within(heap[c], i) THEN Junk ELSE w[i]]
           v == Fill(Len(said[u]), Junk)
<1>1. c # NULL
  BY DEF Wipe
<1>2. /\ c \in Addr /\ heap[c].size \in Nat /\ w \in Seq(Stuff) /\ Len(w) >= heap[c].size
      /\ Len(said[u]) = heap[c].size
  BY <1>1, HeldBlock
<1>3. DOMAIN w = 1 .. Len(w) /\ \A i \in 1 .. Len(w) : w[i] \in Stuff
  BY <1>2
<1>4. f \in [1 .. Len(w) -> Stuff]
  BY <1>3 DEF Stuff
<1>5. v \in [1 .. Len(said[u]) -> Stuff]
  BY DEF Fill, Stuff
<1>6. \A i \in 1 .. Len(said[u]) : v[i] = f[i]
  BY <1>2, <1>3 DEF Fill, Within
<1>7. heap' = [heap EXCEPT ![c].val = f]
  BY <1>1 DEF Wipe, blobWipe
<1>8. said' = [said EXCEPT ![u] = v] /\ held' = held
  BY DEF Wipe
<1> HIDE DEF f, v
<1> QED
  BY <1>1, <1>4, <1>5, <1>6, <1>7, <1>8, RewrittenKeeps

LEMMA WriteKeeps ==
  ASSUME BlobInv, NEW u \in Owners, NEW k \in 1 .. MaxSize, NEW o \in Octet, Write(u, k, o)
  PROVE  BlobInv'
<1> DEFINE c == held[u]
           w == heap[c].val
           f == [w EXCEPT ![k] = o]
           v == [said[u] EXCEPT ![k] = o]
<1>1. k \in Nat \ {0} /\ k <= Len(said[u])
  BY BlobAssumption DEF Write
<1>2. said[u] \in Seq(Stuff) /\ c # NULL
  <2>1. said[u] \in Seq(Stuff) /\ Len(said[u]) > 0
    BY <1>1, HeldNothing
  <2> QED
    BY <2>1, HeldNothing
<1>3. /\ c \in Addr /\ heap[c].size \in Nat /\ w \in Seq(Stuff) /\ Len(w) >= heap[c].size
      /\ Len(said[u]) = heap[c].size
  BY <1>2, HeldBlock
<1>4. o \in Stuff
  BY DEF Stuff
<1>5. f \in [1 .. Len(w) -> Stuff]
  <2> HIDE DEF w
  <2>1. w \in [1 .. Len(w) -> Stuff]
    BY <1>3
  <2> QED
    BY <1>4, <2>1
<1>6. v \in [1 .. Len(said[u]) -> Stuff]
  <2>1. said[u] \in [1 .. Len(said[u]) -> Stuff]
    BY <1>2
  <2> QED
    BY <1>4, <2>1
<1>7. \A i \in 1 .. Len(said[u]) : said[u][i] = w[i]
  BY <1>2 DEF BlobInv, Told
<1>8. \A i \in 1 .. Len(said[u]) : v[i] = f[i]
  BY <1>2, <1>3, <1>7
<1>9. heap' = [heap EXCEPT ![c].val = f]
  BY DEF Write
<1>10. said' = [said EXCEPT ![u] = v] /\ held' = held
  BY DEF Write
<1> HIDE DEF f, v
<1> QED
  BY <1>2, <1>5, <1>6, <1>8, <1>9, <1>10, RewrittenKeeps

(* What descriptors lead to, for any memory, sizes of pages and headers    *)
(* and octets: the inductive invariant.                                    *)
THEOREM BlobInductive == BlobSpec => []BlobInv
<1>1. BlobInit => BlobInv
  <2> SUFFICES ASSUME BlobInit PROVE BlobInv
    OBVIOUS
  <2>1. Free \in Pieces /\ <<>> \in Seq(Stuff)
    BY DEF Free, Pieces
  <2>2. BlobShapes
    BY <2>1 DEF BlobInit, BlobShapes
  <2>3. Owned
    BY BlobAssumption DEF BlobInit, Owned
  <2> QED
    BY <2>2, <2>3 DEF BlobInit, BlobInv, Roomy, Apart, Told, blobSize
<1>2. BlobInv /\ [BlobNext]_blobVars => BlobInv'
  <2> SUFFICES ASSUME BlobInv, [BlobNext]_blobVars PROVE BlobInv'
    OBVIOUS
  <2>1. ASSUME NEW u \in Owners, NEW n \in 0 .. MaxSize, Resize(u, n) PROVE BlobInv'
    BY <2>1, ResizeKeeps, BlobAssumption
  <2>2. ASSUME NEW u \in Owners, NEW w \in Owners, Copy(u, w) PROVE BlobInv'
    BY <2>2, CopyKeeps
  <2>3. ASSUME NEW u \in Owners, Close(u) PROVE BlobInv'
    BY <2>3, Closed DEF Close
  <2>4. ASSUME NEW u \in Owners, Wipe(u) PROVE BlobInv'
    BY <2>4, WipeKeeps
  <2>5. ASSUME NEW u \in Owners, NEW k \in 1 .. MaxSize, NEW o \in Octet, Write(u, k, o)
        PROVE BlobInv'
    BY <2>5, WriteKeeps
  <2>6. CASE UNCHANGED blobVars
    BY <2>6 DEF blobVars, BlobInv, BlobShapes, Roomy, Owned, Apart, Told, blobSize
  <2> QED
    BY <2>1, <2>2, <2>3, <2>4, <2>5, <2>6 DEF BlobNext
<1> QED
  BY <1>1, <1>2, PTL DEF BlobSpec

(* blobEq() and blobCmp() see exactly what was put into the blobs.         *)
LEMMA ContentsSaid ==
  ASSUME BlobInv, NEW u \in Owners
  PROVE  Contents(heap, held[u]) = said[u]
<1>1. CASE held[u] = NULL
  BY <1>1, HeldNothing DEF Contents
<1>2. CASE held[u] # NULL
  <2> DEFINE w == heap[held[u]].val
             n == heap[held[u]].size
  <2>1. n \in Nat /\ w \in Seq(Stuff) /\ Len(w) >= n /\ Len(said[u]) = n
    BY <1>2, HeldBlock
  <2>2. said[u] \in Seq(Stuff)
    BY HeldNothing
  <2>3. \A i \in 1 .. n : said[u][i] = w[i]
    BY <1>2, <2>1 DEF BlobInv, Told
  <2> HIDE DEF w, n
  <2>4. /\ SubSeq(w, 1, n) \in Seq(Stuff) /\ Len(SubSeq(w, 1, n)) = n
        /\ \A i \in 1 .. n : SubSeq(w, 1, n)[i] = w[i]
    BY <2>1
  <2>5. SubSeq(w, 1, n) = said[u]
    BY <2>1, <2>2, <2>3, <2>4, SeqEqual
  <2> QED
    BY <1>2, <2>5 DEF Contents, w, n
<1> QED
  BY <1>1, <1>2

(* Whatever is resized, copied or cannot be allocated: a descriptor leads  *)
(* to what its user has put there, grown with zeros; descriptors share no  *)
(* block, no block is lost, each has the room its size asks for, and       *)
(* blobEq() and blobCmp() tell the contents apart (blob.c).                *)
THEOREM BlobsKeptCorrect == BlobSpec => []BlobsKept
<1>1. BlobInv => BlobsKept
  <2> SUFFICES ASSUME BlobInv PROVE BlobsKept
    OBVIOUS
  <2>0. Owners = {"x", "y"}
    BY DEF Owners
  <2>1. \A u \in Owners : Contents(heap, held[u]) = said[u]
    BY ContentsSaid
  <2>2. \A u \in Owners : (held[u] = NULL) <=> (said[u] = <<>>)
    BY HeldNothing
  <2>3. held["x"] # NULL => held["x"] # held["y"]
    BY <2>0 DEF BlobInv, Apart
  <2>4. {a \in Addr : heap[a] # Free} = {held[u] : u \in Owners} \ {NULL}
    BY BlobAssumption DEF BlobInv, BlobShapes, Owned
  <2>5. \A a \in Addr : heap[a] # Free => Len(heap[a].val) = Room(heap[a].size)
    BY DEF BlobInv, Roomy
  <2>6. blobEq(heap, held["x"], held["y"]) = (said["x"] = said["y"])
    <3>1. /\ Contents(heap, held["x"]) = said["x"] /\ Contents(heap, held["y"]) = said["y"]
          /\ blobSize(heap, held["x"]) = Len(said["x"])
          /\ blobSize(heap, held["y"]) = Len(said["y"])
      BY <2>0, <2>1, HeldNothing
    <3> QED
      BY <3>1 DEF blobEq
  <2>7. (blobCmp(heap, held["x"], held["y"]) = 0) = (said["x"] = said["y"])
    <3> DEFINE v1 == said["x"]
               v2 == said["y"]
               d == {i \in 1 .. Len(v1) : v1[i] # v2[i]}
               first == CHOOSE i \in d : \A j \in d : i <= j
    <3>1. /\ Contents(heap, held["x"]) = v1 /\ Contents(heap, held["y"]) = v2
          /\ v1 \in Seq(Stuff) /\ v2 \in Seq(Stuff)
      BY <2>0, <2>1, HeldNothing
    <3>2. blobCmp(heap, held["x"], held["y"]) =
            IF Len(v1) # Len(v2) THEN IF Len(v1) < Len(v2) THEN -1 ELSE 1
            ELSE IF d = {} THEN 0 ELSE IF v1[first] < v2[first] THEN -1 ELSE 1
      BY <3>1 DEF blobCmp
    <3>3. v1 = v2 <=> Len(v1) = Len(v2) /\ d = {}
      BY <3>1, SeqEqual
    <3> HIDE DEF v1, v2, d, first
    <3>4. (blobCmp(heap, held["x"], held["y"]) = 0) <=> Len(v1) = Len(v2) /\ d = {}
      BY <3>2
    <3> QED
      BY <3>3, <3>4 DEF v1, v2
  <2> QED
    BY <2>1, <2>2, <2>3, <2>4, <2>5, <2>6, <2>7 DEF BlobsKept
<1> QED
  BY <1>1, BlobInductive, PTL
=============================================================================
