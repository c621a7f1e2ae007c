----------------------------- MODULE RngProofs -----------------------------
(***************************************************************************)
(* Proofs about Rng, for any set of threads, any entropy the sources yield *)
(* and any number of calls: the mutex is held wherever the code counts on  *)
(* it, no octet is given out twice, the reference counter is right, the    *)
(* assertions of rngStepR(), rngRekey() and rngClose() hold, and every     *)
(* step is one of CallOnce and of RngService.  Nobody closes after the end *)
(* of the program (no LateClosers); the last three are about programs that *)
(* keep to rng.h altogether: a thread generates only between its own       *)
(* rngCreate() and rngClose() (no Guests).                                 *)
(***************************************************************************)
EXTENDS Rng, FiniteSetTheorems, SequenceTheorems, TLAPS

(* The octets of a span are octets.                                        *)
LEMMA SpanOctets ==
  ASSUME NEW key \in Seq(Nat), NEW p \in Nat, NEW n \in Nat
  PROVE  Span(key, p, n) \subseteq Octets
<1>1. SUFFICES ASSUME NEW q \in p .. p + n - 1
               PROVE <<key, q>> \in Octets
  BY DEF Span
<1>2. q \in Nat
  OBVIOUS
<1>3. QED
  BY <1>2 DEF Octets

(* Locals with another code, and the null state, are in their ranges.      *)
LEMMA CodeLocals ==
  ASSUME NEW l \in Locals, NEW c \in Codes
  PROVE  [l EXCEPT !.code = c] \in Locals
  BY DEF Locals

LEMMA IdleLocals == Idle \in Locals
  BY DEF Idle, Locals, Codes, NSources

LEMMA StateRanges ==
  /\ NoState \in States
  /\ [NoState EXCEPT !.open = TRUE] \in States
<1>1. <<>> \in Seq(Nat)
  OBVIOUS
<1>2. QED
  BY <1>1 DEF NoState, States

(* Every variable of the generator keeps its range.                        *)
THEOREM TypeCorrect == Spec => []TypeOK
<1>1. Init => TypeOK
  <2> SUFFICES ASSUME Init
               PROVE TypeOK
    OBVIOUS
  <2>1. once \in {0, 1, SIZE_MAX} /\ inited \in BOOLEAN /\ exited \in BOOLEAN
    BY DEF Init
  <2>2. /\ pc \in [Threads -> Places]
        /\ op \in [Threads -> Ops]
        /\ loc \in [Threads -> Locals]
    BY IdleLocals DEF Init, Places, Ops
  <2>3. /\ mtx \in {"none", "free", "closed"} \cup Threads
        /\ refs \subseteq Threads \X RefIds
        /\ given \subseteq Octets
        /\ state \in States
    BY StateRanges DEF Init
  <2>4. /\ ctr \in Nat /\ seeds \in Nat /\ ngiven \in Nat
        /\ calls \in 0 .. MaxCalls
    BY RngAssumption DEF Init
  <2>5. QED
    BY <2>1, <2>2, <2>3, <2>4 DEF TypeOK
<1>2. TypeOK /\ [Next]_rngVars => TypeOK'
  <2> SUFFICES ASSUME TypeOK, [Next]_rngVars
               PROVE TypeOK'
    OBVIOUS
  <2> USE RngAssumption DEF TypeOK, Goto, sharedVars, callVars, historyVars
  <2>1. ASSUME NEW t \in Threads, Call(t)
        PROVE TypeOK'
    <3>1. CASE CallCreate(t)
      BY <3>1 DEF CallCreate, Places, Ops
    <3>2. CASE CallStepR(t)
      BY <3>2 DEF CallStepR, Places, Ops, Locals
    <3>3. CASE CallRekey(t)
      BY <3>3 DEF CallRekey, Places, Ops, Locals
    <3>4. CASE CallIsValid(t)
      BY <3>4 DEF CallIsValid, Places, Ops, Locals, Codes
    <3>5. CASE CallSign(t)
      BY <3>5 DEF CallSign, Places, Ops
    <3>6. CASE CallClose(t)
      BY <3>6 DEF CallClose, Places, Ops
    <3>7. QED
      BY <2>1, <3>1, <3>2, <3>3, <3>4, <3>5, <3>6 DEF Call
  <2>2. ASSUME NEW t \in Threads, OnceStep(t)
        PROVE TypeOK'
    <3>1. CASE OnceWon(t) \/ OnceFound(t) \/ OnceLeave(t)
      BY <3>1 DEF OnceWon, OnceFound, OnceLeave, Places
    <3>2. CASE InitEnter(t) \/ InitMtx(t)
      BY <3>2 DEF InitEnter, InitMtx, Places
    <3>3. CASE InitOnExit(t) \/ InitLeave(t) \/ OncePublish(t)
      BY <3>3 DEF InitOnExit, InitLeave, OncePublish, Places
    <3>4. CASE CreateTest(t)
      BY <3>4 DEF CreateTest, Places, Locals, Codes
    <3>5. QED
      BY <2>2, <3>1, <3>2, <3>3, <3>4 DEF OnceStep
  <2>3. ASSUME NEW t \in Threads, Lock(t) \/ Unlock(t)
        PROVE TypeOK'
    BY <2>3 DEF Lock, Unlock, Places
  <2>4. ASSUME NEW t \in Threads, Inside(t), ~Unlock(t)
        PROVE TypeOK'
    <3>1. CASE InIsValid(t)
      BY <3>1, CodeLocals DEF InIsValid, Places, Codes
    <3>2. CASE InCreateAgain(t)
      <4>1. [state EXCEPT !.block = {}] \in States
        BY DEF States
      <4>2. [loc[t] EXCEPT !.n = KeyLen] \in Locals
        BY DEF Locals
      <4>3. state' \in States
        BY <3>2, <4>1 DEF InCreateAgain
      <4>4. loc' \in [Threads -> Locals]
        BY <3>2, <4>2 DEF InCreateAgain
      <4>5. pc' \in [Threads -> Places]
        BY <3>2 DEF InCreateAgain, Places
      <4>6. QED
        BY <3>2, <4>3, <4>4, <4>5 DEF InCreateAgain
    <3>3. CASE InCreate(t)
      <4>1. [loc[t] EXCEPT !.code = "ERR_OUTOFMEMORY"] \in Locals
        BY CodeLocals DEF Codes
      <4>2. QED
        BY <3>3, <4>1, StateRanges, ZenonT(60) DEF InCreate, Places
    <3>4. CASE Poll(t)
      <4>1. PICK r \in Amounts :
              loc' = [loc EXCEPT ![t].polled = @ + 1, ![t].count = @ + r]
        BY <3>4 DEF Poll
      <4>2. loc[t].polled + 1 \in 0 .. NSources /\ loc[t].count + r \in Nat
        BY <3>4 DEF Poll, Locals, NSources
      <4>3. [loc[t] EXCEPT !.polled = @ + 1, !.count = @ + r] \in Locals
        BY <4>2 DEF Locals
      <4>4. QED
        BY <3>4, <4>1, <4>3 DEF Poll
    <3>5. CASE PollFail(t)
      BY <3>5, CodeLocals, StateRanges DEF PollFail, Places, Codes
    <3>6. CASE PollEnough(t)
      <4>1. <<seeds>> \in Seq(Nat) /\ loc[t].count \in Nat
        BY DEF Locals
      <4>2. [Started(state, <<seeds>>) EXCEPT !.count = loc[t].count] \in States
        BY <4>1 DEF Started, States
      <4>3. QED
        BY <3>6, <4>2 DEF PollEnough, Places
    <3>7. CASE Count(t)
      BY <3>7 DEF Count, Places
    <3>8. CASE InStep(t)
      BY <3>8 DEF InStep, Places
    <3>9. CASE Draw(t)
      <4>1. state.pos \in Nat /\ loc[t] \in Locals
        BY DEF States
      <4>2. [loc[t] EXCEPT !.pos = state.pos] \in Locals
        BY <4>1 DEF Locals
      <4>3. QED
        BY <3>9, <4>2 DEF Draw, Places
    <3>10. CASE Deliver(t) \/ Mix(t) \/ NewKey(t)
      <4>1. Drawn(t) \subseteq Octets
        BY SpanOctets DEF Drawn, States, Locals
      <4>2. Advanced(t) \in States
        <5>1. loc[t].pos + loc[t].n \in Nat
          BY DEF Locals
        <5>2. QED
          BY <5>1 DEF Advanced, States
      <4>3. CASE Deliver(t)
        BY <4>1, <4>2, <4>3 DEF Deliver, Places, Locals
      <4>4. CASE Mix(t) \/ NewKey(t)
        BY <4>1, <4>2, <4>4, ZenonT(60) DEF Mix, NewKey, Places, States
      <4>5. QED
        BY <3>10, <4>3, <4>4
    <3>11. CASE Rekey(t)
      <4>1. Append(state.key, loc[t].pos) \in Seq(Nat)
        BY DEF Locals, States
      <4>2. Started(state, Append(state.key, loc[t].pos)) \in States
        BY <4>1 DEF Started, States
      <4>3. QED
        BY <3>11, <4>2 DEF Rekey, Places
    <3>12. CASE InClose(t)
      BY <3>12, StateRanges DEF InClose, IsValid, Places
    <3>13. QED
      BY <2>4, <3>1, <3>2, <3>3, <3>4, <3>5, <3>6, <3>7, <3>8, <3>9, <3>10,
         <3>11, <3>12 DEF Inside
  <2>5. ASSUME NEW t \in Threads, SignStepR(t) \/ Return(t)
        PROVE TypeOK'
    <3>1. \A n \in Counts : [Idle EXCEPT !.n = n] \in Locals
      BY IdleLocals DEF Locals
    <3>2. QED
      BY <2>5, <3>1, IdleLocals DEF SignStepR, Return, Places, Ops
  <2>6. CASE Destroy
    BY <2>6, StateRanges DEF Destroy
  <2>7. CASE UNCHANGED rngVars
    BY <2>7 DEF rngVars
  <2>8. QED
    BY <2>1, <2>2, <2>3, <2>4, <2>5, <2>6, <2>7 DEF Next, Step
<1>3. QED
  BY <1>1, <1>2, PTL DEF Spec

-----------------------------------------------------------------------------
(* The thread that runs rngInit().                                         *)
Winner(t) == pc[t] \in {"won", "init", "onExit", "inited", "publish"}

(* One thread at most runs rngInit(), and until it makes the mutex there   *)
(* is none.                                                                *)
OnceInv ==
  /\ once = 0 => ~inited /\ mtx = "none" /\ \A t \in Threads : ~Winner(t)
  /\ \A t \in Threads : Winner(t) => once = SIZE_MAX
  /\ \A s, t \in Threads : Winner(s) /\ Winner(t) => s = t
  /\ \A t \in Threads : pc[t] \in {"won", "init"} => ~inited /\ mtx = "none"
  /\ \A t \in Threads : pc[t] = "onExit" => ~inited /\ mtx = "free"

(* Whoever is past the initialisation finds a mutex that is there; the     *)
(* owner of the mutex is exactly the thread at a locked place.             *)
LockInv ==
  /\ inited /\ ~exited => mtx \in {"free"} \cup Threads
  /\ \A t \in Threads : pc[t] # "idle" => ~exited
  /\ \A t \in Threads :
       pc[t] \in Locked \cup {"lock"} \/ op[t] = "sign" => inited
  /\ refs # {} => inited
  /\ \A t \in Threads : pc[t] \in Locked <=> mtx = t

MutexInv == TypeOK /\ OnceInv /\ LockInv

(* The mutex invariant holds of every program that closes before the end.  *)
THEOREM MutexInductive ==
  ASSUME LateClosers = {}
  PROVE  Spec => []MutexInv
<1>1. Init => OnceInv /\ LockInv
  BY RngAssumption DEF Init, OnceInv, LockInv, Winner, Locked
<1>2. TypeOK /\ TypeOK' /\ OnceInv /\ LockInv /\ [Next]_rngVars
        => OnceInv' /\ LockInv'
  <2> SUFFICES ASSUME TypeOK, TypeOK', OnceInv, LockInv, [Next]_rngVars
               PROVE OnceInv' /\ LockInv'
    OBVIOUS
  <2>0. /\ pc \in [Threads -> Places] /\ op \in [Threads -> Ops]
        /\ mtx \in {"none", "free", "closed"} \cup Threads
        /\ inited \in BOOLEAN /\ exited \in BOOLEAN
    BY DEF TypeOK
  <2> USE RngAssumption
          DEF OnceInv, LockInv, Winner, Locked, Goto, sharedVars, callVars,
              historyVars
  <2>1. ASSUME NEW t \in Threads, Call(t)
        PROVE OnceInv' /\ LockInv'
    <3>1. CASE CallCreate(t)
      BY <2>0, <3>1 DEF CallCreate
    <3>2. CASE CallStepR(t)
      BY <2>0, <3>2 DEF CallStepR, Holds
    <3>3. CASE CallRekey(t)
      BY <2>0, <3>3 DEF CallRekey, Holds
    <3>4. CASE CallIsValid(t)
      <4>1. /\ pc[t] = "idle" /\ ~exited
            /\ op' = [op EXCEPT ![t] = "isValid"]
            /\ UNCHANGED <<once, mtx, inited, exited, refs>>
        BY <3>4 DEF CallIsValid
      <4>2. PICK seen \in {inited} \cup (IF Holds(t) THEN {} ELSE {FALSE}) :
              IF seen
                THEN Goto(t, "lock") /\ UNCHANGED loc
                ELSE Goto(t, "ret") /\ loc' = [loc EXCEPT ![t].code = "FALSE"]
        BY <3>4 DEF CallIsValid
      <4>3. CASE seen /\ inited
        BY <2>0, <4>1, <4>2, <4>3
      <4>4. CASE ~seen
        BY <2>0, <4>1, <4>2, <4>4
      <4>5. seen => inited
        BY <2>0
      <4>6. QED
        BY <4>3, <4>4, <4>5
    <3>5. CASE CallSign(t)
      BY <2>0, <3>5 DEF CallSign
    <3>6. CASE CallClose(t)
      BY <2>0, <3>6 DEF CallClose, Holds
    <3>7. QED
      BY <2>1, <3>1, <3>2, <3>3, <3>4, <3>5, <3>6 DEF Call
  <2>2. ASSUME NEW t \in Threads, OnceStep(t)
        PROVE OnceInv' /\ LockInv'
    <3>1. CASE OnceWon(t)
      BY <2>0, <3>1 DEF OnceWon
    <3>2. CASE OnceFound(t) \/ OnceLeave(t) \/ CreateTest(t)
      BY <2>0, <3>2 DEF OnceFound, OnceLeave, CreateTest
    <3>3. CASE InitEnter(t)
      BY <2>0, <3>3 DEF InitEnter
    <3>4. CASE InitMtx(t)
      BY <2>0, <3>4 DEF InitMtx
    <3>5. CASE InitOnExit(t)
      BY <2>0, <3>5 DEF InitOnExit
    <3>6. CASE InitLeave(t) \/ OncePublish(t)
      BY <2>0, <3>6 DEF InitLeave, OncePublish
    <3>7. QED
      BY <2>2, <3>1, <3>2, <3>3, <3>4, <3>5, <3>6 DEF OnceStep
  <2>3. ASSUME NEW t \in Threads, Lock(t)
        PROVE OnceInv' /\ LockInv'
    BY <2>0, <2>3 DEF Lock
  <2>4. ASSUME NEW t \in Threads, Inside(t)
        PROVE OnceInv' /\ LockInv'
    <3>1. CASE Unlock(t)
      BY <2>0, <3>1 DEF Unlock
    <3>2. CASE \/ InIsValid(t) \/ InCreateAgain(t) \/ InCreate(t)
               \/ Poll(t) \/ PollFail(t)
      BY <2>0, <3>2 DEF InIsValid, InCreateAgain, InCreate, Poll, PollFail
    <3>3. CASE PollEnough(t) \/ Count(t) \/ InClose(t)
      BY <2>0, <3>3 DEF PollEnough, Count, InClose
    <3>4. CASE InStep(t) \/ Draw(t) \/ Deliver(t)
      BY <2>0, <3>4 DEF InStep, Draw, Deliver
    <3>5. CASE Mix(t) \/ NewKey(t) \/ Rekey(t)
      BY <2>0, <3>5 DEF Mix, NewKey, Rekey
    <3>6. QED
      BY <2>4, <3>1, <3>2, <3>3, <3>4, <3>5 DEF Inside
  <2>5. ASSUME NEW t \in Threads, SignStepR(t) \/ Return(t)
        PROVE OnceInv' /\ LockInv'
    <3>1. CASE SignStepR(t)
      BY <2>0, <3>1 DEF SignStepR
    <3>2. CASE Return(t)
      BY <2>0, <3>2 DEF Return
    <3>3. QED
      BY <2>5, <3>1, <3>2
  <2>6. CASE Destroy
    BY <2>0, <2>6 DEF Destroy
  <2>7. CASE UNCHANGED rngVars
    BY <2>7 DEF rngVars
  <2>8. QED
    BY <2>1, <2>2, <2>3, <2>4, <2>5, <2>6, <2>7 DEF Next, Step
<1>3. QED
  BY <1>1, <1>2, TypeCorrect, PTL DEF Spec, MutexInv

(* A thread waits only for a mutex that exists, and whatever it does       *)
(* between the lock and the unlock it does as the owner: no two threads    *)
(* are ever inside the generator, in the middle of rngInit() and at the    *)
(* end of the program too.                                                 *)
THEOREM MutexCorrect ==
  ASSUME LateClosers = {}
  PROVE  Spec => []MutexHeld
<1>1. MutexInv => MutexHeld
  BY RngAssumption DEF MutexInv, TypeOK, OnceInv, LockInv, MutexHeld, Locked
<1>2. QED
  BY <1>1, MutexInductive, PTL

-----------------------------------------------------------------------------
(* The places of rngCreate() before it waits for the mutex, and the ones   *)
(* it alone comes to with the mutex held.                                  *)
Creating(t) ==
  pc[t] \in {"once", "won", "found", "init", "onExit", "inited", "publish",
             "test", "poll", "count"}

(* The counter counts the references.                                      *)
CountInv ==
  /\ IsFiniteSet(refs)
  /\ ~exited => ctr = Cardinality(refs)

(* The counter and the state agree, except while the first rngCreate()     *)
(* polls its sources.                                                      *)
AgreeInv ==
  /\ \A t \in Threads : pc[t] = "poll" => state.open /\ ctr = 0
  /\ \A t \in Threads :
       pc[t] \in {"count", "draw", "drawn", "rekey"} => state.open /\ ctr # 0
  /\ (\A t \in Threads : pc[t] # "poll") => (state.open <=> ctr # 0)

(* Whoever is about to use the generator holds a reference.                *)
HoldInv ==
  \A t \in Threads :
    /\ Creating(t) => op[t] = "create"
    /\ pc[t] = "rekey" => op[t] = "rekey"
    /\ pc[t] \in {"lock", "in"} /\ op[t] \in {"stepR", "rekey", "close"}
         => Holds(t)
    /\ op[t] = "sign" => Holds(t)
    /\ pc[t] \in {"unlock", "ret"} /\ op[t] = "isValid" /\ Holds(t)
         => loc[t].code = "TRUE"

RefInv == CountInv /\ AgreeInv /\ HoldInv

(* A thread's references are touched by its own calls only.                *)
LEMMA HoldsOf ==
  ASSUME NEW t \in Threads, NEW i \in RefIds, NEW s \in Threads, s # t,
         refs' = refs \cup {<<t, i>>} \/ refs' = refs \ {<<t, i>>}
  PROVE  Holds(s)' <=> Holds(s)
  BY DEF Holds

(* A counter that counts the references is positive when one is held.      *)
LEMMA HeldCount ==
  ASSUME CountInv, ~exited, NEW t \in Threads, Holds(t)
  PROVE  ctr # 0
<1>1. refs # {}
  BY DEF Holds
<1>2. Cardinality(refs) # 0
  BY <1>1, FS_EmptySet DEF CountInv
<1>3. QED
  BY <1>2 DEF CountInv

(* The reference counter of rngCreate() and rngClose() keeps the number of *)
(* references along every step.                                            *)
LEMMA CountStep ==
  ASSUME TypeOK, MutexInv, CountInv, AgreeInv, [Next]_rngVars
  PROVE  CountInv'
<1> USE DEF CountInv, sharedVars, callVars, historyVars
<1>1. CASE UNCHANGED <<refs, ctr, exited>>
  BY <1>1
<1>2. ASSUME NEW t \in Threads, PollEnough(t)
      PROVE CountInv'
  <2>1. PICK i \in RefIds : <<t, i>> \notin refs /\ refs' = refs \cup {<<t, i>>}
    BY <1>2 DEF PollEnough
  <2>2. ctr = 0 /\ ~exited
    BY <1>2 DEF PollEnough, AgreeInv, MutexInv, LockInv
  <2>3. refs = {}
    BY <2>2, FS_EmptySet
  <2>4. IsFiniteSet(refs') /\ Cardinality(refs') = 1
    <3>1. refs' = {<<t, i>>}
      BY <2>1, <2>3
    <3>2. QED
      BY <3>1, FS_Singleton
  <2>5. QED
    BY <1>2, <2>4 DEF PollEnough
<1>3. ASSUME NEW t \in Threads, Count(t)
      PROVE CountInv'
  <2>1. PICK i \in RefIds : <<t, i>> \notin refs /\ refs' = refs \cup {<<t, i>>}
    BY <1>3 DEF Count
  <2>2. IsFiniteSet(refs') /\ Cardinality(refs') = Cardinality(refs) + 1
    BY <2>1, FS_AddElement
  <2>3. QED
    BY <1>3, <2>2 DEF Count
<1>4. ASSUME NEW t \in Threads, InClose(t)
      PROVE CountInv'
  <2>1. PICK i \in RefIds : <<t, i>> \in refs /\ refs' = refs \ {<<t, i>>}
    BY <1>4 DEF InClose
  <2>2. IsFiniteSet(refs') /\ Cardinality(refs') = Cardinality(refs) - 1
    BY <2>1, FS_RemoveElement
  <2>3. QED
    BY <1>4, <2>2 DEF InClose
<1>5. CASE Destroy
  BY <1>5 DEF Destroy
<1>6. ASSUME NEW t \in Threads, Call(t)
      PROVE UNCHANGED <<refs, ctr, exited>>
  BY <1>6 DEF Call, CallCreate, CallStepR, CallRekey, CallIsValid, CallSign,
              CallClose
<1>7. ASSUME NEW t \in Threads, OnceStep(t)
      PROVE UNCHANGED <<refs, ctr, exited>>
  BY <1>7 DEF OnceStep, OnceWon, OnceFound, OnceLeave, InitEnter, InitMtx,
              InitOnExit, InitLeave, OncePublish, CreateTest
<1>8. ASSUME NEW t \in Threads, Inside(t)
      PROVE \/ UNCHANGED <<refs, ctr, exited>>
            \/ PollEnough(t) \/ Count(t) \/ InClose(t)
  BY <1>8 DEF Inside, InIsValid, InCreateAgain, InCreate, Poll, PollFail,
              InStep, Draw, Deliver, Mix, NewKey, Rekey, Unlock
<1>9. ASSUME NEW t \in Threads, Lock(t) \/ SignStepR(t) \/ Return(t)
      PROVE UNCHANGED <<refs, ctr, exited>>
  BY <1>9 DEF Lock, SignStepR, Return
<1>10. CASE UNCHANGED rngVars
  BY <1>10 DEF rngVars
<1>11. QED
  BY <1>1, <1>2, <1>3, <1>4, <1>5, <1>6, <1>7, <1>8, <1>9, <1>10
  DEF Next, Step

(* The counter and the state go together along every step.                 *)
LEMMA AgreeStep ==
  ASSUME TypeOK, MutexInv, MutexInv', AgreeInv, [Next]_rngVars
  PROVE  AgreeInv'
<1>0. /\ pc \in [Threads -> Places] /\ ctr \in Nat /\ state \in States
      /\ mtx \in {"none", "free", "closed"} \cup Threads
      /\ \A t \in Threads : pc[t] \in Locked <=> mtx = t
      /\ pc' \in [Threads -> Places]
      /\ \A t \in Threads : pc'[t] \in Locked <=> mtx' = t
  BY DEF TypeOK, MutexInv, LockInv
<1> USE RngAssumption
        DEF AgreeInv, Locked, Goto, sharedVars, callVars, historyVars
<1>1. ASSUME NEW t \in Threads, Call(t)
      PROVE AgreeInv'
  <2>1. /\ \E p \in {"once", "lock", "ret"} : pc' = [pc EXCEPT ![t] = p]
        /\ pc[t] = "idle"
        /\ UNCHANGED <<state, ctr>>
    BY <1>1 DEF Call, CallCreate, CallStepR, CallRekey, CallIsValid, CallSign,
                CallClose
  <2>2. QED
    BY <1>0, <2>1
<1>2. ASSUME NEW t \in Threads, OnceStep(t) \/ Lock(t) \/ SignStepR(t) \/ Return(t)
      PROVE AgreeInv'
  <2>1. /\ \E p \in {"won", "found", "init", "onExit", "inited", "publish",
                     "test", "lock", "in", "ret", "idle"} :
             pc' = [pc EXCEPT ![t] = p]
        /\ pc[t] \notin Locked
        /\ UNCHANGED <<state, ctr>>
    BY <1>2 DEF OnceStep, OnceWon, OnceFound, OnceLeave, InitEnter, InitMtx,
                InitOnExit, InitLeave, OncePublish, CreateTest, Lock,
                SignStepR, Return
  <2>2. QED
    BY <1>0, <2>1
<1>3. ASSUME NEW t \in Threads, Inside(t)
      PROVE AgreeInv'
  <2>1. CASE InIsValid(t) \/ Unlock(t)
    BY <1>0, <2>1 DEF InIsValid, Unlock
  <2>2. CASE InCreateAgain(t)
    BY <1>0, <2>2 DEF InCreateAgain, States
  <2>3. CASE InCreate(t)
    BY <1>0, <2>3 DEF InCreate, NoState
  <2>4. CASE Poll(t)
    BY <1>0, <2>4 DEF Poll
  <2>5. CASE PollFail(t)
    BY <1>0, <2>5 DEF PollFail, NoState
  <2>6. CASE PollEnough(t)
    BY <1>0, <2>6 DEF PollEnough, Started, States
  <2>7. CASE Count(t)
    BY <1>0, <2>7 DEF Count
  <2>8. CASE InStep(t) \/ Draw(t)
    BY <1>0, <2>8 DEF InStep, Draw, IsValid
  <2>9. CASE Deliver(t) \/ Mix(t) \/ NewKey(t)
    BY <1>0, <2>9, ZenonT(60) DEF Deliver, Mix, NewKey, Advanced, States
  <2>10. CASE Rekey(t)
    BY <1>0, <2>10 DEF Rekey, Started, States
  <2>11. CASE InClose(t)
    BY <1>0, <2>11 DEF InClose, IsValid, NoState
  <2>12. QED
    BY <1>3, <2>1, <2>2, <2>3, <2>4, <2>5, <2>6, <2>7, <2>8, <2>9, <2>10,
       <2>11 DEF Inside
<1>4. CASE Destroy
  BY <1>0, <1>4 DEF Destroy, NoState
<1>5. CASE UNCHANGED rngVars
  BY <1>5 DEF rngVars
<1>6. QED
  BY <1>1, <1>2, <1>3, <1>4, <1>5 DEF Next, Step

(* Whoever uses the generator keeps its reference along every step: no     *)
(* step of another thread touches it.                                      *)
LEMMA HoldStep ==
  ASSUME Guests = {}, TypeOK, MutexInv, CountInv, AgreeInv, HoldInv,
         [Next]_rngVars
  PROVE  HoldInv'
<1>0. /\ pc \in [Threads -> Places] /\ op \in [Threads -> Ops]
      /\ loc \in [Threads -> Locals]
  BY DEF TypeOK
<1> USE DEF HoldInv, Creating, Goto, sharedVars, callVars, historyVars
<1>1. ASSUME NEW t \in Threads, Call(t)
      PROVE HoldInv'
  <2>1. UNCHANGED refs
    BY <1>1 DEF Call, CallCreate, CallStepR, CallRekey, CallIsValid, CallSign,
                CallClose
  <2>2. \A s \in Threads : Holds(s)' <=> Holds(s)
    BY <2>1 DEF Holds
  <2>3. CASE CallCreate(t)
    BY <1>0, <2>2, <2>3 DEF CallCreate
  <2>4. CASE CallStepR(t)
    BY <1>0, <2>2, <2>4 DEF CallStepR
  <2>5. CASE CallRekey(t)
    BY <1>0, <2>2, <2>5 DEF CallRekey
  <2>6. CASE CallIsValid(t)
    <3>1. Holds(t) => inited
      BY DEF Holds, MutexInv, LockInv
    <3>2. /\ op' = [op EXCEPT ![t] = "isValid"]
          /\ \/ pc' = [pc EXCEPT ![t] = "lock"] /\ loc' = loc
             \/ /\ ~Holds(t)
                /\ pc' = [pc EXCEPT ![t] = "ret"]
                /\ loc' = [loc EXCEPT ![t].code = "FALSE"]
      BY <2>6, <3>1 DEF CallIsValid
    <3>3. QED
      BY <1>0, <2>2, <3>2
  <2>7. CASE CallSign(t)
    BY <1>0, <2>2, <2>7 DEF CallSign
  <2>8. CASE CallClose(t)
    BY <1>0, <2>2, <2>8 DEF CallClose
  <2>9. QED
    BY <1>1, <2>3, <2>4, <2>5, <2>6, <2>7, <2>8 DEF Call
<1>2. ASSUME NEW t \in Threads, OnceStep(t)
      PROVE HoldInv'
  <2>1. UNCHANGED <<refs, op>> /\ Creating(t)
    BY <1>2 DEF OnceStep, OnceWon, OnceFound, OnceLeave, InitEnter, InitMtx,
                InitOnExit, InitLeave, OncePublish, CreateTest
  <2>2. \A s \in Threads : Holds(s)' <=> Holds(s)
    BY <2>1 DEF Holds
  <2>3. CASE CreateTest(t)
    BY <1>0, <2>1, <2>2, <2>3 DEF CreateTest
  <2>4. CASE ~CreateTest(t)
    <3>1. /\ UNCHANGED loc
          /\ \E p \in {"won", "found", "init", "onExit", "inited", "publish",
                       "test"} : pc' = [pc EXCEPT ![t] = p]
      BY <1>2, <2>4
      DEF OnceStep, OnceWon, OnceFound, OnceLeave, InitEnter, InitMtx,
          InitOnExit, InitLeave, OncePublish
    <3>2. QED
      BY <1>0, <2>1, <2>2, <3>1
  <2>5. QED
    BY <2>3, <2>4
<1>3. ASSUME NEW t \in Threads, Lock(t) \/ SignStepR(t) \/ Return(t)
      PROVE HoldInv'
  <2>1. UNCHANGED refs
    BY <1>3 DEF Lock, SignStepR, Return
  <2>2. \A s \in Threads : Holds(s)' <=> Holds(s)
    BY <2>1 DEF Holds
  <2>3. CASE Lock(t)
    BY <1>0, <2>2, <2>3 DEF Lock
  <2>4. CASE SignStepR(t)
    BY <1>0, <2>2, <2>4 DEF SignStepR
  <2>5. CASE Return(t)
    BY <1>0, <2>2, <2>5 DEF Return
  <2>6. QED
    BY <1>3, <2>3, <2>4, <2>5
<1>4. ASSUME NEW t \in Threads, PollEnough(t) \/ Count(t) \/ InClose(t)
      PROVE HoldInv'
  <2>1. PICK i \in RefIds :
          refs' = refs \cup {<<t, i>>} \/ refs' = refs \ {<<t, i>>}
    BY <1>4 DEF PollEnough, Count, InClose
  <2>2. \A s \in Threads \ {t} : Holds(s)' <=> Holds(s)
    BY <2>1, HoldsOf
  <2>3. /\ UNCHANGED <<op, loc>>
        /\ pc' = [pc EXCEPT ![t] = "unlock"]
    BY <1>4 DEF PollEnough, Count, InClose
  <2>4. op[t] # "isValid" /\ (op[t] = "sign" => Holds(t)')
    BY <1>0, <1>4 DEF PollEnough, Count, InClose
  <2>5. QED
    BY <1>0, <2>2, <2>3, <2>4
<1>5. ASSUME NEW t \in Threads, Inside(t), ~PollEnough(t), ~Count(t), ~InClose(t)
      PROVE HoldInv'
  <2>1. UNCHANGED <<refs, op>>
    BY <1>5 DEF Inside, InIsValid, InCreateAgain, InCreate, Poll, PollFail,
                InStep, Draw, Deliver, Mix, NewKey, Rekey, Unlock
  <2>2. \A s \in Threads : Holds(s)' <=> Holds(s)
    BY <2>1 DEF Holds
  <2>3. CASE InIsValid(t)
    <3>1. Holds(t) => IsValid
      <4>1. pc[t] = "in" /\ ~exited /\ \A s \in Threads : pc[s] # "poll"
        BY <1>0, <2>3 DEF InIsValid, MutexInv, LockInv, Locked
      <4>2. QED
        BY <4>1, HeldCount DEF IsValid, AgreeInv
    <3>2. QED
      BY <1>0, <2>1, <2>2, <2>3, <3>1 DEF InIsValid
  <2>4. CASE Unlock(t)
    BY <1>0, <2>1, <2>2, <2>4 DEF Unlock
  <2>5. CASE InCreateAgain(t) \/ InCreate(t)
    BY <1>0, <2>1, <2>2, <2>5 DEF InCreateAgain, InCreate
  <2>6. CASE Poll(t) \/ PollFail(t) \/ InStep(t) \/ Draw(t)
    BY <1>0, <2>1, <2>2, <2>6 DEF Poll, PollFail, InStep, Draw
  <2>7. CASE Deliver(t) \/ Mix(t) \/ NewKey(t) \/ Rekey(t)
    BY <1>0, <2>1, <2>2, <2>7 DEF Deliver, Mix, NewKey, Rekey
  <2>8. QED
    BY <1>5, <2>3, <2>4, <2>5, <2>6, <2>7 DEF Inside
<1>6. CASE Destroy
  <2>1. UNCHANGED <<pc, op, loc, refs>>
    BY <1>6 DEF Destroy
  <2>2. QED
    BY <2>1 DEF Holds
<1>7. CASE UNCHANGED rngVars
  BY <1>7 DEF rngVars, Holds
<1>8. QED
  BY <1>1, <1>2, <1>3, <1>4, <1>5, <1>6, <1>7 DEF Next, Step

-----------------------------------------------------------------------------
(* The reference invariant holds of every program that keeps to rng.h.     *)
THEOREM RefInductive ==
  ASSUME Guests = {}, LateClosers = {}
  PROVE  Spec => []RefInv
<1>1. Init => RefInv
  BY FS_EmptySet
  DEF Init, RefInv, CountInv, AgreeInv, HoldInv, Creating, NoState
<1>2. TypeOK /\ MutexInv /\ MutexInv' /\ RefInv /\ [Next]_rngVars => RefInv'
  BY CountStep, AgreeStep, HoldStep DEF RefInv
<1>3. QED
  BY <1>1, <1>2, TypeCorrect, MutexInductive, PTL DEF Spec

(* rng.h: the calls of rngCreate() are counted and the generator lives     *)
(* exactly as long as one of them has not been answered by rngClose().     *)
THEOREM RefCountCorrect ==
  ASSUME Guests = {}, LateClosers = {}
  PROVE  Spec => []RefCount
<1>1. MutexInv /\ RefInv => RefCount
  BY DEF MutexInv, LockInv, Locked, RefInv, CountInv, AgreeInv, RefCount
<1>2. QED
  BY <1>1, MutexInductive, RefInductive, PTL

(* The assertions of rngStepR(), rngStepR2(), rngRekey() and rngClose()    *)
(* never fail, whatever the other threads do: the generator of a thread    *)
(* that holds a reference is not taken away in the middle of a call.       *)
THEOREM AssertsCorrect ==
  ASSUME Guests = {}, LateClosers = {}
  PROVE  Spec => []AssertsHold
<1>1. MutexInv /\ RefInv => AssertsHold
  <2> SUFFICES ASSUME MutexInv, RefInv, NEW t \in Threads
               PROVE \/ pc[t] = "in" /\ op[t] \in {"stepR", "rekey", "close"}
                     \/ pc[t] \in {"draw", "drawn", "rekey"}
                     => IsValid
    BY DEF AssertsHold
  <2>1. CASE pc[t] = "in" /\ op[t] \in {"stepR", "rekey", "close"}
    <3>1. ~exited /\ \A s \in Threads : pc[s] # "poll"
      BY <2>1 DEF MutexInv, LockInv, Locked
    <3>2. Holds(t)
      BY <2>1 DEF RefInv, HoldInv
    <3>3. QED
      BY <3>1, <3>2, HeldCount DEF RefInv, AgreeInv, IsValid
  <2>2. CASE pc[t] \in {"draw", "drawn", "rekey"}
    BY <2>2 DEF RefInv, AgreeInv, IsValid
  <2>3. QED
    BY <2>1, <2>2
<1>2. QED
  BY <1>1, MutexInductive, RefInductive, PTL

(* A thread that holds a reference is told TRUE by rngIsValid(), although  *)
(* that function looks at _inited before it takes the mutex.               *)
THEOREM HolderValidCorrect ==
  ASSUME Guests = {}, LateClosers = {}
  PROVE  Spec => []HolderValid
<1>1. RefInv => HolderValid
  BY DEF RefInv, HoldInv, HolderValid
<1>2. QED
  BY <1>1, RefInductive, PTL

(* The counter, the state and what rngIsValid() answers to a holder agree  *)
(* with the references the callers hold.                                   *)
THEOREM RefsCorrect ==
  ASSUME Guests = {}, LateClosers = {}
  PROVE  Spec => []RefsRight
<1>1. RefCount /\ HolderValid => RefsRight
  BY DEF RefsRight
<1>2. QED
  BY <1>1, RefCountCorrect, HolderValidCorrect, PTL
-----------------------------------------------------------------------------
(* What is delivered lies behind the place the stream of a key has reached *)
(* and, for the streams the key was made from, behind the octets that were *)
(* taken to make it.                                                       *)
Behind(g, key, pos) ==
  g[1][1] = key[1] =>
    /\ Len(g[1]) <= Len(key)
    /\ g[2] < IF Len(g[1]) = Len(key) THEN pos ELSE key[Len(g[1]) + 1]

GivenInv ==
  /\ IsFiniteSet(given) /\ Cardinality(given) = ngiven
  /\ \A g \in given : g[1] # <<>> /\ g[1][1] < seeds
  /\ state.key # <<>> =>
       /\ state.key[1] < seeds
       /\ \A g \in given : Behind(g, state.key, state.pos)

(* The block keeps octets that were passed over.  The key is there exactly *)
(* while there are references.                                             *)
BlockInv ==
  /\ \A b \in state.block :
       b[1] = state.key /\ b[2] < state.pos /\ b \notin given
  /\ ctr = 0 <=> state.key = <<>>
  /\ state.key = <<>> => state.pos = 0

(* A thread that has read the place of the stream finds the stream there   *)
(* when it writes it back.                                                 *)
DrawInv ==
  \A t \in Threads :
    /\ pc[t] = "drawn" => loc[t].pos = state.pos
    /\ pc[t] = "rekey" => \A g \in given : Behind(g, state.key, loc[t].pos)
    /\ \/ pc[t] \in {"draw", "drawn"}
       \/ pc[t] \in {"lock", "in"} /\ op[t] \in {"stepR", "rekey"}
       => loc[t].n > 0
    /\ Creating(t) => op[t] = "create"

StreamInv == GivenInv /\ BlockInv /\ DrawInv

(* A span has as many octets as its length says.                           *)
LEMMA SpanSize ==
  ASSUME NEW key, NEW p \in Nat, NEW n \in Nat
  PROVE  IsFiniteSet(Span(key, p, n)) /\ Cardinality(Span(key, p, n)) = n
<1> DEFINE I == p .. p + n - 1
           f == [q \in I |-> <<key, q>>]
<1>1. IsFiniteSet(I) /\ Cardinality(I) = n
  BY FS_Interval
<1>2. f \in Bijection(I, Span(key, p, n))
  <2>1. f \in [I -> Span(key, p, n)]
    BY DEF Span
  <2>2. \A q, r \in I : f[q] = f[r] => q = r
    OBVIOUS
  <2>3. \A o \in Span(key, p, n) : \E q \in I : f[q] = o
    BY DEF Span
  <2> QED
    BY <2>1, <2>2, <2>3 DEF Bijection, Injection, Surjection, IsInjective
<1>3. ExistsBijection(I, Span(key, p, n))
  BY <1>2 DEF ExistsBijection
<1> QED
  BY <1>1, <1>3, FS_Bijection

(* The octets a thread has drawn have not been delivered.                  *)
LEMMA DrawnNew ==
  ASSUME TypeOK, AgreeInv, GivenInv, BlockInv, DrawInv,
         NEW t \in Threads, pc[t] = "drawn"
  PROVE  /\ Drawn(t) \cap given = {}
         /\ Drawn(t) \cap state.block = {}
         /\ state.key # <<>>
<1>1. state.key # <<>> /\ loc[t].pos = state.pos
  BY DEF AgreeInv, BlockInv, DrawInv
<1>2. state.pos \in Nat /\ loc[t].n \in Nat
  BY DEF TypeOK, States, Locals
<1>3. ASSUME NEW q \in Drawn(t)
      PROVE  q[1] = state.key /\ q[2] \in Nat /\ q[2] >= state.pos
  BY <1>1, <1>2 DEF Drawn, Span
<1>4. ASSUME NEW g \in given, g \in Drawn(t)
      PROVE  FALSE
  <2>1. Behind(g, state.key, state.pos)
    BY <1>1 DEF GivenInv
  <2> QED
    BY <1>2, <1>3, <1>4, <2>1 DEF Behind
<1>5. ASSUME NEW b \in state.block, b \in Drawn(t)
      PROVE  FALSE
  BY <1>2, <1>3, <1>5 DEF BlockInv
<1> QED
  BY <1>1, <1>4, <1>5

(* The deliveries stay behind the stream along every step.                 *)
LEMMA GivenStep ==
  ASSUME TypeOK, AgreeInv, StreamInv, [Next]_rngVars
  PROVE  GivenInv'
<1> USE DEF sharedVars, callVars, historyVars
<1>0. /\ seeds \in Nat /\ ngiven \in Nat /\ given \subseteq Octets
      /\ state \in States /\ state.key \in Seq(Nat) /\ state.pos \in Nat
      /\ loc \in [Threads -> Locals]
  BY DEF TypeOK, States
<1>1. ASSUME UNCHANGED <<given, ngiven, seeds>>,
             \/ state'.key = state.key /\ state'.pos >= state.pos
             \/ state'.key = <<>>,
             state'.pos \in Nat
      PROVE  GivenInv'
  <2>1. ASSUME state'.key # <<>>, NEW g \in given
        PROVE  Behind(g, state'.key, state'.pos)
    <3>1. Behind(g, state.key, state.pos) /\ g[2] \in Nat
      BY <1>0, <1>1, <2>1 DEF StreamInv, GivenInv, Octets
    <3> QED
      BY <1>0, <1>1, <2>1, <3>1 DEF Behind
  <2> QED
    BY <1>1, <2>1 DEF StreamInv, GivenInv, Behind
<1>2. ASSUME NEW t \in Threads, PollEnough(t)
      PROVE  GivenInv'
  <2>1. /\ seeds' = seeds + 1 /\ UNCHANGED <<given, ngiven>>
        /\ state'.key = <<seeds>>
    BY <1>0, <1>2 DEF PollEnough, Started, States
  <2>2. <<seeds>> # <<>> /\ <<seeds>>[1] = seeds
    OBVIOUS
  <2>3. \A g \in given : g[1] # <<>> /\ g[1][1] < seeds
    BY DEF StreamInv, GivenInv
  <2>4. \A g \in given : g[1][1] \in Nat
    BY <1>0, <2>3 DEF Octets
  <2>5. \A g \in given : g[1][1] < seeds' /\ g[1][1] # state'.key[1]
    BY <1>0, <2>1, <2>2, <2>3, <2>4
  <2>6. \A g \in given : Behind(g, state'.key, state'.pos)
    BY <2>5 DEF Behind
  <2> QED
    BY <1>0, <2>1, <2>2, <2>3, <2>5, <2>6 DEF StreamInv, GivenInv, Behind
<1>3. ASSUME NEW t \in Threads, Deliver(t)
      PROVE  GivenInv'
  <2>1. /\ given' = given \cup Drawn(t) /\ ngiven' = ngiven + loc[t].n
        /\ state'.key = state.key /\ state'.pos = loc[t].pos + loc[t].n
        /\ seeds' = seeds /\ pc[t] = "drawn"
    BY <1>0, <1>3 DEF Deliver, Advanced, States
  <2>2. loc[t].pos = state.pos /\ loc[t].n \in Nat
    BY <1>0, <2>1 DEF StreamInv, DrawInv, Locals
  <2>3. Drawn(t) \cap given = {} /\ state.key # <<>>
    BY <2>1, DrawnNew DEF StreamInv
  <2>4. IsFiniteSet(given') /\ Cardinality(given') = ngiven'
    <3>1. IsFiniteSet(Drawn(t)) /\ Cardinality(Drawn(t)) = loc[t].n
      BY <1>0, <2>2, SpanSize DEF Drawn
    <3>2. IsFiniteSet(given) /\ Cardinality(given) = ngiven
      BY DEF StreamInv, GivenInv
    <3>3. given \cap Drawn(t) = {} /\ Cardinality({}) = 0
      BY <2>3, FS_EmptySet
    <3>4. /\ IsFiniteSet(given \cup Drawn(t))
          /\ Cardinality(given \cup Drawn(t))
               = Cardinality(given) + Cardinality(Drawn(t))
                 - Cardinality(given \cap Drawn(t))
      BY <3>1, <3>2, FS_Union
    <3>5. /\ IsFiniteSet(given')
          /\ Cardinality(given') = ngiven + loc[t].n - 0
      BY <2>1, <3>1, <3>2, <3>3, <3>4, Zenon
    <3> QED
      BY <1>0, <2>1, <2>2, <3>5
  <2>5. ASSUME NEW g \in given
        PROVE  /\ g[1] # <<>> /\ g[1][1] < seeds
               /\ Behind(g, state.key, state'.pos)
    <3>1. /\ g[1] # <<>> /\ g[1][1] < seeds
          /\ Behind(g, state.key, state.pos) /\ g[2] \in Nat
      BY <1>0, <2>3 DEF StreamInv, GivenInv, Octets
    <3> QED
      BY <1>0, <2>1, <2>2, <3>1, SMTT(30) DEF Behind
  <2>6. ASSUME NEW g \in Drawn(t)
        PROVE  /\ g[1] # <<>> /\ g[1][1] < seeds
               /\ Behind(g, state.key, state'.pos)
    <3>1. g[1] = state.key /\ g[2] \in loc[t].pos .. loc[t].pos + loc[t].n - 1
      BY DEF Drawn, Span
    <3>2. state.key[1] < seeds
      BY <2>3 DEF StreamInv, GivenInv
    <3>3. g[2] < state'.pos
      BY <1>0, <2>1, <2>2, <3>1, SMTT(30)
    <3> QED
      BY <2>3, <3>1, <3>2, <3>3, SMTT(30) DEF Behind
  <2>7. \A g \in given' : /\ g[1] # <<>> /\ g[1][1] < seeds'
                          /\ Behind(g, state'.key, state'.pos)
    BY <2>1, <2>5, <2>6
  <2>8. state.key[1] < seeds
    BY <2>3 DEF StreamInv, GivenInv
  <2> QED
    BY <2>1, <2>4, <2>7, <2>8 DEF GivenInv, Behind
<1>4. ASSUME NEW t \in Threads, Rekey(t)
      PROVE  GivenInv'
  <2>1. /\ UNCHANGED <<given, ngiven, seeds>> /\ pc[t] = "rekey"
        /\ state'.key = Append(state.key, loc[t].pos)
    BY <1>0, <1>4 DEF Rekey, Started, States
  <2>2. state.key # <<>>
    BY <2>1 DEF AgreeInv, StreamInv, BlockInv
  <2>3. /\ Len(state'.key) = Len(state.key) + 1
        /\ \A i \in 1 .. Len(state.key) : state'.key[i] = state.key[i]
        /\ state'.key[Len(state.key) + 1] = loc[t].pos
        /\ state'.key # <<>> /\ Len(state.key) \in Nat /\ Len(state.key) >= 1
    BY <1>0, <2>1, <2>2, SMTT(30) DEF Locals
  <2>4. ASSUME NEW g \in given
        PROVE  Behind(g, state'.key, state'.pos)
    <3>1. /\ Behind(g, state.key, loc[t].pos)
          /\ g[1] \in Seq(Nat) /\ g[1] # <<>>
      BY <1>0, <2>1 DEF StreamInv, DrawInv, GivenInv, Octets
    <3>2. Len(g[1]) \in Nat /\ Len(g[1]) >= 1
      BY <3>1
    <3>3. CASE g[1][1] = state.key[1]
      <4>1. CASE Len(g[1]) = Len(state.key)
        BY <2>3, <3>1, <3>3, <4>1 DEF Behind
      <4>2. CASE Len(g[1]) # Len(state.key)
        <5>1. /\ Len(g[1]) <= Len(state.key)
              /\ g[2] < state.key[Len(g[1]) + 1]
          BY <3>1, <3>3, <4>2 DEF Behind
        <5>2. Len(g[1]) + 1 \in 1 .. Len(state.key)
          BY <2>3, <3>2, <4>2, <5>1
        <5>3. state'.key[Len(g[1]) + 1] = state.key[Len(g[1]) + 1]
          BY <2>3, <5>2
        <5> QED
          BY <2>3, <3>2, <5>1, <5>2, <5>3 DEF Behind
      <4> QED
        BY <4>1, <4>2
    <3>4. CASE g[1][1] # state.key[1]
      BY <2>3, <3>4 DEF Behind
    <3> QED
      BY <3>3, <3>4
  <2> QED
    BY <2>1, <2>2, <2>3, <2>4 DEF StreamInv, GivenInv, Behind
<1>5. ASSUME NEW t \in Threads,
             Inside(t), ~ PollEnough(t), ~ Deliver(t), ~ Rekey(t)
      PROVE  GivenInv'
  <2>1. CASE UNCHANGED <<given, ngiven, seeds, state>>
    BY <1>0, <1>1, <2>1
  <2>2. CASE InCreateAgain(t)
    BY <1>0, <1>1, <2>2 DEF InCreateAgain, States
  <2>3. CASE InCreate(t) \/ PollFail(t) \/ InClose(t)
    BY <1>0, <1>1, <2>3 DEF InCreate, PollFail, InClose, NoState
  <2>4. CASE Mix(t) \/ NewKey(t)
    <3>1. pc[t] = "drawn" /\ loc[t].pos = state.pos /\ loc[t].n \in Nat
      BY <1>0, <2>4 DEF Mix, NewKey, StreamInv, DrawInv, Locals
    <3>2. /\ state' = [Advanced(t) EXCEPT !.block = Drawn(t)]
          /\ UNCHANGED <<given, ngiven, seeds>>
      BY <2>4 DEF Mix, NewKey
    <3>3. state'.key = state.key /\ state'.pos = loc[t].pos + loc[t].n
      BY <1>0, <3>2 DEF Advanced, States
    <3> QED
      BY <1>0, <1>1, <3>1, <3>2, <3>3
  <2> QED
    BY <1>5, <2>1, <2>2, <2>3, <2>4
       DEF Inside, InIsValid, Poll, Count, InStep, Draw, Unlock
<1>6. CASE Destroy
  BY <1>0, <1>1, <1>6 DEF Destroy, NoState
<1>7. CASE UNCHANGED <<given, ngiven, seeds, state>>
  BY <1>0, <1>1, <1>7
<1>8. ASSUME NEW t \in Threads,
             Call(t) \/ OnceStep(t) \/ Lock(t) \/ SignStepR(t) \/ Return(t)
      PROVE  UNCHANGED <<given, ngiven, seeds, state>>
  BY <1>8 DEF Call, CallCreate, CallStepR, CallRekey, CallIsValid, CallSign,
     CallClose, OnceStep, OnceWon, OnceFound, OnceLeave, InitEnter, InitMtx,
     InitOnExit, InitLeave, OncePublish, CreateTest, Lock, SignStepR, Return
<1>9. CASE UNCHANGED rngVars
  BY <1>7, <1>9 DEF rngVars
<1> QED
  BY <1>2, <1>3, <1>4, <1>5, <1>6, <1>7, <1>8, <1>9 DEF Next, Step

(* The block and the counter along every step.                             *)
LEMMA BlockStep ==
  ASSUME TypeOK, AgreeInv, StreamInv, [Next]_rngVars
  PROVE  BlockInv'
<1> USE DEF sharedVars, callVars, historyVars
<1>0. /\ ctr \in Nat /\ state \in States /\ state.key \in Seq(Nat)
      /\ state.pos \in Nat /\ loc \in [Threads -> Locals]
      /\ given \subseteq Octets /\ state.block \subseteq Octets
  BY DEF TypeOK, States
<1>1. /\ \A b \in state.block :
           b[1] = state.key /\ b[2] < state.pos /\ b \notin given
      /\ ctr = 0 <=> state.key = <<>>
      /\ state.key = <<>> => state.pos = 0
  BY DEF StreamInv, BlockInv
<1>2. CASE UNCHANGED <<given, state, ctr>>
  BY <1>1, <1>2 DEF BlockInv
<1>3. ASSUME UNCHANGED given, state'.block = {}, state'.pos = 0,
             ctr' = 0 <=> state'.key = <<>>
      PROVE  BlockInv'
  BY <1>3 DEF BlockInv
<1>4. ASSUME NEW t \in Threads, Deliver(t) \/ Mix(t) \/ NewKey(t)
      PROVE  BlockInv'
  <2>1. /\ Drawn(t) \cap given = {} /\ Drawn(t) \cap state.block = {}
        /\ state.key # <<>> /\ loc[t].pos = state.pos /\ loc[t].n \in Nat
    <3>1. pc[t] = "drawn"
      BY <1>4 DEF Deliver, Mix, NewKey
    <3> QED
      BY <1>0, <3>1, DrawnNew DEF StreamInv, DrawInv, Locals
  <2>2. /\ state'.key = state.key /\ state'.pos = state.pos + loc[t].n
        /\ ctr' = ctr
    BY <1>0, <1>4, <2>1 DEF Deliver, Mix, NewKey, Advanced, States
  <2>3. \/ state'.block = state.block /\ given' = given \cup Drawn(t)
        \/ state'.block = Drawn(t) /\ given' = given
    BY <1>0, <1>4 DEF Deliver, Mix, NewKey, Advanced, States
  <2>4. \A b \in Drawn(t) : b[1] = state.key /\ b[2] < state.pos + loc[t].n
    BY <1>0, <2>1 DEF Drawn, Span
  <2>5. \A b \in state.block : b[2] \in Nat
    BY <1>0 DEF Octets
  <2>6. ASSUME NEW b \in state'.block
        PROVE  b[1] = state'.key /\ b[2] < state'.pos /\ b \notin given'
    BY <1>0, <1>1, <2>1, <2>2, <2>3, <2>4, <2>5
  <2> QED
    BY <1>1, <2>1, <2>2, <2>6 DEF BlockInv
<1>5. ASSUME NEW t \in Threads, Rekey(t)
      PROVE  BlockInv'
  <2>1. /\ UNCHANGED <<given, ctr>> /\ state'.block = {} /\ state'.pos = 0
        /\ state'.key = Append(state.key, loc[t].pos) /\ ctr # 0
    BY <1>0, <1>5 DEF Rekey, Started, States, AgreeInv
  <2>2. Len(state'.key) = Len(state.key) + 1 /\ Len(state.key) \in Nat
    <3>1. loc[t].pos \in Nat
      BY <1>0 DEF Locals
    <3> QED
      BY <1>0, <2>1, <3>1, AppendProperties
  <2>3. state'.key # <<>>
    BY <2>2
  <2> QED
    BY <1>3, <2>1, <2>3
<1>6. ASSUME NEW t \in Threads, PollEnough(t)
      PROVE  BlockInv'
  <2>1. /\ UNCHANGED given /\ state'.block = {} /\ state'.pos = 0
        /\ state'.key = <<seeds>> /\ ctr' = 1
    BY <1>0, <1>6 DEF PollEnough, Started, States
  <2> QED
    BY <1>3, <2>1
<1>7. ASSUME NEW t \in Threads, InCreate(t) \/ PollFail(t)
      PROVE  BlockInv'
  <2>1. ctr = 0 /\ ctr' = ctr /\ UNCHANGED given
    BY <1>7 DEF InCreate, PollFail, AgreeInv
  <2>2. \/ state' = state
        \/ state'.key = <<>> /\ state'.block = {} /\ state'.pos = 0
    BY <1>7 DEF InCreate, PollFail, NoState
  <2> QED
    BY <1>2, <1>3, <2>1, <2>2
<1>8. ASSUME NEW t \in Threads, InCreateAgain(t) \/ Count(t)
      PROVE  BlockInv'
  <2>1. /\ ctr # 0 /\ ctr' \in Nat /\ ctr' # 0 /\ UNCHANGED given
        /\ state' = state \/ state' = [state EXCEPT !.block = {}]
    BY <1>0, <1>8 DEF InCreateAgain, Count, AgreeInv
  <2>2. /\ state'.key = state.key /\ state'.pos = state.pos
        /\ state'.block \subseteq state.block
    BY <1>0, <2>1 DEF States
  <2> QED
    BY <1>1, <2>1, <2>2 DEF BlockInv
<1>9. ASSUME NEW t \in Threads, InClose(t)
      PROVE  BlockInv'
  <2>1. ctr # 0 /\ ctr' = ctr - 1 /\ UNCHANGED given
    BY <1>9 DEF InClose, IsValid
  <2>2. \/ ctr' = 0 /\ state' = NoState
        \/ ctr' # 0 /\ state' = state
    BY <1>9 DEF InClose
  <2> QED
    BY <1>1, <1>3, <2>1, <2>2 DEF BlockInv, NoState
<1>10. CASE Destroy
  BY <1>3, <1>10 DEF Destroy, NoState
<1>11. ASSUME NEW t \in Threads,
              \/ Call(t) \/ OnceStep(t) \/ Lock(t) \/ SignStepR(t) \/ Return(t)
              \/ InIsValid(t) \/ Poll(t) \/ InStep(t) \/ Draw(t) \/ Unlock(t)
       PROVE  UNCHANGED <<given, state, ctr>>
  BY <1>11 DEF Call, CallCreate, CallStepR, CallRekey, CallIsValid, CallSign,
     CallClose, OnceStep, OnceWon, OnceFound, OnceLeave, InitEnter, InitMtx,
     InitOnExit, InitLeave, OncePublish, CreateTest, Lock, SignStepR, Return,
     InIsValid, Poll, InStep, Draw, Unlock
<1>12. CASE UNCHANGED rngVars
  BY <1>2, <1>12 DEF rngVars
<1> QED
  BY <1>2, <1>4, <1>5, <1>6, <1>7, <1>8, <1>9, <1>10, <1>11, <1>12
     DEF Next, Step, Inside

(* A call moves the thread that makes it and no other.                     *)
LEMMA OthersStay ==
  ASSUME TypeOK, NEW t \in Threads, Call(t) \/ Step(t),
         NEW s \in Threads, s # t
  PROVE  pc'[s] = pc[s] /\ loc'[s] = loc[s] /\ op'[s] = op[s]
<1> USE DEF TypeOK, Goto, sharedVars, callVars, historyVars
<1>1. CASE Call(t)
  BY <1>1 DEF Call, CallCreate, CallStepR, CallRekey, CallIsValid, CallSign,
     CallClose
<1>2. CASE OnceStep(t)
  BY <1>2 DEF OnceStep, OnceWon, OnceFound, OnceLeave, InitEnter, InitMtx,
     InitOnExit, InitLeave, OncePublish, CreateTest
<1>3. CASE Lock(t) \/ SignStepR(t) \/ Return(t)
  BY <1>3 DEF Lock, SignStepR, Return
<1>4. CASE \/ InIsValid(t) \/ InCreateAgain(t) \/ InCreate(t) \/ Poll(t)
           \/ PollFail(t) \/ PollEnough(t) \/ Count(t)
  BY <1>4 DEF InIsValid, InCreateAgain, InCreate, Poll, PollFail, PollEnough,
     Count
<1>5. CASE \/ InStep(t) \/ Draw(t) \/ Deliver(t) \/ Mix(t) \/ NewKey(t)
           \/ Rekey(t) \/ InClose(t) \/ Unlock(t)
  BY <1>5 DEF InStep, Draw, Deliver, Mix, NewKey, Rekey, InClose, Unlock
<1> QED
  BY <1>1, <1>2, <1>3, <1>4, <1>5 DEF Step, Inside

(* What a thread has read of the stream stays true while it has the mutex. *)
LEMMA DrawStep ==
  ASSUME TypeOK, MutexInv, AgreeInv, StreamInv, [Next]_rngVars
  PROVE  DrawInv'
<1> USE DEF Goto, sharedVars, callVars, historyVars
<1>0. /\ pc \in [Threads -> Places] /\ op \in [Threads -> Ops]
      /\ loc \in [Threads -> Locals] /\ state \in States
  BY DEF TypeOK
<1>1. ASSUME NEW t \in Threads, Call(t) \/ Step(t), NEW s \in Threads
      PROVE  /\ pc'[s] = "drawn" => loc'[s].pos = state'.pos
             /\ pc'[s] = "rekey" =>
                  \A g \in given' : Behind(g, state'.key, loc'[s].pos)
             /\ \/ pc'[s] \in {"draw", "drawn"}
                \/ pc'[s] \in {"lock", "in"} /\ op'[s] \in {"stepR", "rekey"}
                => loc'[s].n > 0
             /\ Creating(s)' => op'[s] = "create"
  <2>0. /\ pc[s] = "drawn" => loc[s].pos = state.pos
        /\ pc[s] = "rekey" =>
             \A g \in given : Behind(g, state.key, loc[s].pos)
        /\ \/ pc[s] \in {"draw", "drawn"}
           \/ pc[s] \in {"lock", "in"} /\ op[s] \in {"stepR", "rekey"}
           => loc[s].n > 0
        /\ Creating(s) => op[s] = "create"
    BY DEF StreamInv, DrawInv
  <2>1. CASE s # t
    <3>1. pc'[s] = pc[s] /\ loc'[s] = loc[s] /\ op'[s] = op[s]
      BY <1>1, <2>1, OthersStay
    <3>2. CASE UNCHANGED <<state, given>>
      BY <2>0, <3>1, <3>2 DEF Creating
    <3>3. CASE pc[t] \in Locked
      <4>1. pc[s] \notin Locked
        BY <2>1, <3>3 DEF MutexInv, LockInv
      <4> QED
        BY <2>0, <3>1, <4>1 DEF Creating, Locked
    <3>4. pc[t] \in Locked \/ UNCHANGED <<state, given>>
      <4>1. ASSUME Inside(t)
            PROVE  pc[t] \in Locked
        BY <4>1 DEF Inside, InIsValid, InCreateAgain, InCreate, Poll, PollFail,
           PollEnough, Count, InStep, Draw, Deliver, Mix, NewKey, Rekey,
           InClose, Unlock, Locked
      <4>2. ASSUME \/ Call(t) \/ OnceStep(t) \/ Lock(t) \/ SignStepR(t)
                   \/ Return(t)
            PROVE  UNCHANGED <<state, given>>
        BY <4>2 DEF Call, CallCreate, CallStepR, CallRekey, CallIsValid,
           CallSign, CallClose, OnceStep, OnceWon, OnceFound, OnceLeave,
           InitEnter, InitMtx, InitOnExit, InitLeave, OncePublish, CreateTest,
           Lock, SignStepR, Return
      <4> QED
        BY <1>1, <4>1, <4>2 DEF Step
    <3> QED
      BY <3>2, <3>3, <3>4
  <2>2. CASE s = t
    <3> USE <1>0, <2>0, <2>2 DEF Creating
    <3>1. CASE CallCreate(t)
      BY <3>1 DEF CallCreate
    <3>2. CASE CallStepR(t) \/ CallRekey(t)
      <4>1. PICK n \in Nat \ {0} : loc' = [loc EXCEPT ![t].n = n]
        BY <3>2, RngAssumption DEF CallStepR, CallRekey
      <4>2. pc'[t] = "lock" /\ loc'[t].n = n
        BY <3>2, <4>1 DEF CallStepR, CallRekey, Locals
      <4> QED
        BY <4>2
    <3>3. CASE CallIsValid(t)
      BY <3>3 DEF CallIsValid
    <3>4. CASE CallSign(t) \/ CallClose(t)
      BY <3>4 DEF CallSign, CallClose
    <3>5. CASE OnceStep(t)
      BY <3>5 DEF OnceStep, OnceWon, OnceFound, OnceLeave, InitEnter, InitMtx,
         InitOnExit, InitLeave, OncePublish, CreateTest
    <3>6. CASE Lock(t) \/ Return(t) \/ Unlock(t) \/ InIsValid(t)
      BY <3>6 DEF Lock, Return, Unlock, InIsValid
    <3>7. CASE SignStepR(t)
      <4>1. PICK n \in Nat \ {0} : loc' = [loc EXCEPT ![t] = [Idle EXCEPT !.n = n]]
        BY <3>7, RngAssumption DEF SignStepR
      <4>2. pc'[t] = "lock" /\ loc'[t].n = n
        BY <3>7, <4>1 DEF SignStepR, Idle
      <4> QED
        BY <4>2
    <3>8. CASE InCreateAgain(t)
      <4>1. /\ op'[t] = "create"
            /\ \/ pc'[t] = "count"
               \/ pc'[t] = "draw" /\ loc'[t].n = KeyLen
        BY <3>8 DEF InCreateAgain, Locals
      <4> QED
        BY <4>1, RngAssumption
    <3>9. CASE InCreate(t) \/ Poll(t) \/ PollFail(t) \/ PollEnough(t) \/ Count(t)
      BY <3>9 DEF InCreate, Poll, PollFail, PollEnough, Count
    <3>10. CASE InStep(t)
      BY <3>10 DEF InStep
    <3>11. CASE Draw(t)
      <4>1. /\ pc'[t] = "drawn" /\ pc[t] = "draw" /\ state' = state
            /\ loc'[t].pos = state.pos /\ loc'[t].n = loc[t].n
        BY <3>11 DEF Draw, Locals
      <4> QED
        BY <4>1
    <3>12. CASE Deliver(t) \/ Rekey(t) \/ InClose(t)
      BY <3>12 DEF Deliver, Rekey, InClose
    <3>13. CASE Mix(t)
      BY <3>13 DEF Mix
    <3>14. CASE NewKey(t)
      <4>1. /\ pc[t] = "drawn" /\ pc'[t] = "rekey" /\ UNCHANGED <<loc, given>>
            /\ state'.key = state.key
        BY <3>14 DEF NewKey, Advanced, States
      <4>2. \A g \in given : Behind(g, state.key, loc[t].pos)
        <5>1. state.key # <<>>
          BY <4>1, DrawnNew DEF StreamInv
        <5> QED
          BY <4>1, <5>1 DEF StreamInv, GivenInv
      <4> QED
        BY <4>1, <4>2 DEF Behind
    <3> QED
      BY <1>1, <3>1, <3>2, <3>3, <3>4, <3>5, <3>6, <3>7, <3>8, <3>9, <3>10,
         <3>11, <3>12, <3>13, <3>14 DEF Call, Step, Inside
  <2> QED
    BY <2>1, <2>2
<1>2. CASE \E t \in Threads : Call(t) \/ Step(t)
  BY <1>1, <1>2 DEF DrawInv, Behind
<1>3. CASE Destroy
  <2>1. \A t \in Threads : pc'[t] = "idle"
    BY <1>3 DEF Destroy
  <2> QED
    BY <2>1 DEF DrawInv, Creating
<1>4. CASE UNCHANGED rngVars
  BY <1>4 DEF rngVars, StreamInv, DrawInv, Behind, Creating
<1> QED
  BY <1>2, <1>3, <1>4 DEF Next
-----------------------------------------------------------------------------
(* The stream invariant holds whoever generates: it only asks that nobody  *)
(* uses the generator after rngDestroy().                                  *)
THEOREM StreamInductive ==
  ASSUME LateClosers = {}
  PROVE  Spec => [](AgreeInv /\ StreamInv)
<1>1. Init => AgreeInv /\ StreamInv
  BY FS_EmptySet
  DEF Init, AgreeInv, StreamInv, GivenInv, BlockInv, DrawInv, Creating, NoState
<1>2. TypeOK /\ MutexInv /\ MutexInv' /\ AgreeInv /\ StreamInv /\ [Next]_rngVars
        => AgreeInv' /\ StreamInv'
  BY AgreeStep, GivenStep, BlockStep, DrawStep DEF StreamInv
<1>3. QED
  BY <1>1, <1>2, TypeCorrect, MutexInductive, PTL DEF Spec

(* No octet of the generator goes to two callers, and none of those that   *)
(* the next ones are made of goes to anybody: however the calls of the     *)
(* threads interleave, across rngRekey(), rngClose() and rngCreate(), and  *)
(* whether or not the threads that generate hold references.               *)
THEOREM OutputFreshCorrect ==
  ASSUME LateClosers = {}
  PROVE  Spec => []OutputFresh
<1>1. TypeOK /\ StreamInv => OutputFresh
  <2> SUFFICES ASSUME TypeOK, StreamInv
               PROVE  OutputFresh
    OBVIOUS
  <2>1. NoRepeat
    BY DEF StreamInv, GivenInv, NoRepeat
  <2>2. ASSUME state.key # <<>>
        PROVE  /\ given \cap (KeyOctets(state.key) \cup state.block) = {}
               /\ state.block \cap KeyOctets(state.key) = {}
    <3> DEFINE key == state.key
               front == SubSeq(key, 1, Len(key) - 1)
    <3>1. /\ key \in Seq(Nat) /\ Len(key) \in Nat /\ Len(key) >= 1
          /\ given \subseteq Octets
      BY <2>2 DEF TypeOK, States
    <3>2. /\ Len(front) = Len(key) - 1
          /\ \A i \in 1 .. Len(key) - 1 : front[i] = key[i]
      <4>1. \A i \in 1 .. Len(key) - 1 : key[i] \in Nat
        BY <3>1
      <4> HIDE DEF key
      <4>2. /\ Len(front) = IF 1 <= Len(key) - 1 THEN (Len(key) - 1) - 1 + 1 ELSE 0
            /\ \A i \in 1 .. (Len(key) - 1) - 1 + 1 : front[i] = key[1 + i - 1]
        BY <3>1, <4>1, SubSeqProperties
      <4>3. /\ (Len(key) - 1) - 1 + 1 = Len(key) - 1
            /\ \A i \in 1 .. Len(key) - 1 : 1 + i - 1 = i
        BY <3>1
      <4> QED
        BY <3>1, <4>2, <4>3
    <3>3. ASSUME NEW o \in KeyOctets(key)
          PROVE  o[1] = front /\ o[2] >= key[Len(key)] /\ o[2] \in Nat
      BY <3>1 DEF KeyOctets, Span
    <3>4. ASSUME NEW g \in given, g \in KeyOctets(key)
          PROVE  FALSE
      <4>1. /\ g[1] # <<>> /\ Behind(g, key, state.pos)
        BY <2>2 DEF StreamInv, GivenInv
      <4>2. g[1] = front /\ g[1] \in Seq(Nat)
        BY <3>1, <3>3, <3>4 DEF Octets
      <4>3. Len(g[1]) # 0 /\ Len(g[1]) = Len(key) - 1
        BY <3>2, <4>1, <4>2
      <4>4. g[1][1] = key[1]
        BY <3>1, <3>2, <4>2, <4>3
      <4>5. g[2] < key[Len(key)]
        BY <3>1, <4>1, <4>3, <4>4 DEF Behind
      <4> QED
        BY <3>1, <3>3, <3>4, <4>5
    <3>5. ASSUME NEW b \in state.block
          PROVE  b \notin given /\ b \notin KeyOctets(key)
      <4>1. b[1] = key /\ b \notin given
        BY DEF StreamInv, BlockInv
      <4>2. front # key
        BY <3>1, <3>2
      <4> QED
        BY <3>3, <4>1, <4>2
    <3> QED
      BY <3>4, <3>5
  <2>3. KeySecret
    BY <2>2 DEF KeySecret
  <2> QED
    BY <2>1, <2>3 DEF OutputFresh
<1>2. QED
  BY <1>1, TypeCorrect, StreamInductive, PTL
-----------------------------------------------------------------------------
(* Whoever draws octets for itself or for a new key holds a reference.     *)
UserInv ==
  \A t \in Threads :
    pc[t] \in {"draw", "drawn", "rekey"} /\ op[t] \in {"stepR", "rekey"}
      => Holds(t)

LEMMA UserStep ==
  ASSUME TypeOK, MutexInv, HoldInv, UserInv, [Next]_rngVars
  PROVE  UserInv'
<1> USE DEF Goto, sharedVars, callVars, historyVars
<1>0. pc \in [Threads -> Places] /\ op \in [Threads -> Ops]
  BY DEF TypeOK
<1>1. ASSUME NEW t \in Threads, Call(t) \/ Step(t), NEW s \in Threads,
             pc'[s] \in {"draw", "drawn", "rekey"},
             op'[s] \in {"stepR", "rekey"}
      PROVE  Holds(s)'
  <2>1. CASE s # t
    <3>1. Holds(s)
      BY <1>1, <2>1, OthersStay DEF UserInv
    <3>2. CASE UNCHANGED refs
      BY <3>1, <3>2 DEF Holds
    <3>3. ASSUME PollEnough(t) \/ Count(t) \/ InClose(t)
          PROVE  FALSE
      <4>1. pc[t] \in Locked /\ pc[s] \in Locked
        BY <1>1, <2>1, <3>3, OthersStay DEF PollEnough, Count, InClose, Locked
      <4> QED
        BY <2>1, <4>1 DEF MutexInv, LockInv
    <3>4. UNCHANGED refs \/ PollEnough(t) \/ Count(t) \/ InClose(t)
      BY <1>1 DEF Call, CallCreate, CallStepR, CallRekey, CallIsValid,
         CallSign, CallClose, Step, OnceStep, OnceWon, OnceFound, OnceLeave,
         InitEnter, InitMtx, InitOnExit, InitLeave, OncePublish, CreateTest,
         Lock, SignStepR, Return, Inside, InIsValid, InCreateAgain, InCreate,
         Poll, PollFail, InStep, Draw, Deliver, Mix, NewKey, Rekey, Unlock
    <3> QED
      BY <3>2, <3>3, <3>4
  <2>2. CASE s = t
    <3>1. InStep(t) \/ Draw(t) \/ NewKey(t) \/ InCreateAgain(t)
      <4>1. ~ Call(t)
        BY <1>0, <1>1, <2>2 DEF Call, CallCreate, CallStepR, CallRekey,
           CallIsValid, CallSign, CallClose
      <4>2. ~ OnceStep(t)
        BY <1>0, <1>1, <2>2 DEF OnceStep, OnceWon, OnceFound, OnceLeave,
           InitEnter, InitMtx, InitOnExit, InitLeave, OncePublish, CreateTest
      <4>3. ~ Lock(t) /\ ~ SignStepR(t) /\ ~ Return(t)
        BY <1>0, <1>1, <2>2 DEF Lock, SignStepR, Return
      <4>4. /\ ~ InIsValid(t) /\ ~ InCreate(t) /\ ~ PollFail(t)
            /\ ~ PollEnough(t) /\ ~ Count(t)
        BY <1>0, <1>1, <2>2 DEF InIsValid, InCreate, PollFail, PollEnough, Count
      <4>5. ~ Deliver(t) /\ ~ Mix(t) /\ ~ Rekey(t) /\ ~ InClose(t) /\ ~ Unlock(t)
        BY <1>0, <1>1, <2>2 DEF Deliver, Mix, Rekey, InClose, Unlock
      <4>6. ~ Poll(t)
        BY <1>0, <1>1, <2>2 DEF Poll
      <4> QED
        BY <1>1, <4>1, <4>2, <4>3, <4>4, <4>5, <4>6 DEF Step, Inside
    <3>2. UNCHANGED <<refs, op>>
      BY <3>1 DEF InStep, Draw, NewKey, InCreateAgain
    <3>3. Holds(t)
      BY <1>0, <1>1, <2>2, <3>1, <3>2
         DEF InStep, Draw, NewKey, InCreateAgain, UserInv, HoldInv
    <3> QED
      BY <2>2, <3>2, <3>3 DEF Holds
  <2> QED
    BY <2>1, <2>2
<1>2. CASE \E t \in Threads : Call(t) \/ Step(t)
  BY <1>1, <1>2 DEF UserInv
<1>3. CASE Destroy
  BY <1>3 DEF Destroy, UserInv
<1>4. CASE UNCHANGED rngVars
  BY <1>4 DEF rngVars, UserInv, Holds
<1> QED
  BY <1>2, <1>3, <1>4 DEF Next

LEMMA UserInvariant ==
  ASSUME Guests = {}, LateClosers = {}
  PROVE  Spec => []UserInv
<1>1. Init => UserInv
  BY DEF Init, UserInv
<1>2. TypeOK /\ MutexInv /\ RefInv /\ UserInv /\ [Next]_rngVars => UserInv'
  BY UserStep DEF RefInv
<1>3. QED
  BY <1>1, <1>2, TypeCorrect, MutexInductive, RefInductive, PTL DEF Spec
-----------------------------------------------------------------------------
(* The generator is the shared stream of RngService: what a call does to   *)
(* the stream it does in one step, and the steps around it do nothing.     *)
LEMMA ServiceStep ==
  ASSUME TypeOK, MutexInv, RefInv, RefInv', StreamInv, UserInv, Next
  PROVE  [Service!Next]_Service!serviceVars
<1> DEFINE Goal == [Service!Next]_Service!serviceVars
<1> USE DEF sharedVars, callVars, historyVars
<1>0. /\ state \in States /\ state.key \in Seq(Nat) /\ state.pos \in Nat
      /\ loc \in [Threads -> Locals] /\ seeds \in Nat /\ given \subseteq Octets
  BY DEF TypeOK, States
<1>1. ASSUME UNCHANGED <<exited, refs, given>>,
             state'.key = state.key, state'.pos = state.pos
      PROVE  Goal
  BY <1>1 DEF Service!serviceVars
<1>2. ASSUME NEW t \in Threads, pc[t] # "idle"
      PROVE  ~ exited
  BY <1>2 DEF MutexInv, LockInv
<1>3. ~ exited => (ctr = 0 <=> refs = {})
  BY FS_EmptySet DEF RefInv, CountInv
<1>4. ~ exited' => (ctr' = 0 <=> refs' = {})
  <2>1. ~ exited' => IsFiniteSet(refs') /\ ctr' = Cardinality(refs')
    BY DEF RefInv, CountInv
  <2> QED
    BY <2>1, FS_EmptySet
<1>5. ASSUME NEW t \in Threads, PollEnough(t)
      PROVE  Goal
  <2>1. /\ ~ exited /\ ctr = 0 /\ UNCHANGED <<exited, given>>
        /\ state'.key = <<seeds>> /\ state'.pos = 0
        /\ \E i \in RefIds : refs' = refs \cup {<<t, i>>}
    BY <1>0, <1>2, <1>5 DEF PollEnough, RefInv, AgreeInv, Started, States
  <2>2. refs = {} /\ \E i \in RefIds : refs' = {<<t, i>>}
    BY <1>3, <2>1
  <2>3. state.key = <<>>
    BY <2>1 DEF StreamInv, BlockInv
  <2>4. \A g \in given : g[1] # <<seeds>>
    <3>1. \A g \in given : g[1][1] < seeds
      BY DEF StreamInv, GivenInv
    <3>2. <<seeds>>[1] = seeds /\ ~ (seeds < seeds)
      BY <1>0
    <3> QED
      BY <3>1, <3>2
  <2>5. state'.key \notin {state.key, <<>>} \cup {g[1] : g \in given}
    BY <2>1, <2>3, <2>4
  <2>6. Service!Open(t)
    BY <2>1, <2>2, <2>5 DEF Service!Open, Service!Fresh
  <2> QED
    BY <2>6 DEF Service!Next
<1>6. ASSUME NEW t \in Threads, Count(t)
      PROVE  Goal
  <2>1. /\ ~ exited /\ ctr # 0 /\ UNCHANGED <<exited, state, given>>
        /\ \E i \in RefIds : <<t, i>> \notin refs /\ refs' = refs \cup {<<t, i>>}
    BY <1>2, <1>6 DEF Count, RefInv, AgreeInv
  <2>2. Service!Share(t)
    BY <1>3, <2>1 DEF Service!Share
  <2> QED
    BY <2>2 DEF Service!Next
<1>7. ASSUME NEW t \in Threads, Mix(t) \/ NewKey(t)
      PROVE  Goal
  <2>1. /\ pc[t] = "drawn" /\ loc[t].pos = state.pos
        /\ loc[t].n \in Nat /\ loc[t].n > 0
    BY <1>0, <1>7 DEF Mix, NewKey, StreamInv, DrawInv, Locals
  <2>2. state.key # <<>>
    BY <2>1, DrawnNew DEF RefInv, StreamInv
  <2>3. state' = [Advanced(t) EXCEPT !.block = Drawn(t)]
        /\ UNCHANGED <<exited, refs, given>>
    BY <1>7 DEF Mix, NewKey
  <2>4. state'.key = state.key /\ state'.pos = state.pos + loc[t].n
    BY <1>0, <2>1, <2>3 DEF Advanced, States
  <2>5. Service!Skip
    BY <1>0, <2>1, <2>2, <2>3, <2>4 DEF Service!Skip
  <2> QED
    BY <2>5 DEF Service!Next
<1>8. ASSUME NEW t \in Threads, Deliver(t)
      PROVE  Goal
  <2>1. /\ pc[t] = "drawn" /\ op[t] = "stepR" /\ ~ exited
        /\ loc[t].pos = state.pos /\ loc[t].n \in Nat /\ loc[t].n > 0
    BY <1>0, <1>2, <1>8 DEF Deliver, StreamInv, DrawInv, Locals
  <2>2. Holds(t)
    BY <2>1 DEF UserInv
  <2>3. state' = Advanced(t) /\ given' = given \cup Drawn(t)
        /\ UNCHANGED <<exited, refs>>
    BY <1>8 DEF Deliver
  <2>4. state'.key = state.key /\ state'.pos = state.pos + loc[t].n
    <3>1. state' = [state EXCEPT !.pos = state.pos + loc[t].n]
      BY <2>1, <2>3 DEF Advanced
    <3> QED
      BY <1>0, <3>1 DEF States
  <2>5. Drawn(t) = {<<state.key, p>> : p \in state.pos .. state'.pos - 1}
    <3>1. state'.pos - 1 = state.pos + loc[t].n - 1
      BY <1>0, <2>1, <2>4
    <3>2. Drawn(t) = {<<state.key, p>> : p \in state.pos .. state.pos + loc[t].n - 1}
      BY <2>1, Zenon DEF Drawn, Span
    <3> QED
      BY <3>1, <3>2, Zenon
  <2>6. Service!Deliver(t)
    BY <1>0, <2>1, <2>2, <2>3, <2>4, <2>5
       DEF Service!Deliver, Service!Holds, Holds
  <2> QED
    BY <2>6 DEF Service!Next
<1>9. ASSUME NEW t \in Threads, Rekey(t)
      PROVE  Goal
  <2>1. /\ pc[t] = "rekey" /\ ~ exited /\ UNCHANGED <<exited, refs, given>>
        /\ state'.key = Append(state.key, loc[t].pos) /\ state'.pos = 0
        /\ loc[t].pos \in Nat
    BY <1>0, <1>2, <1>9 DEF Rekey, Started, States, Locals
  <2>2. Holds(t)
    BY <2>1 DEF UserInv, RefInv, HoldInv
  <2>3. /\ Len(state'.key) = Len(state.key) + 1 /\ Len(state.key) \in Nat
        /\ \A i \in 1 .. Len(state.key) : state'.key[i] = state.key[i]
    BY <1>0, <2>1, AppendProperties
  <2>4. state.key # <<>> /\ Len(state.key) >= 1
    <3>1. state.key # <<>>
      BY <2>1 DEF RefInv, AgreeInv, StreamInv, BlockInv
    <3> QED
      BY <1>0, <3>1
  <2>5. ASSUME NEW g \in given
        PROVE  g[1] # state'.key
    <3>1. Behind(g, state.key, state.pos)
      BY <2>4 DEF StreamInv, GivenInv
    <3>2. CASE g[1][1] = state.key[1]
      BY <2>3, <3>1, <3>2 DEF Behind
    <3>3. CASE g[1][1] # state.key[1]
      BY <2>3, <2>4, <3>3
    <3> QED
      BY <3>2, <3>3
  <2>6. state'.key # state.key /\ state'.key # <<>>
    BY <2>3
  <2>7. Service!Renew(t)
    BY <2>1, <2>2, <2>5, <2>6
       DEF Service!Renew, Service!Fresh, Service!Holds, Holds
  <2> QED
    BY <2>7 DEF Service!Next
<1>10. ASSUME NEW t \in Threads, InClose(t)
       PROVE  Goal
  <2>1. /\ ~ exited /\ UNCHANGED <<exited, given>>
        /\ \E i \in RefIds : <<t, i>> \in refs /\ refs' = refs \ {<<t, i>>}
    BY <1>2, <1>10 DEF InClose
  <2>2. IF refs' = {} THEN state'.key = <<>> /\ state'.pos = 0
                      ELSE UNCHANGED state
    BY <1>4, <1>10, <2>1 DEF InClose, NoState
  <2>3. Service!Release(t)
    BY <2>1, <2>2 DEF Service!Release
  <2> QED
    BY <2>3 DEF Service!Next
<1>11. ASSUME NEW t \in Threads, InCreate(t) \/ PollFail(t)
       PROVE  Goal
  <2>1. ctr = 0 /\ UNCHANGED <<exited, refs, given>>
    BY <1>11 DEF InCreate, PollFail, RefInv, AgreeInv
  <2>2. state.key = <<>> /\ state.pos = 0
    BY <2>1 DEF StreamInv, BlockInv
  <2>3. \/ state' = state
        \/ state'.key = <<>> /\ state'.pos = 0
    BY <1>11 DEF InCreate, PollFail, NoState
  <2> QED
    BY <1>1, <2>1, <2>2, <2>3
<1>12. ASSUME NEW t \in Threads, InCreateAgain(t)
       PROVE  Goal
  BY <1>0, <1>1, <1>12 DEF InCreateAgain, States
<1>13. ASSUME NEW t \in Threads,
              \/ Call(t) \/ OnceStep(t) \/ Lock(t) \/ SignStepR(t) \/ Return(t)
              \/ InIsValid(t) \/ Poll(t) \/ InStep(t) \/ Draw(t) \/ Unlock(t)
       PROVE  Goal
  <2>1. UNCHANGED <<exited, refs, given, state>>
    BY <1>13 DEF Call, CallCreate, CallStepR, CallRekey, CallIsValid, CallSign,
       CallClose, OnceStep, OnceWon, OnceFound, OnceLeave, InitEnter, InitMtx,
       InitOnExit, InitLeave, OncePublish, CreateTest, Lock, SignStepR, Return,
       InIsValid, Poll, InStep, Draw, Unlock
  <2> QED
    BY <1>1, <2>1
<1>14. CASE Destroy
  <2>1. exited' = TRUE /\ UNCHANGED given
        /\ state'.key = <<>> /\ state'.pos = 0
    BY <1>14 DEF Destroy, NoState
  <2>2. Service!Shutdown
    BY <2>1 DEF Service!Shutdown
  <2> QED
    BY <2>2 DEF Service!Next
<1> QED
  BY <1>5, <1>6, <1>7, <1>8, <1>9, <1>10, <1>11, <1>12, <1>13, <1>14
     DEF Next, Step, Inside
-----------------------------------------------------------------------------
(* The trigger of rngCreate() goes the way of mtCallOnce().  A thread that *)
(* moves on moves one place on there, or none.                             *)
LEMMA PlaceMoves ==
  ASSUME TypeOK, NEW t \in Threads, NEW l,
         pc' = [pc EXCEPT ![t] = l]
  PROVE  [s \in Threads |-> OncePlace(s)]'
           = [[s \in Threads |-> OncePlace(s)] EXCEPT ![t] = OncePlace(t)']
<1>1. ASSUME NEW s \in Threads, s # t
      PROVE  OncePlace(s)' = OncePlace(s)
  BY <1>1 DEF OncePlace, TypeOK
<1> QED
  BY <1>1, Zenon

LEMMA FoundMoves ==
  ASSUME TypeOK, NEW t \in Threads, NEW l,
         pc' = [pc EXCEPT ![t] = l]
  PROVE  [s \in Threads |-> IF pc[s] = "found" THEN 1 ELSE 0]'
           = [[s \in Threads |-> IF pc[s] = "found" THEN 1 ELSE 0]
                EXCEPT ![t] = IF l = "found" THEN 1 ELSE 0]
BY DEF TypeOK

LEMMA TriggerStep ==
  ASSUME TypeOK, OnceInv, Next
  PROVE  [Trigger!Next]_Trigger!onceVars
<1> DEFINE Goal == [Trigger!Next]_Trigger!onceVars
<1> USE DEF Goto, sharedVars, callVars, historyVars
<1>0. /\ pc \in [Threads -> Places] /\ once \in {0, 1, SIZE_MAX}
      /\ SIZE_MAX \in Nat /\ SIZE_MAX > 1
  BY RngAssumption DEF TypeOK
<1>1. ASSUME UNCHANGED once, NEW t \in Threads,
             NEW l, pc' = [pc EXCEPT ![t] = l],
             {pc[t], l} \cap {"once", "won", "found", "init", "onExit",
                              "inited", "publish", "test"} = {}
      PROVE  Goal
  <2>1. OncePlace(t) = "idle" /\ OncePlace(t)' = "idle"
    BY <1>0, <1>1 DEF OncePlace
  <2>2. [s \in Threads |-> OncePlace(s)]' = [s \in Threads |-> OncePlace(s)]
    BY <1>1, <2>1, PlaceMoves
  <2>3. [s \in Threads |-> IF pc[s] = "found" THEN 1 ELSE 0]'
          = [s \in Threads |-> IF pc[s] = "found" THEN 1 ELSE 0]
    BY <1>1, FoundMoves
  <2>4. InitBegun' = InitBegun /\ InitEnded' = InitEnded
    BY <1>0, <1>1 DEF InitBegun, InitEnded
  <2> QED
    BY <1>1, <2>2, <2>3, <2>4 DEF Trigger!onceVars
<1>2. ASSUME NEW t \in Threads, CallCreate(t)
      PROVE  Goal
  <2>1. pc[t] = "idle" /\ pc' = [pc EXCEPT ![t] = "once"] /\ once' = once
    BY <1>2 DEF CallCreate
  <2>2. OncePlace(t) = "idle" /\ OncePlace(t)' = "cas"
    BY <1>0, <2>1 DEF OncePlace
  <2>3. InitBegun' = InitBegun /\ InitEnded' = InitEnded
    BY <1>0, <2>1 DEF InitBegun, InitEnded
  <2>4. Trigger!Call(t)
    BY <1>0, <2>1, <2>2, <2>3, PlaceMoves, FoundMoves DEF Trigger!Call
  <2> QED
    BY <2>4 DEF Trigger!Next
<1>3. ASSUME NEW t \in Threads, OnceWon(t)
      PROVE  Goal
  <2>1. /\ pc[t] = "once" /\ pc' = [pc EXCEPT ![t] = "won"]
        /\ once = 0 /\ once' = SIZE_MAX
    BY <1>3 DEF OnceWon
  <2>2. OncePlace(t) = "cas" /\ OncePlace(t)' = "test"
    BY <1>0, <2>1 DEF OncePlace
  <2>3. \A s \in Threads : pc[s] \notin {"onExit", "inited", "publish"}
    BY <2>1 DEF OnceInv, Winner
  <2>4. InitBegun' = InitBegun /\ InitEnded' = InitEnded
    BY <1>0, <2>1, <2>3 DEF InitBegun, InitEnded
  <2>5. Trigger!CmpSwap(t)
    BY <1>0, <2>1, <2>2, <2>4, PlaceMoves, FoundMoves
       DEF Trigger!CmpSwap, Trigger!CmpSwapped
  <2> QED
    BY <2>5 DEF Trigger!Next, Trigger!Progress
<1>4. ASSUME NEW t \in Threads, OnceFound(t)
      PROVE  Goal
  <2>1. /\ pc[t] = "once" /\ pc' = [pc EXCEPT ![t] = "found"]
        /\ once = 1 /\ once' = once
    BY <1>0, <1>4 DEF OnceFound
  <2>2. OncePlace(t) = "cas" /\ OncePlace(t)' = "test"
    BY <1>0, <2>1 DEF OncePlace
  <2>3. InitBegun' = InitBegun /\ InitEnded' = InitEnded
    BY <1>0, <2>1 DEF InitBegun, InitEnded
  <2>4. [s \in Threads |-> OncePlace(s)]'
          = [[s \in Threads |-> OncePlace(s)] EXCEPT ![t] = "test"]
    BY <2>1, <2>2, PlaceMoves
  <2>5. [s \in Threads |-> IF pc[s] = "found" THEN 1 ELSE 0]'
          = [[s \in Threads |-> IF pc[s] = "found" THEN 1 ELSE 0]
               EXCEPT ![t] = 1]
    BY <2>1, FoundMoves
  <2>6. Trigger!CmpSwap(t)
    BY <1>0, <2>1, <2>2, <2>3, <2>4, <2>5
       DEF Trigger!CmpSwap, Trigger!CmpSwapped
  <2> QED
    BY <2>6 DEF Trigger!Next, Trigger!Progress
<1>5. ASSUME NEW t \in Threads, OnceLeave(t)
      PROVE  Goal
  <2>1. /\ pc[t] = "found" /\ pc' = [pc EXCEPT ![t] = "test"]
        /\ once' = once
    BY <1>5 DEF OnceLeave
  <2>2. OncePlace(t) = "test" /\ OncePlace(t)' = "ret"
    BY <1>0, <2>1 DEF OncePlace
  <2>3. InitBegun' = InitBegun /\ InitEnded' = InitEnded
    BY <1>0, <2>1 DEF InitBegun, InitEnded
  <2>4. [s \in Threads |-> OncePlace(s)]'
          = [[s \in Threads |-> OncePlace(s)] EXCEPT ![t] = "ret"]
    BY <2>1, <2>2, PlaceMoves
  <2>5. [s \in Threads |-> IF pc[s] = "found" THEN 1 ELSE 0]'
          = [[s \in Threads |-> IF pc[s] = "found" THEN 1 ELSE 0]
               EXCEPT ![t] = 0]
    <3>1. (IF "test" = "found" THEN 1 ELSE 0) = 0
      OBVIOUS
    <3>2. [s \in Threads |-> IF pc[s] = "found" THEN 1 ELSE 0]'
            = [[s \in Threads |-> IF pc[s] = "found" THEN 1 ELSE 0]
                 EXCEPT ![t] = IF "test" = "found" THEN 1 ELSE 0]
      BY <2>1, FoundMoves
    <3> QED
      BY <3>1, <3>2, Zenon
  <2>6. [s \in Threads |-> IF pc[s] = "found" THEN 1 ELSE 0][t] = 1
        /\ 1 \notin {0, SIZE_MAX}
    BY <1>0, <2>1
  <2>7. Trigger!Found(t)
    BY <2>1, <2>2, <2>3, <2>4, <2>5, <2>6, Zenon DEF Trigger!Found
  <2> QED
    BY <2>7 DEF Trigger!Next, Trigger!Progress
<1>6. ASSUME NEW t \in Threads, InitEnter(t)
      PROVE  Goal
  <2>1. /\ pc[t] = "won" /\ pc' = [pc EXCEPT ![t] = "init"]
        /\ once' = once
    BY <1>6 DEF InitEnter
  <2>2. OncePlace(t) = "test" /\ OncePlace(t)' = "fn"
    BY <1>0, <2>1 DEF OncePlace
  <2>3. InitBegun' = InitBegun /\ InitEnded' = InitEnded
    BY <1>0, <2>1 DEF InitBegun, InitEnded
  <2>4. [s \in Threads |-> IF pc[s] = "found" THEN 1 ELSE 0]'
          = [s \in Threads |-> IF pc[s] = "found" THEN 1 ELSE 0]
    BY <1>0, <2>1, FoundMoves
  <2>5. Trigger!Captured(t)
    BY <1>0, <2>1, <2>2, <2>3, <2>4, PlaceMoves DEF Trigger!Captured
  <2> QED
    BY <2>5 DEF Trigger!Next, Trigger!Progress
<1>7. ASSUME NEW t \in Threads, InitMtx(t)
      PROVE  Goal
  <2>1. PICK l \in {"onExit", "inited"} :
          /\ pc[t] = "init" /\ pc' = [pc EXCEPT ![t] = l] /\ once' = once
    BY <1>7 DEF InitMtx
  <2>2. OncePlace(t) = "fn" /\ OncePlace(t)' = "inFn"
    BY <1>0, <2>1 DEF OncePlace
  <2>3. once = SIZE_MAX /\ \A s \in Threads :
          s # t => pc[s] \notin {"onExit", "inited", "publish"}
    BY <2>1 DEF OnceInv, Winner
  <2>4. ~ InitBegun /\ InitBegun' /\ ~ InitEnded /\ ~ InitEnded'
    BY <1>0, <2>1, <2>3 DEF InitBegun, InitEnded
  <2>5. [s \in Threads |-> IF pc[s] = "found" THEN 1 ELSE 0]'
          = [s \in Threads |-> IF pc[s] = "found" THEN 1 ELSE 0]
    BY <1>0, <2>1, FoundMoves
  <2>6. [s \in Threads |-> OncePlace(s)]'
          = [[s \in Threads |-> OncePlace(s)] EXCEPT ![t] = "inFn"]
    BY <2>1, <2>2, PlaceMoves
  <2>7. Trigger!FnBegin(t)
    BY <1>0, <2>1, <2>2, <2>4, <2>5, <2>6 DEF Trigger!FnBegin
  <2> QED
    BY <2>7 DEF Trigger!Next, Trigger!Progress
<1>8. ASSUME NEW t \in Threads, InitOnExit(t)
      PROVE  Goal
  <2>1. /\ pc[t] = "onExit" /\ pc' = [pc EXCEPT ![t] = "inited"]
        /\ once' = once
    BY <1>8 DEF InitOnExit
  <2>2. OncePlace(t) = "inFn" /\ OncePlace(t)' = "inFn"
    BY <1>0, <2>1 DEF OncePlace
  <2>3. InitBegun' = InitBegun /\ InitEnded' = InitEnded
    BY <1>0, <2>1 DEF InitBegun, InitEnded
  <2>4. [s \in Threads |-> IF pc[s] = "found" THEN 1 ELSE 0]'
          = [s \in Threads |-> IF pc[s] = "found" THEN 1 ELSE 0]
    BY <1>0, <2>1, FoundMoves
  <2>5. [s \in Threads |-> OncePlace(s)]' = [s \in Threads |-> OncePlace(s)]
    BY <2>1, <2>2, PlaceMoves
  <2> QED
    BY <2>1, <2>3, <2>4, <2>5 DEF Trigger!onceVars
<1>9. ASSUME NEW t \in Threads, InitLeave(t)
      PROVE  Goal
  <2>1. /\ pc[t] = "inited" /\ pc' = [pc EXCEPT ![t] = "publish"]
        /\ once' = once
    BY <1>9 DEF InitLeave
  <2>2. OncePlace(t) = "inFn" /\ OncePlace(t)' = "publish"
    BY <1>0, <2>1 DEF OncePlace
  <2>3. once = SIZE_MAX /\ \A s \in Threads :
          s # t => pc[s] \notin {"onExit", "inited", "publish"}
    BY <2>1 DEF OnceInv, Winner
  <2>4. InitBegun /\ InitBegun' /\ ~ InitEnded /\ InitEnded'
    BY <1>0, <2>1, <2>3 DEF InitBegun, InitEnded
  <2>5. [s \in Threads |-> IF pc[s] = "found" THEN 1 ELSE 0]'
          = [s \in Threads |-> IF pc[s] = "found" THEN 1 ELSE 0]
    BY <1>0, <2>1, FoundMoves
  <2>6. [s \in Threads |-> OncePlace(s)]'
          = [[s \in Threads |-> OncePlace(s)] EXCEPT ![t] = "publish"]
    BY <2>1, <2>2, PlaceMoves
  <2>7. Trigger!FnEnd(t)
    BY <1>0, <2>1, <2>2, <2>4, <2>5, <2>6 DEF Trigger!FnEnd
  <2> QED
    BY <2>7 DEF Trigger!Next, Trigger!Progress
<1>10. ASSUME NEW t \in Threads, OncePublish(t)
       PROVE  Goal
  <2>1. /\ pc[t] = "publish" /\ pc' = [pc EXCEPT ![t] = "test"]
        /\ once' = 1
    BY <1>10 DEF OncePublish
  <2>2. OncePlace(t) = "publish" /\ OncePlace(t)' = "ret"
    BY <1>0, <2>1 DEF OncePlace
  <2>3. InitBegun /\ InitBegun' /\ InitEnded /\ InitEnded'
    BY <1>0, <2>1 DEF InitBegun, InitEnded
  <2>4. [s \in Threads |-> IF pc[s] = "found" THEN 1 ELSE 0]'
          = [s \in Threads |-> IF pc[s] = "found" THEN 1 ELSE 0]
    BY <1>0, <2>1, FoundMoves
  <2>5. Trigger!Publish(t)
    BY <1>0, <2>1, <2>2, <2>3, <2>4, PlaceMoves DEF Trigger!Publish
  <2> QED
    BY <2>5 DEF Trigger!Next, Trigger!Progress
<1>11. ASSUME NEW t \in Threads, CreateTest(t)
       PROVE  Goal
  <2>1. PICK l \in {"lock", "ret"} :
          /\ pc[t] = "test" /\ pc' = [pc EXCEPT ![t] = l] /\ once' = once
    BY <1>11 DEF CreateTest
  <2>2. OncePlace(t) = "ret" /\ OncePlace(t)' = "idle"
    BY <1>0, <2>1 DEF OncePlace
  <2>3. InitBegun' = InitBegun /\ InitEnded' = InitEnded
    BY <1>0, <2>1 DEF InitBegun, InitEnded
  <2>4. [s \in Threads |-> IF pc[s] = "found" THEN 1 ELSE 0]'
          = [s \in Threads |-> IF pc[s] = "found" THEN 1 ELSE 0]
    BY <1>0, <2>1, FoundMoves
  <2>5. Trigger!Return(t)
    BY <1>0, <2>1, <2>2, <2>3, <2>4, PlaceMoves DEF Trigger!Return
  <2> QED
    BY <2>5 DEF Trigger!Next, Trigger!Progress
<1>12. ASSUME NEW t \in Threads,
              \/ CallStepR(t) \/ CallRekey(t) \/ CallIsValid(t) \/ CallSign(t)
              \/ CallClose(t) \/ Lock(t) \/ SignStepR(t) \/ Return(t)
              \/ Inside(t)
       PROVE  Goal
  <2> DEFINE Far == {"idle", "lock", "in", "poll", "count", "draw", "drawn",
                     "rekey", "unlock", "ret"}
  <2>1. once' = once /\ \E l \in Far : pc[t] \in Far /\ pc' = [pc EXCEPT ![t] = l]
    <3>1. CASE \/ CallStepR(t) \/ CallRekey(t) \/ CallIsValid(t) \/ CallSign(t)
               \/ CallClose(t) \/ Lock(t) \/ SignStepR(t) \/ Return(t)
      BY <3>1 DEF CallStepR, CallRekey, CallIsValid, CallSign, CallClose,
         Lock, SignStepR, Return
    <3>2. CASE Poll(t)
      <4>1. once' = once /\ pc[t] = "poll" /\ pc' = pc
        BY <3>2 DEF Poll
      <4>2. pc' = [pc EXCEPT ![t] = "poll"]
        BY <1>0, <4>1
      <4> QED
        BY <4>1, <4>2
    <3>3. CASE Inside(t) /\ ~ Poll(t)
      BY <3>3 DEF Inside, InIsValid, InCreateAgain, InCreate, PollFail,
         PollEnough, Count, InStep, Draw, Deliver, Mix, NewKey, Rekey,
         InClose, Unlock
    <3> QED
      BY <1>12, <3>1, <3>2, <3>3
  <2>2. PICK l \in Far : pc[t] \in Far /\ pc' = [pc EXCEPT ![t] = l]
    BY <2>1
  <2>3. {pc[t], l} \cap {"once", "won", "found", "init", "onExit",
                         "inited", "publish", "test"} = {}
    BY <2>2
  <2> QED
    BY <1>1, <2>1, <2>2, <2>3
<1>13. CASE Destroy
  <2>1. UNCHANGED <<once, pc>>
    BY <1>13 DEF Destroy
  <2> QED
    BY <2>1 DEF Trigger!onceVars, OncePlace, InitBegun, InitEnded
<1> QED
  BY <1>2, <1>3, <1>4, <1>5, <1>6, <1>7, <1>8, <1>9, <1>10, <1>11, <1>12,
     <1>13 DEF Next, Call, Step, OnceStep

(* rngInit() runs under mtCallOnce(), and the generator behind its mutex   *)
(* and its counter is the one shared stream rng.h promises: every behaviour*)
(* of the threads is one of CallOnce and one of RngService.                *)
THEOREM ServesStreamCorrect ==
  ASSUME Guests = {}, LateClosers = {}
  PROVE  Spec => ServesStream
<1>1. Init => Trigger!Init /\ Service!Init
  BY RngAssumption
  DEF Init, NoState, Service!Init, Trigger!Init, OncePlace, InitBegun,
      InitEnded
<1>2. TypeOK /\ OnceInv /\ [Next]_rngVars => [Trigger!Next]_Trigger!onceVars
  <2>1. ASSUME UNCHANGED rngVars
        PROVE  UNCHANGED Trigger!onceVars
    BY <2>1 DEF rngVars, sharedVars, callVars, Trigger!onceVars, OncePlace,
       InitBegun, InitEnded
  <2> QED
    BY <2>1, TriggerStep
<1>3. TypeOK /\ MutexInv /\ RefInv /\ RefInv' /\ StreamInv /\ UserInv
        /\ [Next]_rngVars => [Service!Next]_Service!serviceVars
  <2>1. ASSUME UNCHANGED rngVars
        PROVE  UNCHANGED Service!serviceVars
    BY <2>1 DEF rngVars, sharedVars, historyVars, Service!serviceVars
  <2> QED
    BY <2>1, ServiceStep
<1>4. MutexInv => OnceInv
  BY DEF MutexInv
<1>5. QED
  BY <1>1, <1>2, <1>3, <1>4, TypeCorrect, MutexInductive, RefInductive,
     StreamInductive, UserInvariant, PTL
  DEF Spec, ServesStream, Trigger!Spec, Service!Spec
=============================================================================
