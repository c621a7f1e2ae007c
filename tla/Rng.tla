-------------------------------- MODULE Rng --------------------------------
(***************************************************************************)
(* The random number generator of bee2: src/src/core/rng.c, the part that  *)
(* creates, uses and closes the one generator of the process.              *)
(*                                                                         *)
(* Any number of threads call it.  The first rngCreate() of the process    *)
(* runs rngInit() through mtCallOnce(): a mutex is made and rngDestroy()   *)
(* is registered for the end of the program.  Everything else happens with *)
(* the mutex held, except that rngIsValid() and the assertions read        *)
(* _inited without it.                                                     *)
(*                                                                         *)
(* Data.  The output of brngCTR under one key is a stream of octets and an *)
(* octet is the pair <<key, place>>.  A key made by hashing the entropy    *)
(* sources is <<n>> where n is a number never used before, a key made by   *)
(* rngRekey() from the octets at p of the stream of k is Append(k, p): the *)
(* hash behind both is taken to be free of collisions.                     *)
(***************************************************************************)
EXTENDS Naturals, Sequences, FiniteSets

CONSTANTS
  Threads,       \* the threads of the program
  Guests,        \* threads that may generate without holding a reference
  LateClosers,   \* threads whose rngClose() runs after rngDestroy()
  RefIds,        \* names of the references a thread may hold at a time
  SIZE_MAX,      \* the mark of mtCallOnce() in progress
  Amounts,       \* octets one entropy source may yield; 0: it failed
  Counts,        \* lengths of the outputs asked for
  KeyLen,        \* octets in a key and in rng_state_st::block, 32 in the code
  MaxCalls       \* how many calls that move the generator are explored

ASSUME RngAssumption ==
  /\ Guests \subseteq Threads
  /\ LateClosers \subseteq Threads
  /\ Threads \cap {"none", "free", "closed"} = {}
  /\ SIZE_MAX \in Nat /\ SIZE_MAX > 1
  /\ Amounts \subseteq 0 .. 32
  /\ Counts \subseteq Nat \ {0}
  /\ KeyLen \in Nat \ {0}
  /\ MaxCalls \in Nat

VARIABLES
  once,          \* _once, the trigger of mtCallOnce()
  mtx,           \* _mtx: "none", "free", "closed" or the thread inside
  inited,        \* _inited
  ctr,           \* _ctr, the reference counter
  state,         \* *_state
  exited,        \* rngDestroy() has run
  pc,            \* where each thread is
  op,            \* the call each thread is in
  loc,           \* the locals of each thread's call
  refs,          \* references handed out and not yet returned
  seeds,         \* how many keys were made from the entropy sources
  given,         \* the octets delivered to callers
  ngiven,        \* how many octets were delivered
  calls          \* how many calls that move the generator were made

callVars == <<pc, op, loc>>
sharedVars == <<once, mtx, inited, ctr, state, exited>>
historyVars == <<refs, seeds, given, ngiven, calls>>
rngVars == <<sharedVars, callVars, historyVars>>

Octets == Seq(Nat) \X Nat

(* Octets p, p + 1, ... of the stream of a key.                            *)
Span(key, p, n) == {<<key, q>> : q \in p .. p + n - 1}

(* The octets a key consists of.                                           *)
KeyOctets(key) ==
  Span(SubSeq(key, 1, Len(key) - 1), key[Len(key)], KeyLen)

(* rng_state_st: the block, the key and the place of brngCTR in alg_state, *)
(* and (for the properties) how many octets of entropy went into the key.  *)
(* open is FALSE for the null pointer.                                     *)
States == [open : BOOLEAN, key : Seq(Nat), pos : Nat,
           block : SUBSET Octets, count : Nat]

NoState == [open |-> FALSE, key |-> <<>>, pos |-> 0, block |-> {}, count |-> 0]

(* The locals: the length asked for, the place brngCTRStepR() has read,    *)
(* the sources polled so far, the entropy octets counted, the code.        *)
Idle == [n |-> 0, pos |-> 0, polled |-> 0, count |-> 0, code |-> "ERR_OK"]

(* The entropy sources rngCreate() polls: trng, trng2, sys, timer and the  *)
(* one its caller may add.                                                 *)
NSources == 5

(* rngIsValid_internal().                                                  *)
IsValid == ctr # 0 /\ state.open

Init ==
  /\ once = 0
  /\ mtx = "none"
  /\ inited = FALSE
  /\ ctr = 0
  /\ state = NoState
  /\ exited = FALSE
  /\ pc = [t \in Threads |-> "idle"]
  /\ op = [t \in Threads |-> "none"]
  /\ loc = [t \in Threads |-> Idle]
  /\ refs = {}
  /\ seeds = 0
  /\ given = {}
  /\ ngiven = 0
  /\ calls = 0

Goto(t, place) == pc' = [pc EXCEPT ![t] = place]

Holds(t) == \E i \in RefIds : <<t, i>> \in refs

-----------------------------------------------------------------------------
(* The calls.                                                              *)

(* A thread calls rngCreate().                                             *)
CallCreate(t) ==
  /\ pc[t] = "idle" /\ ~exited
  /\ calls < MaxCalls
  /\ \E i \in RefIds : <<t, i>> \notin refs
  /\ calls' = calls + 1
  /\ op' = [op EXCEPT ![t] = "create"]
  /\ Goto(t, "once")
  /\ UNCHANGED <<sharedVars, loc, refs, seeds, given, ngiven>>

(* A thread that holds a reference calls rngStepR() or rngStepR2() for n   *)
(* octets.  The sources rngStepR() polls only fill the caller's buffer.    *)
CallStepR(t) ==
  /\ pc[t] = "idle" /\ ~exited
  /\ calls < MaxCalls
  /\ Holds(t)
  /\ calls' = calls + 1
  /\ op' = [op EXCEPT ![t] = "stepR"]
  /\ \E n \in Counts : loc' = [loc EXCEPT ![t].n = n]
  /\ Goto(t, "lock")
  /\ UNCHANGED <<sharedVars, refs, seeds, given, ngiven>>

(* A thread that holds a reference calls rngRekey().                       *)
CallRekey(t) ==
  /\ pc[t] = "idle" /\ ~exited
  /\ calls < MaxCalls
  /\ Holds(t)
  /\ calls' = calls + 1
  /\ op' = [op EXCEPT ![t] = "rekey"]
  /\ loc' = [loc EXCEPT ![t].n = KeyLen]
  /\ Goto(t, "lock")
  /\ UNCHANGED <<sharedVars, refs, seeds, given, ngiven>>

(* Any thread asks rngIsValid(): it reads _inited without the mutex, so a  *)
(* thread that has not synchronised with the initialisation may still see  *)
(* FALSE.                                                                  *)
CallIsValid(t) ==
  /\ pc[t] = "idle" /\ ~exited
  /\ op' = [op EXCEPT ![t] = "isValid"]
  /\ \E seen \in {inited} \cup (IF Holds(t) THEN {} ELSE {FALSE}) :
       IF seen
         THEN Goto(t, "lock") /\ UNCHANGED loc
         ELSE Goto(t, "ret") /\ loc' = [loc EXCEPT ![t].code = "FALSE"]
  /\ UNCHANGED <<sharedVars, historyVars>>

(* The signing functions of bpki, btok_cvc and cmd_sig ask rngIsValid()    *)
(* and call rngStepR() on a positive answer; nothing makes their caller    *)
(* hold a reference.                                                       *)
CallSign(t) ==
  /\ pc[t] = "idle" /\ ~exited
  /\ calls < MaxCalls
  /\ Holds(t) \/ t \in Guests
  /\ inited
  /\ calls' = calls + 1
  /\ op' = [op EXCEPT ![t] = "sign"]
  /\ Goto(t, "lock")
  /\ UNCHANGED <<sharedVars, loc, refs, seeds, given, ngiven>>

(* A thread gives a reference back with rngClose().                        *)
CallClose(t) ==
  /\ pc[t] = "idle"
  /\ exited => t \in LateClosers
  /\ Holds(t)
  /\ op' = [op EXCEPT ![t] = "close"]
  /\ Goto(t, "lock")
  /\ UNCHANGED <<sharedVars, loc, historyVars>>

-----------------------------------------------------------------------------
(* mtCallOnce(&_once, rngInit) at the head of rngCreate().                 *)

(* The trigger was 0: this thread runs rngInit().                          *)
OnceWon(t) ==
  /\ pc[t] = "once"
  /\ once = 0
  /\ once' = SIZE_MAX
  /\ Goto(t, "won")
  /\ UNCHANGED <<mtx, inited, ctr, state, exited, op, loc, historyVars>>

(* The trigger was 1: rngInit() is over.  At SIZE_MAX the thread spins.    *)
OnceFound(t) ==
  /\ pc[t] = "once"
  /\ once \notin {0, SIZE_MAX}
  /\ Goto(t, "found")
  /\ UNCHANGED <<sharedVars, op, loc, historyVars>>

OnceLeave(t) ==
  /\ pc[t] = "found"
  /\ Goto(t, "test")
  /\ UNCHANGED <<sharedVars, op, loc, historyVars>>

InitEnter(t) ==
  /\ pc[t] = "won"
  /\ Goto(t, "init")
  /\ UNCHANGED <<sharedVars, op, loc, historyVars>>

(* rngInit() makes the mutex, which may fail.                              *)
InitMtx(t) ==
  /\ pc[t] = "init"
  /\ \/ mtx' = "free" /\ Goto(t, "onExit")
     \/ mtx' = mtx /\ Goto(t, "inited")
  /\ UNCHANGED <<once, inited, ctr, state, exited, op, loc, historyVars>>

(* Faulty variant: the flag is set although the registration failed and    *)
(* the mutex was closed.                                                   *)
InitOnExit_flag(t) ==
  /\ pc[t] = "onExit"
  /\ \E ok \in BOOLEAN : mtx' = IF ok THEN mtx ELSE "closed"
  /\ inited' = TRUE
  /\ Goto(t, "inited")
  /\ UNCHANGED <<once, ctr, state, exited, op, loc, historyVars>>

(* rngInit() registers rngDestroy(); on failure the mutex is closed.       *)
InitOnExit(t) ==
  /\ pc[t] = "onExit"
  /\ \/ inited' = TRUE /\ mtx' = mtx
     \/ inited' = inited /\ mtx' = "closed"
  /\ Goto(t, "inited")
  /\ UNCHANGED <<once, ctr, state, exited, op, loc, historyVars>>

InitLeave(t) ==
  /\ pc[t] = "inited"
  /\ Goto(t, "publish")
  /\ UNCHANGED <<sharedVars, op, loc, historyVars>>

(* Faulty variant: the trigger becomes 1 only when rngInit() succeeded.    *)
OncePublish_ok(t) ==
  /\ pc[t] = "publish"
  /\ once' = IF inited THEN 1 ELSE once
  /\ Goto(t, "test")
  /\ UNCHANGED <<mtx, inited, ctr, state, exited, op, loc, historyVars>>

(* mtCallOnce() stores 1 after rngInit() has returned.                     *)
OncePublish(t) ==
  /\ pc[t] = "publish"
  /\ once' = 1
  /\ Goto(t, "test")
  /\ UNCHANGED <<mtx, inited, ctr, state, exited, op, loc, historyVars>>

(* rngCreate() gives up when the initialisation has failed.                *)
CreateTest(t) ==
  /\ pc[t] = "test"
  /\ IF inited
       THEN Goto(t, "lock") /\ UNCHANGED loc
       ELSE Goto(t, "ret") /\ loc' = [loc EXCEPT ![t].code = "ERR_FILE_CREATE"]
  /\ UNCHANGED <<sharedVars, op, historyVars>>

-----------------------------------------------------------------------------
(* With the mutex held.                                                    *)

(* Faulty variant: the mutex is not waited for.                            *)
Lock_none(t) ==
  /\ pc[t] = "lock"
  /\ mtx' = t
  /\ Goto(t, "in")
  /\ UNCHANGED <<once, inited, ctr, state, exited, op, loc, historyVars>>

Lock(t) ==
  /\ pc[t] = "lock"
  /\ mtx = "free"
  /\ mtx' = t
  /\ Goto(t, "in")
  /\ UNCHANGED <<once, inited, ctr, state, exited, op, loc, historyVars>>

Unlock(t) ==
  /\ pc[t] = "unlock"
  /\ mtx' = "free"
  /\ Goto(t, "ret")
  /\ UNCHANGED <<once, inited, ctr, state, exited, op, loc, historyVars>>

(* rngIsValid(), alone or in front of a signature.                         *)
InIsValid(t) ==
  /\ pc[t] = "in"
  /\ op[t] \in {"isValid", "sign"}
  /\ loc' = [loc EXCEPT ![t].code = IF IsValid THEN "TRUE" ELSE "FALSE"]
  /\ Goto(t, "unlock")
  /\ UNCHANGED <<sharedVars, op, historyVars>>

(* rngCreate() for a generator that exists: without a further source, or   *)
(* when it fails, only the reference is counted; otherwise its octets go   *)
(* to the block and brngCTRStepR() turns them into output.                 *)
InCreateAgain(t) ==
  /\ pc[t] = "in"
  /\ op[t] = "create"
  /\ ctr # 0
  /\ \/ Goto(t, "count") /\ UNCHANGED <<state, loc>>
     \/ /\ state' = [state EXCEPT !.block = {}]
        /\ loc' = [loc EXCEPT ![t].n = KeyLen]
        /\ Goto(t, "draw")
  /\ UNCHANGED <<once, mtx, inited, ctr, exited, op, historyVars>>

(* rngCreate() for a generator that does not exist allocates the state.    *)
InCreate(t) ==
  /\ pc[t] = "in"
  /\ op[t] = "create"
  /\ ctr = 0
  /\ \/ /\ state' = [NoState EXCEPT !.open = TRUE]
        /\ Goto(t, "poll") /\ UNCHANGED loc
     \/ /\ loc' = [loc EXCEPT ![t].code = "ERR_OUTOFMEMORY"]
        /\ Goto(t, "unlock") /\ UNCHANGED state
  /\ UNCHANGED <<once, mtx, inited, ctr, exited, op, historyVars>>

(* One turn of the loop over the sources.                                  *)
Poll(t) ==
  /\ pc[t] = "poll"
  /\ loc[t].polled < NSources
  /\ \E r \in Amounts :
       loc' = [loc EXCEPT ![t].polled = @ + 1, ![t].count = @ + r]
  /\ UNCHANGED <<sharedVars, pc, op, historyVars>>

(* Too little entropy: the state is closed again.                          *)
PollFail(t) ==
  /\ pc[t] = "poll"
  /\ loc[t].polled = NSources
  /\ loc[t].count < 64
  /\ state' = NoState
  /\ loc' = [loc EXCEPT ![t].code = "ERR_NOT_ENOUGH_ENTROPY"]
  /\ Goto(t, "unlock")
  /\ UNCHANGED <<once, mtx, inited, ctr, exited, op, historyVars>>

(* brngCTRStart() with the key in the block, and the wipe of the block.    *)
Started(s, key) == [s EXCEPT !.key = key, !.pos = 0, !.block = {}]

(* The hash of the entropy becomes the key: the generator is created with  *)
(* one reference.                                                          *)
PollEnough(t) ==
  /\ pc[t] = "poll"
  /\ loc[t].polled = NSources
  /\ loc[t].count >= 64
  /\ seeds' = seeds + 1
  /\ state' = [Started(state, <<seeds>>) EXCEPT !.count = loc[t].count]
  /\ ctr' = 1
  /\ \E i \in RefIds : <<t, i>> \notin refs /\ refs' = refs \cup {<<t, i>>}
  /\ Goto(t, "unlock")
  /\ UNCHANGED <<once, mtx, inited, exited, op, loc, given, ngiven, calls>>

(* ++_ctr.                                                                 *)
Count(t) ==
  /\ pc[t] = "count"
  /\ ctr' = ctr + 1
  /\ \E i \in RefIds : <<t, i>> \notin refs /\ refs' = refs \cup {<<t, i>>}
  /\ Goto(t, "unlock")
  /\ UNCHANGED <<once, mtx, inited, state, exited, op, loc,
                 seeds, given, ngiven, calls>>

(* rngStepR(), rngStepR2(), rngRekey(): the assertion that the generator   *)
(* is valid, then brngCTRStepR().                                          *)
InStep(t) ==
  /\ pc[t] = "in"
  /\ op[t] \in {"stepR", "rekey"}
  /\ IsValid
  /\ Goto(t, "draw")
  /\ UNCHANGED <<sharedVars, op, loc, historyVars>>

(* brngCTRStepR() reads where the stream is...                             *)
Draw(t) ==
  /\ pc[t] = "draw"
  /\ loc' = [loc EXCEPT ![t].pos = state.pos]
  /\ Goto(t, "drawn")
  /\ UNCHANGED <<sharedVars, op, historyVars>>

(* ... and writes the octets and the new place back.                       *)
Advanced(t) == [state EXCEPT !.pos = loc[t].pos + loc[t].n]

Drawn(t) == Span(state.key, loc[t].pos, loc[t].n)

(* The octets go to the caller.                                            *)
Deliver(t) ==
  /\ pc[t] = "drawn"
  /\ op[t] = "stepR"
  /\ state' = Advanced(t)
  /\ given' = given \cup Drawn(t)
  /\ ngiven' = ngiven + loc[t].n
  /\ Goto(t, "unlock")
  /\ UNCHANGED <<once, mtx, inited, ctr, exited, op, loc, refs, seeds, calls>>

(* The octets go to the block and stay there.                              *)
Mix(t) ==
  /\ pc[t] = "drawn"
  /\ op[t] = "create"
  /\ state' = [Advanced(t) EXCEPT !.block = Drawn(t)]
  /\ Goto(t, "count")
  /\ UNCHANGED <<once, mtx, inited, ctr, exited, op, loc, historyVars>>

(* The octets go to the block and are the next key.                        *)
NewKey(t) ==
  /\ pc[t] = "drawn"
  /\ op[t] = "rekey"
  /\ state' = [Advanced(t) EXCEPT !.block = Drawn(t)]
  /\ Goto(t, "rekey")
  /\ UNCHANGED <<once, mtx, inited, ctr, exited, op, loc, historyVars>>

(* Faulty variant: brngCTRStart() gets the old key again.                  *)
Rekey_same(t) ==
  /\ pc[t] = "rekey"
  /\ state' = Started(state, state.key)
  /\ Goto(t, "unlock")
  /\ UNCHANGED <<once, mtx, inited, ctr, exited, op, loc, historyVars>>

(* rngRekey() starts brngCTR again.                                        *)
Rekey(t) ==
  /\ pc[t] = "rekey"
  /\ state' = Started(state, Append(state.key, loc[t].pos))
  /\ Goto(t, "unlock")
  /\ UNCHANGED <<once, mtx, inited, ctr, exited, op, loc, historyVars>>

(* Faulty variant: the first rngClose() closes the state.                  *)
InClose_all(t) ==
  /\ pc[t] = "in"
  /\ op[t] = "close"
  /\ IsValid
  /\ ctr' = ctr - 1
  /\ state' = NoState
  /\ \E i \in RefIds : <<t, i>> \in refs /\ refs' = refs \ {<<t, i>>}
  /\ Goto(t, "unlock")
  /\ UNCHANGED <<once, mtx, inited, exited, op, loc, seeds, given, ngiven, calls>>

(* Faulty variant: the counter is tested before it is decremented.         *)
InClose_post(t) ==
  /\ pc[t] = "in"
  /\ op[t] = "close"
  /\ IsValid
  /\ ctr' = ctr - 1
  /\ state' = IF ctr = 0 THEN NoState ELSE state
  /\ \E i \in RefIds : <<t, i>> \in refs /\ refs' = refs \ {<<t, i>>}
  /\ Goto(t, "unlock")
  /\ UNCHANGED <<once, mtx, inited, exited, op, loc, seeds, given, ngiven, calls>>

(* rngClose(): the last reference closes the state.                        *)
InClose(t) ==
  /\ pc[t] = "in"
  /\ op[t] = "close"
  /\ IsValid
  /\ ctr' = ctr - 1
  /\ state' = IF ctr' = 0 THEN NoState ELSE state
  /\ \E i \in RefIds : <<t, i>> \in refs /\ refs' = refs \ {<<t, i>>}
  /\ Goto(t, "unlock")
  /\ UNCHANGED <<once, mtx, inited, exited, op, loc, seeds, given, ngiven, calls>>

-----------------------------------------------------------------------------
(* A valid generator answers the signing thread: it goes on to rngStepR(). *)
SignStepR(t) ==
  /\ pc[t] = "ret"
  /\ op[t] = "sign" /\ loc[t].code = "TRUE"
  /\ op' = [op EXCEPT ![t] = "stepR"]
  /\ \E n \in Counts : loc' = [loc EXCEPT ![t] = [Idle EXCEPT !.n = n]]
  /\ Goto(t, "lock")
  /\ UNCHANGED <<sharedVars, historyVars>>

(* The call returns.                                                       *)
Return(t) ==
  /\ pc[t] = "ret"
  /\ ~(op[t] = "sign" /\ loc[t].code = "TRUE")
  /\ op' = [op EXCEPT ![t] = "none"]
  /\ loc' = [loc EXCEPT ![t] = Idle]
  /\ Goto(t, "idle")
  /\ UNCHANGED <<sharedVars, historyVars>>

(* rngDestroy() runs at the end of the program, when the threads have been *)
(* joined; references may have been forgotten.                             *)
Destroy ==
  /\ inited /\ ~exited
  /\ \A t \in Threads : pc[t] = "idle"
  /\ mtx = "free"
  /\ state' = NoState
  /\ ctr' = 0
  /\ mtx' = "closed"
  /\ exited' = TRUE
  /\ UNCHANGED <<once, inited, callVars, historyVars>>

Call(t) ==
  \/ CallCreate(t) \/ CallStepR(t) \/ CallRekey(t)
  \/ CallIsValid(t) \/ CallSign(t) \/ CallClose(t)

(* The steps of mtCallOnce() and rngInit().                                *)
OnceStep(t) ==
  \/ OnceWon(t) \/ OnceFound(t) \/ OnceLeave(t)
  \/ InitEnter(t) \/ InitMtx(t) \/ InitOnExit(t) \/ InitLeave(t)
  \/ OncePublish(t) \/ CreateTest(t)

(* The steps taken with the mutex held, up to the unlock.                  *)
Inside(t) ==
  \/ InIsValid(t) \/ InCreateAgain(t) \/ InCreate(t)
  \/ Poll(t) \/ PollFail(t) \/ PollEnough(t) \/ Count(t)
  \/ InStep(t) \/ Draw(t) \/ Deliver(t) \/ Mix(t) \/ NewKey(t) \/ Rekey(t)
  \/ InClose(t) \/ Unlock(t)

Step(t) == OnceStep(t) \/ Lock(t) \/ Inside(t) \/ SignStepR(t) \/ Return(t)

Next == (\E t \in Threads : Call(t) \/ Step(t)) \/ Destroy

Spec == Init /\ [][Next]_rngVars

(* A thread that is inside a call keeps running; a mutex is not promised   *)
(* to any one of the threads that wait for it.                             *)
Fairness == \A t \in Threads : WF_rngVars(Step(t))

FairSpec == Spec /\ Fairness

-----------------------------------------------------------------------------
Places == {"idle", "once", "won", "found", "init", "onExit", "inited",
           "publish", "test", "lock", "in", "poll", "count", "draw", "drawn",
           "rekey", "unlock", "ret"}

(* The places at which the mutex is held.                                  *)
Locked == {"in", "poll", "count", "draw", "drawn", "rekey", "unlock"}

Ops == {"none", "create", "stepR", "rekey", "isValid", "sign", "close"}

Codes == {"ERR_OK", "ERR_FILE_CREATE", "ERR_OUTOFMEMORY",
          "ERR_NOT_ENOUGH_ENTROPY", "TRUE", "FALSE"}

Locals == [n : Nat, pos : Nat, polled : 0 .. NSources, count : Nat, code : Codes]

(* Every variable stays in its range.                                      *)
TypeOK ==
  /\ once \in {0, 1, SIZE_MAX}
  /\ mtx \in {"none", "free", "closed"} \cup Threads
  /\ inited \in BOOLEAN
  /\ ctr \in Nat
  /\ state \in States
  /\ exited \in BOOLEAN
  /\ pc \in [Threads -> Places]
  /\ op \in [Threads -> Ops]
  /\ loc \in [Threads -> Locals]
  /\ refs \subseteq Threads \X RefIds
  /\ seeds \in Nat
  /\ given \subseteq Octets
  /\ ngiven \in Nat
  /\ calls \in 0 .. MaxCalls

(* The mutex is there, and held, wherever a thread counts on it: a thread  *)
(* waits only for a mutex that was made and not closed, and between the    *)
(* lock and the unlock it is the owner.                                    *)
MutexHeld ==
  \A t \in Threads :
    /\ pc[t] = "lock" => mtx \notin {"none", "closed"}
    /\ pc[t] \in Locked => mtx = t

(* The counter of rngCreate() and rngClose() calls is the number of        *)
(* references the callers hold, and the state exists exactly while there   *)
(* are any (rng.h: "the counter of rngCreate() calls is kept").            *)
RefCount ==
  ~exited =>
    /\ ctr = Cardinality(refs)
    /\ mtx \notin Threads => (state.open <=> ctr # 0)

(* The assertions rngIsValid_internal() of rngStepR(), rngStepR2(),        *)
(* rngRekey() and rngClose() hold whenever they are evaluated: no other    *)
(* thread can take the generator away from one that uses it.               *)
AssertsHold ==
  \A t \in Threads :
    \/ pc[t] = "in" /\ op[t] \in {"stepR", "rekey", "close"}
    \/ pc[t] \in {"draw", "drawn", "rekey"}
    => IsValid

(* No octet of the generator is delivered twice, whoever asks, across      *)
(* rngRekey(), rngClose() and the next rngCreate().                        *)
NoRepeat == Cardinality(given) = ngiven

(* rng.h: "the key of the generator is renewed: the generated numbers      *)
(* become the key".  The octets that became the key, and those the state   *)
(* keeps in its block, were never delivered to a caller and, once the      *)
(* mutex is free, the block does not hold the key.                         *)
KeySecret ==
  state.key # <<>> =>
    /\ given \cap (KeyOctets(state.key) \cup state.block) = {}
    /\ mtx \notin Threads => state.block \cap KeyOctets(state.key) = {}

(* A thread that holds a reference is told TRUE by rngIsValid().           *)
HolderValid ==
  \A t \in Threads :
    pc[t] = "ret" /\ op[t] = "isValid" /\ Holds(t) => loc[t].code = "TRUE"

(* The references are counted right, and who holds one has a generator.    *)
RefsRight == RefCount /\ HolderValid

(* What is delivered was never delivered before and is not the key: two    *)
(* callers, or one caller before and after rngRekey(), never see the same  *)
(* octets, and nobody sees the octets the next ones are made of.           *)
OutputFresh == NoRepeat /\ KeySecret

(* Nobody waits for ever: whoever has the mutex lets it go, on every path  *)
(* of the code, and nobody is left spinning in mtCallOnce(), even when     *)
(* rngInit() fails.                                                        *)
NobodyStuck ==
  \A t \in Threads :
    /\ mtx = t ~> mtx # t
    /\ pc[t] = "once" ~> pc[t] \in {"lock", "ret"}

-----------------------------------------------------------------------------
(* rngCreate() uses its trigger the way mtCallOnce() is specified.         *)
OncePlace(t) ==
  CASE pc[t] = "once" -> "cas"
    [] pc[t] \in {"won", "found"} -> "test"
    [] pc[t] = "init" -> "fn"
    [] pc[t] \in {"onExit", "inited"} -> "inFn"
    [] pc[t] = "publish" -> "publish"
    [] pc[t] = "test" -> "ret"
    [] OTHER -> "idle"

InitBegun == once = 1 \/ \E t \in Threads : pc[t] \in {"onExit", "inited", "publish"}

InitEnded == once = 1 \/ \E t \in Threads : pc[t] = "publish"

Trigger == INSTANCE CallOnce WITH
  pc <- [t \in Threads |-> OncePlace(t)],
  old <- [t \in Threads |-> IF pc[t] = "found" THEN 1 ELSE 0],
  begun <- IF InitBegun THEN 1 ELSE 0,
  ended <- IF InitEnded THEN 1 ELSE 0

Service == INSTANCE RngService WITH
  Clients <- Threads,
  NoStream <- <<>>,
  refs <- IF exited THEN {} ELSE refs,
  stream <- state.key,
  next <- state.pos

(* rngInit() runs under mtCallOnce(), and behind its mutex and its counter *)
(* the generator is the shared stream rng.h promises, each call of which   *)
(* takes effect in one step: every behaviour is one of CallOnce and one of *)
(* RngService.                                                             *)
ServesStream == Trigger!Spec /\ Service!Spec
=============================================================================
