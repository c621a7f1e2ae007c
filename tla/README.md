# A TLA+ specification of bee2

bee2 is a C library of the Belarusian cryptographic standards (STB 34.101.xx) with
a command-line utility, bee2cmd. This directory holds TLA+ modules that model the
library and the part of the utility that keeps files, the TLC configurations
that check them on small instances, and proofs that TLAPS checks. Source paths
are relative to the root of the repository, line numbers are those of the
modelled commit.

    tlc -config MCRng.cfg MCRng        # model-check one configuration
    tlapm RngProofs.tla                # check the proofs of one module

## 1. Inventory

Most of bee2 is sequential: a caller owns an octet string `state`, calls
`xxxStart()`, then `xxxStep..()`, and reads the result with `xxxStepG()`. What is
shared or stateful beyond one such string is little: the trigger, mutex and
counter of `rng`, the list of `util`, and the files of bee2cmd.

| Component | State | Operations | What is hard | Module |
|---|---|---|---|---|
| `core/mt.c` one-time calls | the trigger of each module | `mtCallOnce` | racing threads, spinning losers | `CallOnce` |
| `core/rng.c` shared generator | `_once _mtx _inited _ctr _state` | `rngCreate rngIsValid rngStepR rngStepR2 rngRekey rngClose rngDestroy` | threads, failing initialisation, counting of references, reads outside the mutex, exit | `Rng`, `RngService` |
| `core/util.c` destructors | `_once _mtx _inited _fns` | `utilOnExit`, `utilOnExitInit`, `utilOnExitRun` | registration while the program ends, failures half way, order | `OnExit` |
| `core/blob.c`, `obj.c` | heap blocks | create, resize, copy, close; objects with pointers | failed allocation, moved blocks, stale descriptors | `Blob`, `Octets` |
| `core/mem.c`, `word.c`, `u16.c`, `u32.c`, `u64.c` | none | octets and words, two editions of each | overlapping buffers, lengths that are not whole words | `Octets` |
| `core/der.c`, `oid.c`, `hex.c`, `b64.c`, `dec.c`, `str.c`, `tm.c` | none | codecs, dates | boundaries of tags and lengths, overflow of sums | `Codecs` |
| `core/apdu.c` | none | `apduCmdEnc/Dec`, `apduRespEnc/Dec` | short and extended forms, zeros | `ApduCodec` |
| `math/*` | none kept | words, integers, residues, polynomials, fields, curves, primes | carries, estimates, masks, exceptional points | `Words ZZ ZZMod PP Ec Pri` |
| `crypto/belt/*` | block, `filled`, lengths | modes, hash, MAC, AEAD, wide block, formats | pieces of any length, order of calls | `BeltModes BeltAuth BeltWide` |
| `crypto/bash/*` | `s buf_len pos` | hash; automaton commands | positions in the buffer, commands in any order | `Bash` |
| `crypto/brng.c` | `s r block reserved` | CTR and HMAC generators | the reserve, the counter at its limit | `BeltAuth` |
| `crypto/bels.c` | none | sharing and recovery | any owners, any order | `Legacy` |
| `crypto/bign*`, `bpki.c` | none | parameters, keys, signatures, transport, containers, requests | residues beyond the order, damaged input | `Curve Bign` |
| `crypto/g12s.c`, `dstu.c`, `stb99.c`, `pfok.c` | chains of primes | signatures, compressed points, seeds and parameters | retries, borders of lengths | `Legacy` |
| `crypto/bake.c` BMQV, BSTS, BPACE | `bake_xxx_o` of two parties | steps and runs | two processes, lost and spoiled messages, M2 and M3 in blocks, group corner cases | `BakeBMQV KeyAgreement BakeLine BakeBSTS BakeBPACE` |
| `crypto/btok/btok_bauth.c` | `btok_bauth_*_o` | steps of card and terminal | as above | `BtokBAuth` |
| `crypto/btok/btok_sm.c` | counter and keys of two parties | `btokSMCtrInc CmdWrap CmdUnwrap RespWrap RespUnwrap` | lost and late messages, lengths at the limits | `BtokSM` |
| `crypto/btok/btok_pwd.c` | `btok_pwd_state` | `btokPwdTransition` | long sequences of tries | `BtokPwd` |
| `crypto/btok/btok_cvc.c` | none | wrap, unwrap, issue, validate | dates, chains | `Cvc` |
| `crypto/botp.c` | counters | steps of HOTP, TOTP, OCRA | counters drifting apart, wrap of the counter | `Botp` |
| `cmd/cvr`, `cmd/sig`, `cmd/core/cmd_cvc.c`, `cmd_sig.c` | files | rings of certificates, signatures of files | a failure or a crash between two writes | `CertRing` |
| sources of entropy, SIMD editions of bash-f, err, prng, other commands, tests | | | | not modelled, section 6 |

How they interact. `rng` and `util` reach their initialisation through
`mtCallOnce`; `rngInit` registers `rngDestroy` through `utilOnExit`, so that at
exit `utilOnExitRun` closes the generator. `bpki`, `btok_cvc` and `cmd` ask
`rngIsValid` and draw from the generator when it exists. The bake runs call
their steps in order and exchange messages through the callbacks `read_i` and
`write_i`; BSTS keeps what it reads in a blob. `btok_sm` wraps APDU commands and
codes lengths by the rules of `apdu.c` and `der.c`. The schemes stand on
`math`, the rings on certificates.

What makes each of them correct: an initialisation runs once and nobody passes
it early; a mutex exists where it is locked and is always given back; the
generator lives exactly as long as somebody holds it and never gives an octet
twice; destructors run once, in reverse order, none lost; parties of a protocol
that end well have one key and one view of the run, and those that fit each other do end well;
counters of secure messaging are used once; data in pieces give what the whole
data give; codecs invert each other on what they accept and accept what they should; arithmetic gives what
the numbers are; a verification accepts what the signer can make and nothing
else; a ring that is accepted is the ring that was asked for.

`PROJECT.json` lists the components one by one, with the hazards of the code
that tests hardly reach and the properties that are about each of them. Its map leads from definitions to the
lines they stand for; in modules of functions a helper whose lines lie within those of the
definition it serves is named by that definition.

## 2. Modules

The library is layered and so are the modules: `Words` is the ground of `ZZ`,
`ZZMod`, `PP`, `Ec` and `Pri`, of `BeltModes` and what extends it, and of `Bash`;
`Curve` is the ground of the schemes; `BakeLine` of BSTS, BPACE and BAUTH; `Cvc` of `CertRing`.

### CallOnce (`src/src/core/mt.c`)

`mtCallOnce()` with its compare-and-swap: `once` is the trigger (0, `SIZE_MAX`
while somebody is inside `fn`, 1), `pc[t]` the place of a thread in the loop,
`old[t]` what the swap returned. `begun` and `ended` count the runs of `fn`.
Waiting in `mtSleep(0)` is no step of its own. It is both a component and the
abstract specification that `Rng` is shown to implement.

### Rng, RngService (`src/src/core/rng.c`, `src/include/bee2/core/rng.h`)

Each thread is a process; `pc[t]`, `op[t]`, `loc[t]` are its place, call and
locals, the other variables are the static variables of `rng.c`. Outside the mutex
every access to a shared variable is a step of its own (`OnceWon`, `InitMtx`,
`InitOnExit`, `CreateTest`, `Lock`, ...); `rngIsValid()` reads `_inited` without the
mutex, and a thread that has not synchronised with the initialisation may read
an old value. Inside the mutex the steps are cut where the code's invariant is
broken for a while (`Poll`, `Draw`, `Mix`, `NewKey`, `Rekey`, `Count`).
`PollFail`, `InCreate` and `InitOnExit` carry the error paths.
`CallSign`/`SignStepR` are the callers in `bpki.c`, `btok_cvc.c` and `cmd_sig.c`
that ask first and generate afterwards. `Destroy` is `rngDestroy()` at exit.

An octet of output is the pair (key, place in its stream). A key made from the
sources is a new number; a key made by `rngRekey()` is the sequence of places it
was taken from. So the properties can ask whether octets repeat. The state keeps
`block`, because repeated `rngCreate()` and `rngRekey()` put generator output there.

`RngService` is what `rng.h` promises: clients with references on one stream
that is fresh after `Open` and `Renew`, whose octets are delivered to one
client. `ServesStream` says that `Rng` implements `CallOnce` in its trigger and
`RngService` in its calls: `refs`, the key and the place in its stream are the abstract state.

### OnExit (`src/src/core/util.c`)

`utilOnExit()` step by step (`once`, `init`, `atexit`, lock, read the list, put,
unlock, or fail), `utilOnExitRun()` going down the list. The thread that ends the
program is one more actor, so that a destructor (`Nested`) may register again.
Threads are back from the library before `exit()`. The trigger is one variable here; its steps
are in `CallOnce`.

### BakeBMQV, KeyAgreement (`src/src/crypto/bake.c`)

Both runs over a line. A party's state is `conf` (what it is given before the
run: private key, own certificate, the certificate of the other party, flags,
hello messages), `u`, `key` (K0 and K1, by what they are hashed from), the blocks
`in` and `out`. One action per step function and per call of `read`/`write`; error
paths end the run with the code of the source. The group is a group of prime
order `Q` in which a point is its multiplier, so `Scalar`, `PeerPoint`,
`SharedX` compute what `ecMulA` and `ecAddMulA` compute, with both corner cases:
the point O (K becomes the base point) and the zero scalar (refused).
Opposite points share an x-coordinate. `KeyAgreement` is the abstract protocol: each
party derives a key at most once, and ends well when it owes no confirmation or
the keys are equal.

### BakeLine, BakeBSTS, BakeBPACE, BtokBAuth (`bake.c`, `btok/btok_bauth.c`)

`BakeLine` has what they share: two parties that take turns over a line, a
failure at a time, the arithmetic of the group. A turn is what a party does
between two reads; a step is a function that returns what it leaves in the state and its code.
BSTS reads M2 and M3 in blocks into a blob that `blobResize()` grows, so its variables
include the blobs a run holds (`heap`). In BPACE the one-time points are multiples of an
unknown `W`; a ciphertext made with a password is opened with another one to
something else. In BAUTH an application moves the messages.

### BtokSM, BtokPwd, Botp, ApduCodec (`btok_sm.c`, `btok_pwd.c`, `botp.c`, `apdu.c`)

`BtokSM`: terminal and card, each with the counter it moves by `btokSMCtrInc()`
before every use, as `btok.h` asks, and a line that loses a message or delivers
an answer late. Lengths are the lengths of the code; contents are a number, the
length and the counter they were encrypted under. `Lc*` and `Le*` are computed with
the casts of the source.

`BtokPwd`: `pin` and `auth` are the fields of `btok_pwd_state`, `pin` as the number
the enumeration gives it, since the code counts by `--`. One action for every event
`btokPwdTransition()` processes; an event it refuses changes nothing. The other
variables remember what the events were: the wrong PINs and PUKs (`misses`, `spent`) since the PIN was last right or
unlocked, how many activations came since then (`acts`) and what the two counts were at the last of them (`before`), and the
passwords proved in the session. An activation does not reset the counts: btok.h:82-83 says that it leaves the tries as they are.

`Botp`: a token and a server, each with the counter and its copy `ctr1`, the static
password and the session. What a password depends on is told by a suite: HOTP has a
counter only, TOTP a time only. A password is the tuple HMAC is computed of. The
wire keeps every password, so that it comes late, twice, in another order or never. `OCRAStart`
reads a suite from a line of words, with the way a line is written as the reference.

`ApduCodec`: the codecs as operators over octets of `Base` values (256 in the code).

### Words, ZZ, ZZMod, PP, Ec, Pri (`src/src/math`)

A number is a function from `0 .. n - 1` to words of `B` bits, as `word a[n]` is.
`ZZ` has `ww.c`, `zz_add.c`, `zz_mul.c` and the divisions; `ZZMod` has residues, the reductions (Barrett,
Crandall, Montgomery), greatest common divisors, powers and the rings `zm.c`;
`PP` the polynomials over GF(2) with Karatsuba's schemes and tables, and `gf2.c`; `Ec` the
formulas of `ecp.c` (Jacobian) and `ec2.c` (López-Dahab) and the multiples of `ec.c`;
`Pri` the sieve, the test of Rabin and Miller and the searches. Regular and
fast editions are separate operators (`_safe`, `_fast`) where the source has both. Carries, borrows and masks are
computed word by word; where a function is a loop over numbers whose words it only passes on
to others (divisors, roots, powers, primes) the model takes the values of the numbers.

### BeltModes, BeltAuth, BeltWide, Bash (`src/src/crypto/belt`, `bash`, `brng.c`)

The state of each mode is a record with the fields of the C structure; a step is an
operator from a piece of data and a state to the output and the new state. Registers `u32` have
one octet of two bits, a block four of them, and the substitutions are other small functions
in the same places: structure, order and direction of every operation are kept, sizes are not. Lanes of
bash have four bits. The half blocks of a format-preserving string are counted by the fraction of `beltFMTCalcB()` with
its real numbers of up to 2^64 and more, in digits of ten bits.

### Curve, Bign, Legacy, Cvc (`src/src/crypto`)

`Curve` has points of a curve over a field of six bits, octet strings as numbers,
a hash, and the way functions of the library return codes: checks in the order of
the source, each with its code, and an output when all of them hold. An argument `env` says what the call
meets: memory, the generator and what it draws. `Bign` also has `bpki.c`, `Legacy` has g12s, dstu,
stb99, pfok and bels; a secret and a share of bels are polynomials over GF(2) as sets of exponents.
A certificate of `Cvc` is the list of its fields with their tags. What these modules take from
below by its result alone (powers, inverses, points, primes, fields, polynomials over GF(2), the key wrap, PBKDF2) is defined by
what it computes and mapped to the functions it stands for; their inner loops are those of the modules of `math` and `belt`.

### Codecs, Octets, Blob (`src/src/core`)

`Codecs` decodes and codes octet by octet; `env` says what lies after a buffer and what an
uninitialised variable holds, since the decoder reads both. A size has two octets. `Octets` has buffers that may overlap as places in
one memory, words as sets of bits, and the compound objects of `obj.c`. `Blob` has users that keep two descriptors and follow
`blob.h`, and an allocator that refuses or moves; the sizes of a page and of the header are constants (3 and 1 in the run,
1024 and `sizeof(size_t)` in `blob.c`).

### CertRing (`src/cmd`)

Two files: a ring and a separate signature. The octets of a file are a sequence of
items (certificates, signatures, what is left of an item whose writing broke off).
A command opens, writes, closes, signs and appends in steps of its own; each may fail, and
the program may be killed between any two of them, after any prefix of the items. `cmdFileWrite()` and `cmdFileAppend()` return what
`fwrite()` said and drop what `fclose()` says, so a write may also leave any prefix and end with `ERR_OK`: `lost` remembers that
a write of the ring did. A command that has ended well stands at `told` before it is gone. Readers (`val find
extr print verify`) are operators on the files. `meant` remembers what was asked for. The certificates are
those of a world fixed by constants (who issues whom, who holds which key); `RingAssumption` says that a key is a pair
of a length and an owner and that the files handed to `cvr add` are certificates of this world.

### Modules of proofs

`RngProofs` extends `Rng`, `CertRingProofs` extends `CertRing`. Components that share a run are proved about as the MC
modules take them in, with their `part`: `SupportProofs` extends `MCSupport` (`CallOnce`, `OnExit`) and `Blob`, `BtokProofs` extends
`MCBtok` (`BtokPwd`, `Botp`, `BtokSM`, `ApduCodec`), `BakeProofs` extends `MCBake` (all four protocols); the constants stay free. They hold
inductive invariants, lemmas and theorems and add nothing to the models.

### MC modules

`MCCore`, `MCBake`, `MCBtok`, `MCStreams`, `MCSchemes`, `MCRing` and `MCRng` give the constants
their values (`MCCore` takes in `MCSupport`, for threads and destructors, and `MCCodecs`) and, where several small components share a run, choose by a variable `part` or `job` which
of them a behaviour shows; the others stand still. The parts have no state in common, so nothing
is lost. Pure functions are checked in runs whose states are their arguments.

Operators named `..._variant`, or with the fault in their names (`Drop_kept`), are faulty versions
kept beside the right ones: each property is known to be violated when one of them takes the place of
the definition it is a version of.

## 3. What the runs check

| Run | Instance | Shows |
|---|---|---|
| `core` | 3 threads on one trigger; 2 threads and the ending one, 2 destructors, one nested, 4 registrations; words of 4 bits, numbers of up to 4 words with probe words at the ends and around the sign bit; 7 moduli; gcd up to 24 and 40; 6 fields; 10 curves with all pairs of points; numbers up to 230; codes grown octet by octet up to 4 or 5 octets; lengths 0, 127, 128, 255, 256, 32767, 65534; strings, dates, words of 16, 32, 64 bits | `ExactlyOnce`, `ReturnAfterFn`; `ListLifo`: the list is exact, its mutex held where it is used, destructors run from the last down; `AllCalled`; every call and the end of the program come to their end (`CallReturns`, `ExitEnds`); numbers, integers, residues, primes (`ArithmeticRight`), polynomials and fields (`PolysRight`), points (`PointsRight`) are what their definitions say; codes are read to what they stand for (`CodesRead`) |
| `rng` | 2 threads, a reference each, 4 calls, sources of 0 or 32 octets, keys of 2 octets, outputs of 1 and 2 | `MutexHeld`; `RefsRight`: counter, state and answers follow the references; `AssertsHold`; `OutputFresh`: no octet twice, no key in the output; `NobodyStuck`; `ServesStream` |
| `bake` | Q = 5, l = 1, private keys 1 and 2, all flags, 2 hellos, one disagreement and one failure, in BMQV and BPACE parties that disagree on `kca` and `kcb` too; the four protocols | who ends well and was to be shown it has the key of its partner, its hellos and certificate (`KeysConfirmed`), one view of the run (`SameView`), the right password, private key and points (`PartnersBound`); who fits is served (`PartnersServed`); blobs come back (`MemoryBack`); runs end, but for two deadlocks that are named (`EveryRunEnds`); BMQV implements `KeyAgreement` |
| `btok` | every state of the automaton, up to 2 activations before the PIN is right or unlocked; HOTP, TOTP, 3 OCRA suites, counters of 2 binary octets from every start, 3 passwords, 2 challenges, 3 marks of time; 4 exchanges with 2 losses or delays at lengths around 127, 240, 255, 256, 65535; codes of up to 9 binary octets; about 48000 lines of a suite | `PinRight`, `OwnerUnlocks`; `OtpRight`; `CtrFresh`, `AsSent`; `CommandsRead` |
| `streams` | octets of 2 bits, data of up to 3 blocks in every division into pieces, empty ones too, tags at any moment; programs of 2 commands for the automaton; all keys of 3 lengths; every small format and 15 real ones | `PiecesMakeOneStream`, `AutomatonInStep`, `WholeDataRight` |
| `schemes` | 4 curves of bign, 2 of g12s, 3 of dstu; all signatures that can be written; draws of the generator; seeds of the lengths of the code; 2 or 3 owners of a secret; hashes below and above the order; containers and certificates damaged in one place; 3 addresses, blobs up to 4 octets, 2 users | `SignaturesRight` (with certificates), `KeysAgree` (with containers and requests), `ParametersGood`, `SecretShared`, `BlobsKept` |
| `rings` | 2 certificates in a ring, 4 files to add, 3 holders, 2 days, every write failing, broken off or lost without a word at `fclose()` | `RingAsMeant`, `ReadersAgree`, `SignatureOfThis` |
| `rng_guest` | one thread without a reference signs | violation of `AssertsHold` |
| `token_locked` | as `btok` | violation of `LockedForever`, the sentence of `btok.h` |
| `ring_extract` | as `rings` | violation of `ExtractsCertificate`, the sentence of `cmd.h` |
| `ring_told` | as `rings` | violation of `DoneWhenTold`, the sentence of `cmd.h` on writes that return `ERR_OK` |
| `signed_accepted` | as `schemes` | violation of `SignedAccepted`, the sentence of `bign.h` on signatures that are given out |

`WholeDataRight`, `ArithmeticRight`, `PolysRight`, `PointsRight` and `CodesRead` speak of the arguments a state
stands for and are checked at every step that comes to it.

Why the bounds are enough. The bounds are `MaxActs`, `MaxCalls`, `MaxRegs`, `MaxSlips`,
`MaxFaults`, `MaxSends`, `MaxCode`, `MaxMade`, `MaxTaken`, `MaxAsked`, `MaxTime`, `MaxRing`,
`MaxDay`, `MaxSize`, `SignAndLose` and the sets in the MC modules. Four calls let two threads create,
use, close and create again while the other is inside; sources of 32 octets
meet the threshold of 64 from below, at it and above it. Two destructors and four
registrations let a list grow while it is run. In the group of order 5 the
opposite points, the point O and the zero scalar all occur, and hash values 0 and 1
give different factors `2^l + t`; since in such a small group a wrong key may sign a wrong point by chance,
`PartnersBound` says of BSTS and BAUTH that the key of the partner and its point are right together, neither alone wrong. Two blocks let M2 and M3 be read in more than one
piece. One disagreement and one failure at a time are checked exhaustively. With two
values of an octet and two octets of an extended length, "256" is 2 and "65536" is 4,
so that nine octets reach every form of body. A counter of 16 states is not exhausted by
four exchanges, which is the code's own assumption about 2^128; three passwords from
every value of a counter pass its limit. In a word of four bits every carry, borrow and estimate
of a digit that must be corrected occurs within two or three words. Three blocks are what the modes with ciphertext
stealing and the wide block need to take each branch; pieces of every length pass every value of `filled` and `reserved`.
A file of two certificates and a signature has every prefix that a larger one has up to repetition.
In the run a ring that has lost part gets no separate signature and the other way round (`SignAndLose` is `FALSE`), since the two
files meet only in what is signed; the theorems hold for both values. Two activations are enough for a count of tries to pass twice through
what an activation forgets. Hashes of six bits lie on both sides of the orders of the curves; of each signature that the algorithm
can make, the one with the hash reduced is the reference. A seed given to stb99 or pfok has each of its parts zero, as the code would make it,
valid but another one, or not valid.

Small sizes stand for large ones where a constant of the code is a size: the MOV threshold is 3 for
50 (bign), 3 for 31 and 131 (g12s) and 2 for 32 (dstu); degrees 4, 5, 6 stand for 16, 24, 32 octets (bels);
`u32` is below 2^16 in identifiers. A key wrap or a wide block inside `Bign` is a constructor; its own model is `BeltWide`.

Assumptions about users. `rng`: calls are made between `rngCreate` and `rngClose` of the same
thread and none after the end (`Guests` and `LateClosers` are empty). `bake`: parties of BSTS and BAUTH agree on `kca` and `kcb`, those of BMQV and BPACE need not; BAUTH is
served at l = 128 only (section 5). `rings`: one program at a time writes, and a user does not sign a ring that is broken.
`OnExit`: no thread is inside the library when the program ends.

Deadlock. TLC's check is off where the system may stop: a program that has
ended, finished runs, commands or arguments used up. That nobody waits for ever is then a property:
`CallReturns`, `NobodyStuck`, `ExitEnds`, `EveryRunEnds`. `rings` never stops within the days it has and is checked for deadlock.

Fairness. `CallOnce` and `Rng` assume weak fairness of each thread's steps
inside a call: the scheduler runs every thread. Nothing is assumed of the
fairness of mutexes (POSIX promises none), so that no property says that a
waiting thread gets the mutex; calls are never forced to be made. `OnExit` assumes weak
fairness of the steps of a thread in a call and of `utilOnExitRun()`. The protocols
assume weak fairness of each party's run: a callback that can return does; a line whose
other end has closed returns an error, as `read_i` demands of a callback at the end of a
file. `EveryRunEnds` says of every run of the four protocols, whatever fails and whatever the flags, that both parties end, or that they have come
to one of two deadlocks of parties that were given different flags: in BMQV B has set `kca` and A has not, but `kcb`, so that B reads more
than A wrote while A waits for M3; in BPACE A has set `kcb` and B has not, but `kca`. With other disagreements
a party reads too few or too many octets and ends when its partner has.

## 4. What is proved

All proofs are for any sets of threads, sources, users and files and for any bounds; what is assumed of the
constants is named.

`SupportProofs`. `IInv` says that the trigger is `SIZE_MAX` exactly while one
thread is the winner and 1 exactly when `fn` has ended. It is needed since
`ExactlyOnce` alone does not exclude a second winner. `CalledOnce` and
`ReturnsAfter` follow. For `OnExit`, `ExitInv` says where the threads may be: one of them
is the winner of the trigger, the mutex exists once it has been made, the thread between `lock` and `unlock` is its owner
(`LatchTells`, `MutexTells`); all are back when `exit()` begins (`PhaseTells`); the list is what was accepted, with one empty
place while a thread is about to fill it (`ListTells`); what has been called is the upper part of the list it began with
(`RunTells`). `ListLifoCorrect` and `AllCalledCorrect` follow: the list is exact, destructors are called from the last one down, and
after the end each one accepted before has been called. `UsersAssumption` keeps the names of threads
apart from the marks of the trigger and the mutex. For `Blob`, `BlobInv` says that a block in use has the room its size asks for (`Roomy`)
and somebody holds it (`Owned`), that two descriptors never share one (`Apart`), and that a descriptor leads to what its user
has put there (`Told`). Each of `blobCreate()`, `blobResize()` and `blobCopy()` has a lemma that gives its three outcomes, no
memory, nothing for the size 0, or the block with the octets wanted (`Outcome`). `BlobsKeptCorrect` follows, under `BlobAssumption`: null is no address, a
page is not empty.

`RngProofs`. `MutexInv` = types, `OnceInv` (the winner of the trigger is alone and
the mutex does not exist before it made it), `LockInv` (places inside the mutex and
its owner are the same thing; every call past the initialisation implies
`inited`). From it `MutexCorrect`, under `LateClosers = {}`. `RefInv` adds
`CountInv` (`ctr` is the number of references), `AgreeInv` (the state is open
exactly while there are references or a thread is polling the sources for it) and
`HoldInv` (a thread in `stepR`, `rekey`, `close` or signing holds a reference,
which nobody else can return). From it `RefCountCorrect`, `HolderValidCorrect`, both together
as `RefsCorrect`, and `AssertsCorrect`, under `Guests = {}` and `LateClosers = {}`. The two assumptions are what
`rng.h` asks of programs; `rng_guest` shows that the first cannot be
dropped. `RngAssumption` is the assumption on the constants.

`OutputFreshCorrect` (no octet is given twice, none is part of a key) stands on `StreamInv`: every octet given lies behind
the present place of the stream of its key, or its key has been left for good (`GivenInv`: a key made by `rngRekey()` is longer
than the key it was made from, a key made of the sources has a number not used before); the block
keeps octets that were passed over and not given (`BlockInv`); a thread that has read the place of the stream finds
the stream there when it writes it back (`DrawInv`). It asks for `LateClosers = {}` only: threads
that generate without a reference may end in an assertion, but repeat nothing. `ServesStreamCorrect` is the refinement:
with `Guests = {}` as well, every step of `Rng` is a step of `CallOnce` or stutters in its trigger, and is a step of
`RngService` or stutters in its calls.

`BakeProofs`, BMQV. `TypeInv` adds to the types that B has its one-time key before it
looks at M2. `SafeInv` = `TagsTrue` (whatever the line did, every tag on its way or
in a block of a party is noise or was made by the party of its kind from the key that
party has now, and that party is past its derivation), `KeyInv` (a party past
its derivation has a key made of its own view) and `ConfirmInv` (past the check of a tag
that was due, the keys are equal). `ConfirmedCorrect` and `SameViewCorrect`
follow, for any prime order, hash table, flags, number of disagreements and of
failures. `BMQVAssumption` states what is needed of the group: products of non-zero
elements are not zero modulo `Q`. That hashes do not collide is in the model: a key is
the record of what it was hashed from. `AgreesCorrect` is the refinement of `KeyAgreement`, from `TypeInv`, `SafeInv` and
`RunInv` (a run has a result only at its end and no key before its derivation).

`BakeProofs`, the other three. `TheirInv` is inductive (`TheirInductive`): `Shapes` says what the records and queues of the
parties are; `MemInv` what blocks of memory a run holds at each place (its own until the end, the copy of a message while
it reads one, `NoBlocks` for the two protocols that read whole messages); `BstsInv`, `BpaceInv` and `BauthInv` say of their
protocol that each tag or ciphertext on the line that is not noise was made by the party of its kind from the key
it has now, and that a party past the check of a tag has the key it checked with. It is needed since `KeysConfirmed` speaks of two ended parties,
while the tag was compared when the other party had only sent it and could still have changed its key. Each turn is one of
six patterns (`Started`, `Stopped`, `Ended`, `Grown`, `Opening`, `Turned`), and each pattern has one lemma; the facts of a
protocol are then only what its steps return: which of them change the key, and which write a tag. The line may drop, repeat and change what it
carries, it never makes a tag (a tag is the record of the key it was computed from). `MemoryBackCorrect` and `KeysConfirmedCorrect` follow for any
group, passwords, certificates, lengths of blocks and number of failures; `ProtocolsAssumption` says that
`Protocols` names only these four, `BMQVAssumption` is used in the part of BMQV (`BmqvPart`: the run of `MCBake` is one of `BakeBMQV`).

`BakeProofs`, honest runs. `PartnersServedCorrect`: parties that fit each other and whom nothing fails end well, in BMQV, BPACE
and BAUTH with one key, however their steps interleave. `InStepInv` (BMQV) and `ServedInv` (the others) hold as long as no failure is counted, and
say of each pair of places what both parties have and what is on the line, message by message; there are four or five such
pairs in a protocol, and a step leads from one to the next or stays. What makes a step succeed is then algebra: that both sides compute one
product modulo `Q` in another order, that `Open` undoes `Sealed`, that a signature made over the factor of both points
satisfies its equation. BMQV admits one way out, `Refusing`: a scalar that is zero. `NoncesAssumption` says that the hash takes
the nonces a card draws and that the number of random values is a natural number; for BAUTH the theorem is about `l = 128`,
as the property is (section 5).

`BtokProofs`. `PwdInv` adds to `PinRight` (the state of the PIN tells the wrong PINs and PUKs since the PIN was right, unlocked or
activated, which are at most three and ten for each activation and three and ten more, and who is
authenticated has given that password in the session) that wrong PUKs are counted only while the PIN is locked or
deactivated, without which a right PUK could meet a PIN with tries spent, and that each activation has added no more than three and ten
tries (`before`). `PinRightCorrect` follows, and `OwnerUnlocksCorrect`: no step gives tries back but in a session in which the PIN was right, or the
PUK when no try was left. Neither says that an activation keeps the tries, as btok.h does: it does not (section 5).
For `Botp`, `OtpInv` says that the counter of each party is as far ahead of the first one as the passwords it made or took, and that
every password on the wire was computed of the counter its place says; it needs no assumption, the counter may come
round. `OtpRightCorrect` (the server accepts the password that is due, and only that one, for what it was made for) asks for `NoWrap`:
fewer passwords and marks of time than the counter and the time have values (8 octets in `botp.c`). For
`BtokSM`, `SmInv` bounds the counter of each party by the commands sent and puts every counter used behind the
counter of the party of its parity; `CtrFreshCorrect` (no counter encrypts twice) follows under `SmNoWrap`: the counter (16 octets) is
longer than twice the commands counted. `AsSentCorrect` (what is accepted is what was protected, unless a command was lost or the
terminal gave up too early) stands on `ExchangeInv`, which says of each place of an exchange where both counters are and
what is on the line, and asks for `LengthsFit`: data of a command up to 65516 octets and of a response up to 65536, beyond
which an Lc is cut to 16 bits (section 5). Values of digits and the increment with carry are
reasoned about by sets of numbers that have a least element, not by an induction over an operator.

`CommandsReadCorrect` has two halves. For `ApduCodec`, `CmdDecForms` says where Lc, data and Le of an accepted code
are and which of the forms they have, `LcForms` and `LeFormsOfAny` what is written; from both, what is written is read back, what is accepted
is a valid command, and its code is as long as the written one or has an Lc of three octets in place of one or none
(`CodesOfCommandsCorrect`), for any `Base` of the model (256 in the code) and codes of any length; `CodeAssumption` bounds the first code of a
run by a natural number. For `OCRAStart`, each reader is described by the words at its place (`HeadReads`, `QReads`, ... `TReads`).
`ReadIsWritten`: a line of whatever words that is accepted was written for what is read of it, since what is before a place grows, reader by
reader, by just the words `Line` writes (`BeforeGrows`). `LineReadBack`: whatever is asked of a mode, with any
words for names, its line is read to that when `Legal` allows it and refused when not, since each part of the line is
found at its place (`WordsOfLine`) and what follows an absent part cannot be taken for it. Numbers of one to three figures
need no induction: a recursive function over so few digits is unfolded.

`CertRingProofs`. `RingInv`: a file that ends with a signature was signed as a whole, the ring over what was meant, or after an unheard loss over what is left of it (`Kept`: some of the
certificates, none twice, torn at most at its end), by its holder (`RingSigned`),
the separate file over the file named by `over` (`DetSigned`); a command under way holds exactly what it is about to
write (`Rewriting`, `Signing`); the certificates meant are readable and none comes twice (`GoodList`). It is needed because the properties speak of files that are
accepted, at any moment, a program killed half way included, and only the place a command has reached tells
what a later write will complete. `RingAsMeantCorrect`, `ReadersAgreeCorrect` and `SignatureOfThisCorrect` follow; the lemmas
say what each reader (`cmdSigRead`, `cmdSigVerify`, `cvr val find`, `sig extr`) returns for a file of the form
`RingOf` or `DetOf`, and, for a body with a part lost, what the walk over its certificates comes to (`BodyParts`), with checks in the order of the source taken as the least failing one.

Only model-checked. All liveness (`EveryRunEnds`, `ExitEnds`, `CallReturns`, `NobodyStuck` and the rest): TLAPS
has no rules for fairness. `PartnersBound`: it holds for one failure at a time, since with two
changed values a group of five elements satisfies an equation by chance, and TLC counts these chances; no theorem for every group
would say the same. The computations (`ArithmeticRight`, `PolysRight`, `PointsRight`, `PiecesMakeOneStream`, `AutomatonInStep`,
`WholeDataRight`, `SignaturesRight`, `KeysAgree`, `ParametersGood`, `SecretShared`, `CodesRead`): their modules declare
recursive operators, and what a recursion computes for every input needs an induction over data, which the installed provers cannot instantiate.

## 5. Disagreements between code and documents

Shown by runs that must find a violation:

- `rng_guest`: `bpkiCSRRewrap()` (bpki.c:635), `btokSign()` in btok_cvc.c and
  cmd_sig.c ask `rngIsValid()` and then call `rngStepR()`. Another thread's last
  `rngClose()` in between makes the assertion of `rngStepR()` fail.
- `token_locked`: after ten wrong PUKs the PIN is locked for good (`puk0`), but a right
  PUK still authenticates, `pin_deactivate` then makes `pind` of `puk0` and
  `pin_activate` makes `pin3`.
- `ring_extract`: `bee2cmd sig extr` of "cert<n>" with n the number of certificates
  ends with `ERR_OK` and writes octets that are no certificate.
- `ring_told`: `cmdFileWrite()` and `cmdFileAppend()` return `ERR_OK` when `fclose()` fails to write what `fwrite()` has taken
  (cmd_file.c:62, 78), against cmd.h:213 and 224; `cvr` signs what is left of the ring, or leaves half a
  signature, and ends well.
- `signed_accepted`: `bignSign()` and `bignSign2()` subtract the hash modulo q without reducing it (bign_sign.c:131), though
  `zzSubMod()` asks for residues. For a hash that is not below q (about one in 2^l hashes on the curves of the
  standard) its assertion fails; without assertions the difference is wrong when what it is taken from is less than the
  hash minus q (about once in 2^l more), and the signature that comes with `ERR_OK` is then refused by `bignVerify()`, which reduces
  (bign_sign.c:345). `bign96` and `bignIdSign` do the same.

Met while modelling, without a run of their own. The models do what the code does, and the
properties leave these cases out by name.

Shared state and memory: the comment at rng.c:661 allows a destructor after
`rngDestroy()` to call `rngClose()`, which then locks a closed mutex;
`rng.h` asks for 32 octets of entropy, `rngCreate()` for 64; util.h:144
promises that registered destructors are called, those registered while destructors
run are not (util.c:97); a result 0 of `blobResize()` in the bake runs loses the old block (bake.c:1283, blob.h:79);
`blobResize()` by `realloc` leaves a moved block unwiped; `objCopy()` does not shift the pointers of nested
objects (obj.c:69, obj.h:126); the error paths of `btokSign`/`btokVerify` close `state`, and `btokVerify` does not look at the
result of `btokParamsStd`.

Protocols: when the scalar of BMQV is zero the code returns `ERR_BAD_PARAMS` while the
comment at bake.c:368 covers only the point O; certificate and private key of a party are not compared;
BAUTH at l = 192 and 256 with `kcb` hashes l/8 octets of Rt while 16 were sent, so that honest parties end with
`ERR_AUTH` (btok_bauth.c:479, btok.h:779), and a precedence slip `8u + s->settings->kcb ? ...` there; a command of
secure messaging whose protected data exceed 65535 octets gets an Lc cut to 16 bits (btok_sm.c:239);
`apdu.h` calls an extended Lc positive while `apduCmdDec()` accepts zero.

Token: a token in `pin1` takes the PIN whatever the authentication, also in a later
session, while `btok.h` wants the CAN to be in force at that moment; a PIN deactivated in `pin2` by the PUK is
activated in `pin3`; `botpOCRAStepR()` asserts `t != TIME_ERR` also for suites without a time.

Arithmetic: `wwSetBits()` in its carry branch (ww.h:381); `FAST(zzAddWMod)` compares by `> 0` and
returns the modulus for a sum equal to it; `SAFE(zzRedMont)` and `SAFE(zzRedCrandMont)` leave the modulus for zero; `zzExGCD()`
does not end right when b is a power of two times its odd part 1 and a > b (zz.h:588), `ppExGCD()` likewise on its side; `zzDivMod` and `zzAlmostInvMod`
promise 0 when there is no inverse; `gf2Inv`/`gf2Div` when the degree is a multiple of the word (pp_mod.c:90); `ppDiv()` writes one word past the quotient;
`ec2SeemsValidGroup()` compares a value with itself; `ecpAddJ(c, c, c)` does not double (ec.h:214); `priNextPrime()` skips the primes of its base;
`zzPowerModW()` at modulus 1; `ecpSWU()` needs a square B for the arguments 0 and 1.

Symmetric functions: `brngBlockInc()` walks past the block when all its words overflow (brng.c:55);
the exception of `beltFMTCalcB()` is named (49667, 160) in its comment (belt_fmt.c:51), the code tests for the length 320, which is never asked for: strings of
319 and 320 symbols modulo 49667 get 40 half blocks where 39 hold them, and `RoomRight` in `MCStreams` allows for this pair alone; `beltCHEUnwrap()` allocates the state of DWP; `beltWBLStepDOpt()` is not for two blocks.

Schemes: `bignKeypairVal()` (and bign96) compares an internal form of a point; `bignKeypairGen()` draws the private key below p, not q;
`g12sSign()` does not draw again for s = 0;
`dstuPointRecover()`/`Compress()` at x = 0; `belsValM()` and `belsGenM0()` count octets as words; bounds of `di[0]` and `ri` in stb99.h:129-132;
`bpkiCSRRewrap()` changes the request before it fails; `bpki` containers are opened with any number of iterations, and a share with a wrong number is given out beside its error.

Codecs: `wordEq` over buffers that are not whole words is inverted; `derTDec()` refuses tags of four octets that `derTEnc()` writes (der.c:134) and returns
`FALSE` for `SIZE_MAX`; `derTIsValid()` reads the number of a tag from its end (der.c:60); lengths wrap in `derDec()`; `derTPSTRDec()` accepts zeros;
`derOIDDec()` drops an unfinished number and accepts no octets; `derTSIZEDec()` reads the first octet of an empty number; `derTBITDec()` does not look at the padding;
`tmDateIsValid2()` accepts digits above 9; `memIsRep()` of no octets.

Rings: `cvr add` makes room for a certificate only by the length of the ring; `cvr val` loses the code of a
bad anchor; `cvr init` empties an existing ring before the key is compared; cmd.h:677-684 promises that the first certificate matches the key and all are
valid on the date, the code looks at the last one, and at its date only in a chain of two or more.

## 6. What is not modelled

The octets of ciphertexts, hashes and signatures of the real sizes: modes are
modelled on small blocks, schemes on small fields, protocols over hashing that does not collide.
Sources of entropy and the statistical tests of their output (`rngES*`,
`rngTest*`): calls of the OS and counting of 20000 bits. Builds for Windows and for
systems without threads: `mt.c` is read as built for POSIX; `mtMtx*` and `mtSleep` are the OS.
The SIMD editions of bash-f (`bash_favx*.c`, `bash_fsse2.c`, `bash_fneon.c`) repeat the 64-bit form in intrinsics.
Timers of `tm.c`, `err.c` (a table of names), `prng.c` (generators for tests), `bakeKDF()` (one hash and one
`beltKRP()`), `botpXXXRand/Verify` (checks of arguments around the steps), `ppRedBelt()`. The rest of bee2cmd parses arguments and prints.
Threads that are still inside `utilOnExit()` when the program ends, and a source of entropy that
calls back into the generator (it would wait for the mutex it holds).
Time that does not depend on the data, which regular editions are written for, is not a property of values.

## 7. Plan

1. `BtokPwd` composed with `BakeBPACE`: whether a run that breaks off counts as a wrong password.
2. Two programs that write one ring at a time.
3. Groups of seven and eleven elements for `bake`, which remove the coincidences `PartnersBound` allows for.
