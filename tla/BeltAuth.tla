------------------------------ MODULE BeltAuth -------------------------------
(***************************************************************************)
(* Functions of belt that gather data in pieces and give a tag at any      *)
(* moment: MAC, Hash, HMAC, the authenticated encryption DWP and CHE, and  *)
(* PBKDF2; at the end the generators of brng, made of Hash and HMAC.  A    *)
(* tag of several lengths is the beginning of the longest one,             *)
(* so StepG2, StepV and StepV2 differ from StepG by what they compare.     *)
(* StepG changes the state (it pads the block in place): it returns        *)
(* [st, tag].                                                              *)
(***************************************************************************)
EXTENDS BeltModes

(* Data are gathered in st.block of size octets, st.filled of them; Mix    *)
(* processes a full block.                                                 *)
Gather(buf, st, size, Mix(_)) ==
  LET count == Len(buf)
      head == MinOf(size - st.filled, count)
      first == Mix([st EXCEPT !.block = Put(@, st.filled, Fit(buf, head)), !.filled = 0])
      rest == IF st.filled = 0 THEN buf ELSE Piece(buf, head, count - head)
      n == Len(rest) \div size
      left == Len(rest) % size
      r == Iter(LAMBDA s, j : Mix([s EXCEPT !.block = Piece(rest, size * j, size)]),
                IF st.filled = 0 THEN st ELSE first, n)
  IN IF st.filled > 0 /\ count < size - st.filled
       THEN [st EXCEPT !.block = Put(@, st.filled, buf), !.filled = @ + count]
       ELSE IF left = 0 THEN r
            ELSE [r EXCEPT !.block = Put(@, 0, Piece(rest, size * n, left)), !.filled = left]
(* The block with zeros after its filled octets.                           *)
Padded(st, size) == Put(st.block, st.filled, Zeros(size - st.filled))

-----------------------------------------------------------------------------
(* MAC: the last full block waits for more data.                           *)
beltMACStart(key) ==
  LET k == beltKeyExpand2(key)
  IN [key |-> k, s |-> Zeros(N16), r |-> beltBlockEncr2(Zeros(N16), k),
      block |-> Zeros(N16), filled |-> 0]
MACMix(st) == [st EXCEPT !.s = beltBlockEncr2(MemXor(@, st.block), st.key)]
beltMACStepA(buf, st) ==
  LET count == Len(buf)
      head == N16 - st.filled
      full == [st EXCEPT !.block = Put(@, st.filled, Fit(buf, head)), !.filled = N16]
      rest == Piece(buf, head, count - head)
      n == Len(rest) \div N16
      left == Len(rest) % N16
      r == Iter(LAMBDA s, j : [MACMix(s) EXCEPT !.block = Piece(rest, N16 * j, N16)], full, n)
  IN IF st.filled < N16 /\ count <= head
       THEN [st EXCEPT !.block = Put(@, st.filled, buf), !.filled = @ + count]
       ELSE IF left = 0 THEN r
            ELSE [MACMix(r) EXCEPT !.block = Put(@, 0, Piece(rest, N16 * n, left)),
                                   !.filled = left]
(* 2 ^ (B - 1) stands for the octet 0x80.                                  *)
beltMACStepG_internal(st) ==
  LET r == st.r
      padded == Put(Padded(st, N16), st.filled, <<2 ^ (B - 1)>>)
      whole == MemXor(MemXor(st.s, st.block), <<r[2], r[3], r[4], Xor(r[1], r[2])>>)
      short == MemXor(MemXor(st.s, padded), <<Xor(r[1], r[4]), r[1], r[2], r[3]>>)
  IN IF st.filled = N16 THEN [st |-> st, tag |-> beltBlockEncr2(whole, st.key)]
     ELSE [st |-> [st EXCEPT !.block = padded], tag |-> beltBlockEncr2(short, st.key)]
beltMACStepG2(n, st) == [beltMACStepG_internal(st) EXCEPT !.tag = Fit(@, n)]
beltMACStepG(st) == beltMACStepG2(2, st)
beltMACStepV2(mac, st) == LET g == beltMACStepG2(Len(mac), st) IN [st |-> g.st, ok |-> g.tag = mac]
beltMACStepV(mac, st) == beltMACStepV2(mac, st)
beltMAC(src, key, mem) ==
  HighLevel(KeyOk(key), mem, beltMACStepG(beltMACStepA(src, beltMACStart(key))).tag)

-----------------------------------------------------------------------------
(* Hash: the length and the sum are ls, the value is h.                    *)
InitialH == beltH(0, N32)
beltHashStart == [len |-> Zeros(N16), s |-> Zeros(N16), h |-> InitialH,
                  block |-> Zeros(N32), filled |-> 0]
HashMix(st) ==
  With(beltCompr2(st.s, st.h, st.block), LAMBDA c : [st EXCEPT !.s = c.s, !.h = c.h])
beltHashStepH(buf, st) ==
  Gather(buf, [st EXCEPT !.len = beltBlockAddBitSizeU32(@, Len(buf))], N32, HashMix)
(* The incomplete block is processed in copies of s and h.                 *)
beltHashStepG_internal(st) ==
  With([st EXCEPT !.block = Padded(st, N32)], LAMBDA padded :
    With(IF st.filled > 0 THEN HashMix(padded) ELSE st, LAMBDA last :
      [st |-> IF st.filled > 0 THEN padded ELSE st, tag |-> beltCompr(last.h, st.len \o last.s)]))
beltHashStepG2(n, st) == [beltHashStepG_internal(st) EXCEPT !.tag = Fit(@, n)]
beltHashStepG(st) == beltHashStepG2(N32, st)
beltHashStepV2(hash, st) ==
  With(beltHashStepG2(Len(hash), st), LAMBDA g : [st |-> g.st, ok |-> g.tag = hash])
beltHashStepV(hash, st) == beltHashStepV2(hash, st)
beltHash(src, mem) == HighLevel(TRUE, mem, beltHashStepG(beltHashStepH(src, beltHashStart)).tag)

(* HMAC: two states of the hash, the outer one waits for the inner value.  *)
(* The octets 0x36 and 0x5C are here 1 and 2: 0x6A turns one into the      *)
(* other.                                                                  *)
OneBlock(block) ==
  HashMix([beltHashStart EXCEPT !.block = block, !.len = beltBlockAddBitSizeU32(@, N32)])
XorAll(block, v) == Eager([i \in 1 .. N32 |-> Xor(block[i], v)])
WholeBlocks(key) ==
  Iter(LAMBDA s, j : HashMix([s EXCEPT !.block = Piece(key, N32 * j, N32)]),
       [beltHashStart EXCEPT !.len = beltBlockAddBitSizeU32(@, Len(key))], Len(key) \div N32)
LastBlock(s, rest) ==
  IF rest = <<>> THEN s ELSE HashMix([s EXCEPT !.block = rest \o Zeros(N32 - Len(rest))])
HashOfKey(key) ==
  With(LastBlock(WholeBlocks(key), Piece(key, Len(key) - (Len(key) % N32), Len(key) % N32)),
       LAMBDA all : beltCompr(all.h, all.len \o all.s))
InnerOuter(inner, outer) ==
  With(OneBlock(outer), LAMBDA out :
    [in |-> [OneBlock(inner) EXCEPT !.block = outer],
     out |-> [s |-> out.s, h |-> out.h, len |-> beltBlockAddBitSizeU32(Zeros(N16), N32 * 2)]])
beltHMACStart(key) ==
  With(XorAll(IF Len(key) <= N32 THEN key \o Zeros(N32 - Len(key)) ELSE HashOfKey(key), 1),
       LAMBDA inner : InnerOuter(inner, XorAll(inner, 3)))
beltHMACStepA(buf, st) == [st EXCEPT !.in = beltHashStepH(buf, @)]
beltHMACStepG_internal(st) ==
  With(beltHashStepG_internal(st.in), LAMBDA g :
    With(beltCompr2(st.out.s, st.out.h, g.tag), LAMBDA c :
      [st |-> [st EXCEPT !.in = g.st], tag |-> beltCompr(c.h, st.out.len \o c.s)]))
beltHMACStepG2(n, st) == [beltHMACStepG_internal(st) EXCEPT !.tag = Fit(@, n)]
beltHMACStepG(st) == beltHMACStepG2(N32, st)
beltHMACStepV2(mac, st) ==
  With(beltHMACStepG2(Len(mac), st), LAMBDA g : [st |-> g.st, ok |-> g.tag = mac])
beltHMACStepV(mac, st) == beltHMACStepV2(mac, st)
beltHMAC(src, key, mem) ==
  HighLevel(TRUE, mem, beltHMACStepG(beltHMACStepA(src, beltHMACStart(key))).tag)

(* The number 1 in four octets is here one register.                       *)
beltPBKDF2(pwd, iter, salt, mem) ==
  LET start == beltHMACStart(pwd)
      first == beltHMACStepG(beltHMACStepA(<<1>>, beltHMACStepA(salt, start))).tag
      r == Iter(LAMBDA q, j : LET t == beltHMACStepG(beltHMACStepA(q.t, start)).tag
                              IN [t |-> t, key |-> MemXor(q.key, t)],
                [t |-> first, key |-> first], iter - 1)
  IN HighLevel(iter > 0, mem, r.key)

-----------------------------------------------------------------------------
(* DWP and CHE: a tag of open and critical data by a polynomial of r.  The *)
(* lengths of both are the halves of len.                                  *)
AuthState == [t |-> beltH(0, N16), len |-> <<0, 0>>, block |-> Zeros(N16), filled |-> 0]
PolyMix(st) == [st EXCEPT !.t = beltPolyMul(MemXor(@, st.block), st.r)]
AddLen(st, i, count) == [st EXCEPT !.len[i] = beltHalfBlockAddBitSizeW(@, count)]
AuthStepI(buf, st) == Gather(buf, AddLen(st, 1, Len(buf)), N16, PolyMix)
(* The first critical data close the block of open data.                   *)
AuthStepA(buf, st) ==
  LET closing == buf # <<>> /\ st.len[2] = 0 /\ st.filled > 0
      closed == PolyMix([st EXCEPT !.block = Padded(st, N16), !.filled = 0])
  IN Gather(buf, AddLen(IF closing THEN closed ELSE st, 2, Len(buf)), N16, PolyMix)
AuthStepG(st) ==
  LET padded == [st EXCEPT !.block = Padded(st, N16)]
      lens == OctetsOf(st.len[1], 2) \o OctetsOf(st.len[2], 2)
      tag(t1) == Fit(beltBlockEncr(beltPolyMul(MemXor(t1, lens), st.r), st.key), 2)
  IN [st |-> IF st.filled > 0 THEN padded ELSE st,
      tag |-> tag(IF st.filled > 0 THEN PolyMix(padded).t ELSE st.t)]
AuthStepV(mac, st) == With(AuthStepG(st), LAMBDA g : [st |-> g.st, ok |-> g.tag = mac])

beltDWPStart(key, iv) ==
  With(beltCTRStart(key, iv), LAMBDA ctr :
    [auth |-> [r |-> beltBlockEncr2(ctr.ctr, ctr.key), key |-> ctr.key] @@ AuthState, ctr |-> ctr])
beltDWPStepE(buf, st) ==
  With(beltCTRStepE(buf, st.ctr), LAMBDA c : [buf |-> c.buf, st |-> [st EXCEPT !.ctr = c.st]])
beltDWPStepD(buf, st) == beltDWPStepE(buf, st)
beltDWPStepI(buf, st) == [st EXCEPT !.auth = AuthStepI(buf, @)]
beltDWPStepA(buf, st) == [st EXCEPT !.auth = AuthStepA(buf, @)]
beltDWPStepG_internal(st) == AuthStepG(st.auth)
beltDWPStepG(st) ==
  With(beltDWPStepG_internal(st), LAMBDA g : [st |-> [st EXCEPT !.auth = g.st], tag |-> g.tag])
beltDWPStepV(mac, st) ==
  With(AuthStepV(mac, st.auth), LAMBDA g : [st |-> [st EXCEPT !.auth = g.st], ok |-> g.ok])
beltDWPWrap(src1, src2, key, iv, mem) ==
  LET e == beltDWPStepE(src1, beltDWPStepI(src2, beltDWPStart(key, iv)))
  IN HighLevel(KeyOk(key), mem, [data |-> e.buf, mac |-> beltDWPStepG(beltDWPStepA(e.buf, e.st)).tag])

(* The state of CHE: its gamma is made of multiples of s.                  *)
beltCHEStart(key, iv) ==
  LET k == beltKeyExpand2(key)
      r == beltBlockEncr(iv, k)
  IN [auth |-> [r |-> r, key |-> k] @@ AuthState,
      gamma |-> [key |-> k, s |-> r, block |-> Zeros(N16), reserved |-> 0]]
CHEFresh(st, p) ==
  LET c == beltBlockMulC(st.s)
      s == [c EXCEPT ![1] = Xor(@, 1)]
  IN [st EXCEPT !.s = s, !.block = beltBlockEncr2(s, st.key)]
beltCHEStepE(buf, st) ==
  With(Gamma(buf, st.gamma, N16, XorGamma, CHEFresh), LAMBDA c :
    [buf |-> c.buf, st |-> [st EXCEPT !.gamma = c.st]])
beltCHEStepD(buf, st) == beltCHEStepE(buf, st)
beltCHEStepI(buf, st) == [st EXCEPT !.auth = AuthStepI(buf, @)]
beltCHEStepA(buf, st) == [st EXCEPT !.auth = AuthStepA(buf, @)]
beltCHEStepG_internal(st) == AuthStepG(st.auth)
beltCHEStepG(st) ==
  With(beltCHEStepG_internal(st), LAMBDA g : [st |-> [st EXCEPT !.auth = g.st], tag |-> g.tag])
beltCHEStepV(mac, st) ==
  With(AuthStepV(mac, st.auth), LAMBDA g : [st |-> [st EXCEPT !.auth = g.st], ok |-> g.ok])
beltCHEWrap(src1, src2, key, iv, mem) ==
  LET e == beltCHEStepE(src1, beltCHEStepI(src2, beltCHEStart(key, iv)))
  IN HighLevel(KeyOk(key), mem, [data |-> e.buf, mac |-> beltCHEStepG(beltCHEStepA(e.buf, e.st)).tag])

(* Unprotection decrypts only what has the right tag.                      *)
Unprotect(ok, mem, v, plain) ==
  IF ok /\ mem /\ ~v THEN [code |-> "ERR_BAD_MAC", dest |-> <<>>] ELSE HighLevel(ok, mem, plain)
beltDWPUnwrap(src1, src2, mac, key, iv, mem) ==
  LET v == beltDWPStepV(mac, beltDWPStepA(src1, beltDWPStepI(src2, beltDWPStart(key, iv))))
  IN Unprotect(KeyOk(key), mem, v.ok, beltDWPStepD(src1, v.st).buf)
beltCHEUnwrap(src1, src2, mac, key, iv, mem) ==
  LET v == beltCHEStepV(mac, beltCHEStepA(src1, beltCHEStepI(src2, beltCHEStart(key, iv))))
  IN Unprotect(KeyOk(key), mem, v.ok, beltCHEStepD(src1, v.st).buf)

-----------------------------------------------------------------------------
(***************************************************************************)
(* The generators of src/src/crypto/brng.c: in counter mode and in the     *)
(* HMAC mode.  A block is 8 octets, four words of two octets.              *)
(***************************************************************************)
WordsIn == N32 \div 2
brngBlockNeg(b) == Eager([i \in 1 .. N32 |-> Not(b[i])])
brngBlockXor2(a, b) == MemXor(a, b)

(* The loop tests the index before it moves on: after the last word of the *)
(* block it takes one word more.  mem is the memory from the block on.     *)
brngBlockInc(mem) ==
  LET w(i) == NumOf(Piece(mem, 2 * i, 2))
      full == W ^ 2 - 1
      last == IF \A i \in 0 .. WordsIn - 1 : w(i) = full THEN WordsIn
              ELSE Min({i \in 0 .. WordsIn - 1 : w(i) # full})
  IN Iter(LAMBDA b, i : Put(b, 2 * i, OctetsOf((w(i) + 1) % W ^ 2, 2)), mem, last + 1)

(* Output of a step: the octets of the block, in place of what buf held.   *)
Given(lo, p, st) == [buf |-> Piece(st.block, lo, Len(p)), st |-> st]

-----------------------------------------------------------------------------
(* Counter mode.  r lies after s; start is the hash of the key.            *)
brngCTRStart(key, iv) ==
  LET s == IF iv = <<>> THEN Zeros(N32) ELSE iv
  IN [s |-> s, r |-> brngBlockNeg(s), block |-> Zeros(N32), reserved |-> 0,
      start |-> beltHashStepH(key, beltHashStart)]
(* The hash of what h has taken, of as many zeros as short says, and of r. *)
HashWith(st, h, short) ==
  beltHashStepG(beltHashStepH(st.r, IF short > 0 THEN beltHashStepH(Zeros(short), h) ELSE h)).tag
(* What buf held goes into the block, with zeros after it when it is short. *)
CTRBlock(st, p) ==
  With(brngBlockInc(st.s \o st.r), LAMBDA m :
    With(HashWith(st, beltHashStepH(p, beltHashStepH(st.s, st.start)), N32 - Len(p)), LAMBDA y :
      [st EXCEPT !.s = Piece(m, 0, N32), !.r = brngBlockXor2(Piece(m, N32, N32), y), !.block = y]))
brngCTRStepR(buf, st) == Gamma(buf, st, N32, Given, CTRBlock)
brngCTRStepG(st) == st.s
brngCTRRand(buf, key, iv, mem) ==
  LET g == brngCTRStepR(buf, brngCTRStart(key, iv))
  IN HighLevel(TRUE, mem, [buf |-> g.buf, iv |-> brngCTRStepG(g.st)])

-----------------------------------------------------------------------------
(* HMAC mode.  The value of r is asked for in the middle of the data.      *)
brngHMACStart(key, iv) ==
  With(beltHMACStart(key), LAMBDA start :
    [iv |-> iv, start |-> start, r |-> beltHMACStepG(beltHMACStepA(iv, start)).tag,
     block |-> Zeros(N32), reserved |-> 0])
HMACBlock(st, p) ==
  With(beltHMACStepG(beltHMACStepA(st.r, st.start)), LAMBDA g :
    [st EXCEPT !.r = g.tag, !.block = beltHMACStepG(beltHMACStepA(st.iv, g.st)).tag])
brngHMACStepR(buf, st) == Gamma(buf, st, N32, Given, HMACBlock)
brngHMACRand(buf, key, iv, mem) ==
  HighLevel(TRUE, mem, brngHMACStepR(buf, brngHMACStart(key, iv)).buf)
=============================================================================
