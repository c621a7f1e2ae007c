------------------------------- MODULE Octets -------------------------------
(***************************************************************************)
(* The functions of mem.c on octets and of word.c, u16.c, u32.c and u64.c  *)
(* on machine words.  A buffer is a sequence of octets; where buffers may  *)
(* overlap, they are places in one memory M.  A word of n bits is the set  *)
(* of the numbers of its bits that are 1.  A machine word has OPerW octets *)
(* where octets are taken by words.                                        *)
(***************************************************************************)
EXTENDS Integers, SequencesExt

OPerW == 2
Bits(v, n) == {i \in 0 .. n - 1 : (v \div 2 ^ i) % 2 = 1}
Number(S) == FoldSet(LAMBDA i, v : v + 2 ^ i, 0, S)
Xored(S, T) == (S \ T) \cup (T \ S)
XorO(x, y) == Number(Xored(Bits(x, 8), Bits(y, 8)))
MinN(x, y) == IF x < y THEN x ELSE y
Upto(n) == [i \in 1 .. n |-> i]

-----------------------------------------------------------------------------
(* Words.  The fields of 2 k bits that begin a word, and their lower half. *)
Mask(n, k) == {i \in 0 .. n - 1 : i % (2 * k) < k}
Down(S, k) == {i - k : i \in {j \in S : j >= k}}
Up(S, k, n) == {i + k : i \in {j \in S : j + k < n}}
(* A carry comes into bit i if some two ones below made one and every      *)
(* place between passed it on.                                             *)
CarryInto(i, S, T) == \E j \in S \cap T : j < i /\ j + 1 .. i - 1 \subseteq S \cup T
Plus(S, T, n) ==
  {i \in 0 .. n - 1 : ((i \in S) # (i \in T)) # CarryInto(i, S, T)}
Minus(S, T, n) == Plus(Plus(S, (0 .. n - 1) \ T, n), {0}, n)
Times(S, T, n) == FoldSet(LAMBDA i, v : Plus(v, Up(S, i, n), n), {}, T)
Halves(n) == SelectSeq([i \in 1 .. 6 |-> n \div 2 ^ i], LAMBDA k : k >= 1)

Rev(S, n) == {8 * ((n \div 8) - 1 - (i \div 8)) + (i % 8) : i \in S}
Rev2(buf, n) == [i \in 1 .. Len(buf) |-> Rev(buf[i], n)]
(* Pairs, fours and octets of bits are counted side by side; then the      *)
(* octets are added up and the lowest of them has the sum.                 *)
Weight(S, n) ==
  LET w1 == Minus(S, Down(S, 1) \cap Mask(n, 1), n)
      w2 == Plus(w1 \cap Mask(n, 2), Down(w1, 2) \cap Mask(n, 2), n)
      w3 == Plus(w2, Down(w2, 4), n) \cap Mask(n, 4)
      Add(w, k) == Plus(w, Down(w, k), n)
      all == FoldLeft(Add, w3, SelectSeq(<<8, 16, 32>>, LAMBDA k : k < n))
  IN Number({i \in all : i <= Len(Halves(n))})
Parity(S, n) ==
  0 \in FoldLeft(LAMBDA w, k : Xored(w, Down(w, k)), S, Reverse(Halves(n)))
CTZ_safe(S, n) == n - Weight(S \cup Minus({}, S, n), n)
CLZ_safe(S, n) ==
  LET filled == FoldLeft(LAMBDA w, k : w \cup Down(w, k), S, Reverse(Halves(n)))
  IN Weight((0 .. n - 1) \ filled, n)
Halved(S, n, Shift(_, _)) ==
  LET Step(s, k) ==
        IF Shift(s.w, k) = {} THEN s ELSE [l |-> s.l - k, w |-> Shift(s.w, k)]
      s == FoldLeft(Step, [l |-> n, w |-> S], SelectSeq(Halves(n), LAMBDA k : k >= 2))
  IN IF Shift(s.w, 1) # {} THEN s.l - 2 ELSE IF s.w # {} THEN s.l - 1 ELSE s.l
CTZ_fast(S, n) == Halved(S, n, LAMBDA w, k : Up(w, k, n))
CLZ_fast(S, n) == Halved(S, n, Down)
(* The second and the third quarter of each field of 4 k bits change       *)
(* places.                                                                 *)
Quarters(w, k, n) ==
  LET t == Xored(w, Down(w, k)) \cap {i \in 0 .. n - 1 : i % (4 * k) \in k .. 2 * k - 1}
  IN Xored(w, Xored(t, Up(t, k, n)))
Shuffle(S, n) == FoldLeft(LAMBDA w, k : Quarters(w, k, n), S, Tail(Halves(n)))
Deshuffle(S, n) == FoldLeft(LAMBDA w, k : Quarters(w, k, n), S, Reverse(Tail(Halves(n))))
(* One iteration for each doubling of what is right already, one bit.      *)
NegInv(S, n) ==
  FoldLeft(LAMBDA r, k : Times(r, Plus(Times(S, r, n), {1}, n), n), S, Halves(n))
(* Words with the lowest octet first, from a memory that keeps the lowest  *)
(* octet of a word first (big = FALSE) or last.  A word is a sequence of   *)
(* octets here.                                                            *)
Turned(word, big) == IF big THEN Reverse(word) ELSE word
Chunk(buf, i, o) == SubSeq(buf, (i - 1) * o + 1, MinN(i * o, Len(buf)))
WordsFrom(buf, o, big) ==
  LET whole == buf \o [i \in 1 .. (o - (Len(buf) % o)) % o |-> 0]
      mem == [i \in 1 .. Len(whole) \div o |-> Turned(Chunk(whole, i, o), big)]
  IN [i \in 1 .. Len(mem) |-> Turned(mem[i], big)]
WordsTo(words, count, o, big) ==
  LET mem == FoldLeft(LAMBDA m, i : m \o Turned(words[i], big), <<>>, Upto(Len(words)))
      full == count \div o
      moved == SubSeq(mem, 1, count)
      part == IF big THEN SubSeq(words[full + 1], 1, count % o)
              ELSE SubSeq(moved, full * o + 1, count)
  IN FoldLeft(LAMBDA m, i : m \o Turned(Chunk(moved, i, o), big), <<>>, Upto(full))
     \o (IF count % o = 0 THEN <<>> ELSE part)

u16Rev(S) == Rev(S, 16)
u16Rev2(buf) == Rev2(buf, 16)
u16Weight(S) == Weight(S, 16)
u16Parity(S) == Parity(S, 16)
u16CTZ_safe(S) == CTZ_safe(S, 16)
u16CTZ_fast(S) == CTZ_fast(S, 16)
u16CLZ_safe(S) == CLZ_safe(S, 16)
u16CLZ_fast(S) == CLZ_fast(S, 16)
u16Shuffle(S) == Shuffle(S, 16)
u16Deshuffle(S) == Deshuffle(S, 16)
u16NegInv(S) == NegInv(S, 16)
u16From(buf, big) == WordsFrom(buf, 2, big)
u16To(words, count, big) == WordsTo(words, count, 2, big)
u32Rev(S) == Rev(S, 32)
u32Rev2(buf) == Rev2(buf, 32)
u32Weight(S) == Weight(S, 32)
u32Parity(S) == Parity(S, 32)
u32CTZ_safe(S) == CTZ_safe(S, 32)
u32CTZ_fast(S) == CTZ_fast(S, 32)
u32CLZ_safe(S) == CLZ_safe(S, 32)
u32CLZ_fast(S) == CLZ_fast(S, 32)
u32Shuffle(S) == Shuffle(S, 32)
u32Deshuffle(S) == Deshuffle(S, 32)
u32NegInv(S) == NegInv(S, 32)
u32From(buf, big) == WordsFrom(buf, 4, big)
u32To(words, count, big) == WordsTo(words, count, 4, big)
u64Rev(S) == Rev(S, 64)
u64Rev2(buf) == Rev2(buf, 64)
u64Weight(S) == Weight(S, 64)
u64Parity(S) == Parity(S, 64)
u64CTZ_safe(S) == CTZ_safe(S, 64)
u64CTZ_fast(S) == CTZ_fast(S, 64)
u64CLZ_safe(S) == CLZ_safe(S, 64)
u64CLZ_fast(S) == CLZ_fast(S, 64)
u64Shuffle(S) == Shuffle(S, 64)
u64Deshuffle(S) == Deshuffle(S, 64)
u64NegInv(S) == NegInv(S, 64)
u64From(buf, big) == WordsFrom(buf, 8, big)
u64To(words, count, big) == WordsTo(words, count, 8, big)
wordLoad(buf, big) == Turned(Turned(SubSeq(buf, 1, OPerW), big), big)
wordSave(word, big) == Turned(Turned(word, big), big)
wordsTo(words, count, big) == WordsTo(words, count, OPerW, big)

-----------------------------------------------------------------------------
(* Octets.  The functions SAFE() collect what they find without a branch;  *)
(* FAST() stop.                                                            *)
Collected(buf, o) == UNION {Xored(Bits(buf[i], 8), Bits(o, 8)) : i \in 1 .. Len(buf)}
memEq_safe(buf1, buf2) ==
  UNION {Xored(Bits(buf1[i], 8), Bits(buf2[i], 8)) : i \in 1 .. Len(buf1)} = {}
memEq_fast(buf1, buf2) == buf1 = buf2
memIsZero_safe(buf) == Collected(buf, 0) = {}
memIsZero_fast(buf) == \A i \in 1 .. Len(buf) : buf[i] = 0
memIsRep_safe(buf, o) == Collected(buf, o) = {}
memIsRep_fast(buf, o) == \A i \in 1 .. Len(buf) : buf[i] = o
memNonZeroSize(buf) == Cardinality({n \in 1 .. Len(buf) : \E i \in n .. Len(buf) : buf[i] # 0})

(* less and greater are kept as the first difference has set them.         *)
Regular(s, w1, w2) ==
  [less |-> s.less \/ (~s.greater /\ w1 < w2), greater |-> s.greater \/ (~s.less /\ w1 > w2)]
Outcome(s) == IF s.less THEN -1 ELSE IF s.greater THEN 1 ELSE 0
Even == [less |-> FALSE, greater |-> FALSE]
WordMod == 256 ^ OPerW
(* Octets fill words from the front, a word keeps those of the word before *)
(* until they are pushed out; less is set before greater looks at it.      *)
memCmp_safe(buf1, buf2) ==
  LET n == Len(buf1)
      In(buf, i) == FoldLeft(LAMBDA w, j : (w * 256 + buf[j]) % WordMod, 0, Upto(i))
      Step(s, i) ==
        IF i % OPerW = 0 \/ i = n THEN Regular(s, In(buf1, i), In(buf2, i)) ELSE s
  IN Outcome(FoldLeft(Step, Even, Upto(n)))
FirstDiff(buf1, buf2, at) ==
  LET d == SelectSeq(at, LAMBDA i : buf1[i] # buf2[i])
  IN IF d = <<>> THEN 0 ELSE IF buf1[d[1]] > buf2[d[1]] THEN 1 ELSE -1
memCmp_fast(buf1, buf2) == FirstDiff(buf1, buf2, Upto(Len(buf1)))
(* From the end, the last word first, which may be short.                  *)
memCmpRev_safe(buf1, buf2) ==
  LET k == (Len(buf1) + OPerW - 1) \div OPerW
      At(buf, i) == FoldLeft(LAMBDA w, o : w * 256 + o, 0, Reverse(Chunk(buf, k - i + 1, OPerW)))
  IN Outcome(FoldLeft(LAMBDA s, i : Regular(s, At(buf1, i), At(buf2, i)), Even, Upto(k)))
memCmpRev_fast(buf1, buf2) == FirstDiff(buf1, buf2, Reverse(Upto(Len(buf1))))
memNeg(buf) == [i \in 1 .. Len(buf) |-> 255 - buf[i]]
(* Octets from both sides, by additions modulo 2 in place.                 *)
memRev(buf) ==
  LET n == Len(buf)
      Swap(b, i) ==
        LET x == [b EXCEPT ![i] = XorO(@, b[n + 1 - i])]
            y == [x EXCEPT ![n + 1 - i] = XorO(@, x[i])]
        IN [y EXCEPT ![i] = XorO(@, y[n + 1 - i])]
  IN FoldLeft(Swap, buf, Reverse(Upto(n \div 2)))

(* Machine words first, then what is left.  The octets that are left are   *)
(* compared by memEq(), whose answer is taken for a difference.            *)
Words(buf) == [i \in 1 .. Len(buf) \div OPerW |-> Chunk(buf, i, OPerW)]
Rest(buf) == SubSeq(buf, (Len(buf) \div OPerW) * OPerW + 1, Len(buf))
wordsNeg(buf) ==
  FoldLeft(LAMBDA s, w : s \o memNeg(w), <<>>, Words(buf)) \o memNeg(Rest(buf))
wordsEq_safe(buf1, buf2) ==
  /\ Words(buf1) = Words(buf2)
  /\ Rest(buf1) # <<>> => ~memEq_safe(Rest(buf1), Rest(buf2))
wordsEq_fast(buf1, buf2) ==
  /\ \A i \in 1 .. Len(Words(buf1)) : Words(buf1)[i] = Words(buf2)[i]
  /\ Rest(buf1) # <<>> => ~memEq_fast(Rest(buf1), Rest(buf2))
wordsIsZero_safe(buf) == Collected(buf, 0) = {}
wordsIsZero_fast(buf) ==
  /\ \A i \in 1 .. Len(Words(buf)) : memIsZero_fast(Words(buf)[i])
  /\ memIsZero_fast(Rest(buf))
Loaded(w) == FoldLeft(LAMBDA v, o : v * 256 + o, 0, Reverse(w))
wordsCmpRev_safe(buf1, buf2) ==
  LET c == memCmpRev_safe(Rest(buf1), Rest(buf2))
      s0 == IF Rest(buf1) = <<>> THEN Even ELSE [less |-> c = -1, greater |-> c = 1]
      ws(buf) == Reverse(Words(buf))
      Step(s, i) == Regular(s, Loaded(ws(buf1)[i]), Loaded(ws(buf2)[i]))
  IN Outcome(FoldLeft(Step, s0, Upto(Len(Words(buf1)))))
wordsCmpRev_fast(buf1, buf2) ==
  LET c == memCmpRev_safe(Rest(buf1), Rest(buf2))
      w(buf) == [i \in 1 .. Len(Words(buf)) |-> Loaded(Words(buf)[i])]
  IN IF Rest(buf1) # <<>> /\ c # 0 THEN c
     ELSE FirstDiff(w(buf1), w(buf2), Reverse(Upto(Len(Words(buf1)))))

-----------------------------------------------------------------------------
(* Buffers in one memory.                                                  *)
Block(M, at, n) == SubSeq(M, at, at + n - 1)
memMove(M, dest, src, n) ==
  [a \in DOMAIN M |-> IF a \in dest .. dest + n - 1 THEN M[src + a - dest] ELSE M[a]]
memCopy(M, dest, src, n) == memMove(M, dest, src, n)
memSet(M, buf, o, n) == [a \in DOMAIN M |-> IF a \in buf .. buf + n - 1 THEN o ELSE M[a]]
memIsDisjoint2(buf1, n1, buf2, n2) ==
  n1 = 0 \/ n2 = 0 \/ buf1 + n1 <= buf2 \/ buf1 >= buf2 + n2
memIsDisjoint(buf1, buf2, n) == n = 0 \/ buf1 + n <= buf2 \/ buf1 >= buf2 + n
memIsSameOrDisjoint(buf1, buf2, n) == buf1 = buf2 \/ memIsDisjoint(buf1, buf2, n)
memIsDisjoint3(b1, n1, b2, n2, b3, n3) ==
  /\ memIsDisjoint2(b1, n1, b2, n2) /\ memIsDisjoint2(b1, n1, b3, n3)
  /\ memIsDisjoint2(b2, n2, b3, n3)
memIsDisjoint4(b1, n1, b2, n2, b3, n3, b4, n4) ==
  /\ memIsDisjoint2(b1, n1, b2, n2) /\ memIsDisjoint2(b1, n1, b3, n3)
  /\ memIsDisjoint2(b1, n1, b4, n4) /\ memIsDisjoint3(b2, n2, b3, n3, b4, n4)

(* src1 and src2 to dest, which may overlap with both.  When neither can   *)
(* be moved to its place first, they are put in the other order and turned *)
(* around; when that cannot be either, one octet is taken from each side.  *)
Rotated(M, dest, n, k) ==
  LET b == Block(M, dest, n)
  IN [a \in DOMAIN M |-> IF a \in dest .. dest + n - 1 THEN b[((a - dest + k) % n) + 1] ELSE M[a]]
memJoin(M0, d0, a0, n0, b0, m0) ==
  LET RECURSIVE Run(_, _, _, _, _, _)
      Run(M, dest, src1, n, src2, m) ==
        LET Then1(M1) == memMove(M1, dest, src1, n)
            Then2(M1) == memMove(M1, dest + n, src2, m)
            Turn1(M1) == memMove(M1, dest, src2, m)
            Turn2(M1) == memMove(M1, dest + m, src1, n)
            M2 == [M EXCEPT ![dest] = M[src1]]
        IN IF memIsDisjoint2(dest, n, src2, m) THEN Then2(Then1(M))
           ELSE IF memIsDisjoint2(dest + n, m, src1, n) THEN Then1(Then2(M))
           ELSE IF memIsDisjoint2(dest, m, src1, n)
           THEN Rotated(Turn2(Turn1(M)), dest, n + m, m)
           ELSE IF memIsDisjoint2(dest + m, n, src2, m)
           THEN Rotated(Turn1(Turn2(M)), dest, n + m, m)
           ELSE Run([M2 EXCEPT ![dest + n + m - 1] = M2[src2 + m - 1]],
                    dest + 1, src1 + 1, n - 1, src2, m - 1)
  IN Run(M0, d0, a0, n0, b0, m0)

(* Octet by octet from the front, or by words: the same for buffers that   *)
(* are disjoint or the same.                                               *)
XorFrom(M, dest, src1, src2, n) ==
  FoldLeft(LAMBDA m, i : [m EXCEPT ![dest + i] = XorO(m[src1 + i], m[src2 + i])],
           M, [i \in 1 .. n |-> i - 1])
XorWords(M, dest, src1, src2, n) ==
  LET Word(m, k) ==
        LET w == [i \in 1 .. OPerW |-> XorO(m[src1 + k * OPerW + i - 1], m[src2 + k * OPerW + i - 1])]
        IN [a \in DOMAIN m |-> IF a - dest - k * OPerW \in 0 .. OPerW - 1
                               THEN w[a - dest - k * OPerW + 1] ELSE m[a]]
      full == n \div OPerW
      M1 == FoldLeft(Word, M, [i \in 1 .. full |-> i - 1])
      o == full * OPerW
  IN XorFrom(M1, dest + o, src1 + o, src2 + o, n - o)
memXor(M, dest, src1, src2, n) == XorWords(M, dest, src1, src2, n)
memXor2(M, dest, src, n) == XorFrom(M, dest, dest, src, n)
wordsXor(M, dest, src1, src2, n) == XorWords(M, dest, src1, src2, n)
wordsXor2(M, dest, src, n) == XorWords(M, dest, dest, src, n)
memSwap(M, buf1, buf2, n) ==
  FoldLeft(LAMBDA m, i : [m EXCEPT ![buf1 + i] = m[buf2 + i], ![buf2 + i] = m[buf1 + i]],
           M, [i \in 1 .. n |-> i - 1])
wordsSwap(M, buf1, buf2, n) == memSwap(M, buf1, buf2, n)

-----------------------------------------------------------------------------
(***************************************************************************)
(* Objects of src/src/core/obj.c: pieces of memory that begin with a       *)
(* header and a table of pointers, the first ones to objects inside.  The  *)
(* memory M gives the headers by their addresses: how many octets the      *)
(* object takes (keep), the pointers (ptr), how many are to objects (o).   *)
(***************************************************************************)
objEnd(M, obj) == obj + M[obj].keep
Inside(M, obj, p) == p \in obj .. objEnd(M, obj) - 1
ObjHeader == 1                \* octets of a header; a pointer takes one
objIsOperable2(M, obj) ==
  /\ obj \in DOMAIN M /\ M[obj].o <= Len(M[obj].ptr)
  /\ ObjHeader + Len(M[obj].ptr) <= M[obj].keep
objIsOperable(M, obj) ==
  LET RECURSIVE Ok(_)
      Ok(x) == objIsOperable2(M, x) /\ \A i \in 1 .. M[x].o : Ok(M[x].ptr[i])
  IN Ok(obj)

(* The nested object is looked for where the pointer leads before it is    *)
(* shifted.  What lies in between is not an object: nothing is done to it. *)
objShiftPtrs(M0, obj0, diff) ==
  LET RECURSIVE Shift(_, _, _)
      Shift(M, obj, i) ==
        IF obj \notin DOMAIN M \/ i > Len(M[obj].ptr) THEN M
        ELSE LET p == M[obj].ptr[i]
                 M1 == IF i <= M[obj].o THEN Shift(M, p, 1) ELSE M
             IN IF Inside(M, obj, p + diff)
                THEN Shift([M1 EXCEPT ![obj].ptr[i] = @ + diff], obj, i + 1)
                ELSE Shift(M, obj, i + 1)
  IN Shift(M0, obj0, 1)
(* All octets move, with the headers that are among them.                  *)
ObjMoved(M, dest, src, n) ==
  LET there == {a \in DOMAIN M : a \in src .. src + n - 1}
      kept == {a \in DOMAIN M : a \notin dest .. dest + n - 1}
  IN [a \in kept \cup {s + dest - src : s \in there} |->
        IF a \in dest .. dest + n - 1 THEN M[a + src - dest] ELSE M[a]]
objCopy(M, dest, src) == objShiftPtrs(ObjMoved(M, dest, src, M[src].keep), dest, dest - src)
objAppend(M, dest, src, i) ==
  LET end == objEnd(M, dest)
      M1 == objCopy(M, end, src)
  IN [M1 EXCEPT ![dest].ptr[i] = end, ![dest].keep = @ + M[src].keep]
=============================================================================
