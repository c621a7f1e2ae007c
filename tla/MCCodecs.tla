------------------------------ MODULE MCCodecs ------------------------------
(***************************************************************************)
(* Codes, texts, octets, words and objects of src/src/core.  A job takes   *)
(* one choice of arguments; codes from outside grow octet by octet.        *)
(***************************************************************************)
EXTENDS Codecs, Octets

VARIABLES
  job,           \* what is being tried
  probe          \* the arguments

vars == <<job, probe>>
Fill(n, o) == [i \in 1 .. n |-> o]
SeqsUpto(S, n) == UNION {[1 .. k -> S] : k \in 0 .. n}
Env == [junk |-> <<2>>, beyond |-> <<1, 0, 0, 0>>]
Joined(f, n) == FoldLeft(LAMBDA s, i : s \o f[i], <<>>, Upto(n))

(* Codes from outside; they are longer when they begin with a long length. *)
FirstOctets == {2, 3, 4, 6, 19, 31, 95}
NextOctets == {0, 1, 2, 31, 65, 127, 128, 129, 130, 254, 255}
MayGrow(der) == Len(der) < 4 \/ (Len(der) = 4 /\ der[2] = 3)

(* Values to be coded.                                                     *)
Tags == {<<2>>, <<66>>, <<95, 41>>, <<95, 129, 1>>}
AnyTags == SeqsUpto({0, 30, 31, 48, 95, 127, 128, 129, 255}, 4) \ {<<>>}
Sizes == {0, 1, 127, 128, 255, 256, 32767, 32768, 65534}
Dotted(nums) == Tail(FoldLeft(LAMBDA s, v : s \o <<Dot>> \o derSIDDec(v), <<>>, nums))
Oids ==
  {Dotted(<<a, b>> \o c) : a \in 0 .. 3, b \in {0, 39, 40, 47, 48},
   c \in SeqsUpto({0, 9, 127, 128, 16384, 65535}, 2)}
Filler(n) == [i \in 1 .. n |-> i % 256]
Lengths == {0, 1, 121, 124, 125, 127, 128, 256}

(* Words and objects.                                                      *)
WordsOf(n) ==
  {{}, {0}, {n - 1}, 0 .. n - 1, {0, n - 1}, 0 .. 7, 8 .. n - 1, n \div 2 .. n - 1}
  \cup {{i \in 0 .. n - 1 : i % k \in r} : k \in {2, 3, 5, 7, 8}, r \in {{0}, {1}, {0, 3}}}
Hdr(keep, o, ptr) == [keep |-> keep, o |-> o, ptr |-> ptr]
(* An object at 0 with another inside at 4, one pointer out and one in.    *)
Compound(out) == (0 :> Hdr(8, 1, <<4, out, 3>>)) @@ (4 :> Hdr(3, 0, <<6, out>>))
Flat(out) == 0 :> Hdr(8, 0, <<4, out, 3>>)

Arguments(j) ==
  CASE j = "tags" -> AnyTags
    [] j = "size" -> Tags \X Sizes
    [] j = "uint" -> Tags \X (SeqsUpto({0, 1, 127, 128}, 3) \ {<<>>})
    [] j = "bits" -> Tags \X SeqsUpto({0, 255}, 2) \X (0 .. 7)
    [] j = "strings" -> Tags \X SeqsUpto({65, 0, 42, 57}, 3)
    [] j = "oids" -> {<<oid>> : oid \in Oids}
    [] j = "boxes" -> {<<48>>, <<127, 33>>} \X Lengths \X Lengths \X Lengths
    [] j = "octets" -> SeqsUpto({0, 9, 127, 171, 255}, 4)
    [] j = "hex" -> SeqsUpto({47, 48, 57, 58, 64, 65, 70, 71, 96, 97, 102, 103}, 2)
    [] j = "b64" -> [1 .. 4 -> {43, 47, 48, 61, 65, 66, 81, 122}]
    [] j = "dec" -> SeqsUpto(48 .. 57, 3)
    [] j = "str" -> SeqsUpto({47, 48, 65, 122}, 3) \X SeqsUpto({48, 65}, 2)
    [] j = "date" -> {1582, 1583, 1600, 1900, 2000, 2023, 2024, 2099, 2100} \X (0 .. 13) \X (0 .. 32)
    [] j = "day" -> {<<y1, y2, m, d>> : y1 \in {0, 2}, y2 \in {0, 4, 12}, m \in {0, 2, 12}, d \in {0, 29, 30}}
    [] j = "time" -> (0 .. 9) \X (0 .. 9) \X (0 .. 3)
    [] j = "words" -> UNION {{n} \X WordsOf(n) : n \in {16, 32, 64}}
    [] j = "pairs" -> UNION {[1 .. n -> {0, 1, 255}] \X [1 .. n -> {0, 1, 255}] : n \in 0 .. 3}
    [] j = "long" -> UNION {[1 .. n -> {0, 255}] \X [1 .. n -> {0, 255}] : n \in 4 .. 5}
    [] j = "join" -> (0 .. 3) \X (0 .. 3) \X (1 .. 5) \X (1 .. 5) \X (1 .. 5)
    [] j = "objects" -> {<<Compound(20), d>> : d \in 8 .. 11} \cup {<<Flat(20), d>> : d \in 1 .. 11}
Jobs == {"tags", "size", "uint", "bits", "strings", "oids", "boxes", "octets", "hex", "b64", "dec",
         "str", "date", "day", "time", "words", "pairs", "long", "join", "objects"}

Init == job \in Jobs \cup {"code"} /\ probe = <<>>
Ask == job \in Jobs /\ probe = <<>> /\ probe' \in Arguments(job) /\ UNCHANGED job
Receive ==
  /\ job = "code" /\ MayGrow(probe)
  /\ \E o \in IF probe = <<>> THEN FirstOctets ELSE NextOctets : probe' = Append(probe, o)
  /\ UNCHANGED job
Next == Ask \/ Receive
Spec == Init /\ [][Next]_vars

-----------------------------------------------------------------------------
(* What der.h says of tags and lengths.                                    *)
LongDigits(tag) == Low7(Tail(tag))
LawfulTag(tag) ==
  IF Len(tag) = 1 THEN tag[1] % 32 # 31
  ELSE /\ tag[1] % 32 = 31 /\ tag[Len(tag)] < 128 /\ \A i \in 2 .. Len(tag) - 1 : tag[i] >= 128
       /\ LongDigits(tag)[1] # 0 /\ Value(LongDigits(tag), 128) >= 31
LawfulLen(l) ==
  IF Len(l) = 1 THEN l[1] < 128
  ELSE /\ l[1] = 127 + Len(l) /\ l[2] # 0 /\ (Len(l) = 2 => l[2] >= 128)
       /\ Value(Tail(l), 256) < SizeMax
LenOf(l) == IF Len(l) = 1 THEN l[1] ELSE Value(Tail(l), 256)
(* The code at the beginning of der: how much the tag and the length take. *)
Parts(der) ==
  {p \in (1 .. MinN(3, Len(der))) \X (1 .. 3) :
     /\ p[1] + p[2] <= Len(der) /\ LawfulTag(SubSeq(der, 1, p[1]))
     /\ LawfulLen(SubSeq(der, p[1] + 1, p[1] + p[2]))}
Whole(der) == {p \in Parts(der) : p[1] + p[2] + LenOf(SubSeq(der, p[1] + 1, p[1] + p[2])) <= Len(der)}

(* Where the decoder goes its own way: a long tag whose number is missing  *)
(* or zero gives no tag at all; the sum of lengths overflows.              *)
NoNumber(der) == der[1] % 32 = 31 /\ (Len(der) < 2 \/ der[2] % 128 = 0)
Overflows(der) ==
  \E p \in Parts(der) : p[1] + p[2] + LenOf(SubSeq(der, p[1] + 1, p[1] + p[2])) >= SizeMod
Usual(der) == der # <<>> /\ ~NoNumber(der) /\ ~Overflows(der)
Code(der, n) == SubSeq(der \o Env.beyond, 1, n)
EndsOpen(v) == v = <<>> \/ v[Len(v)] >= 128

(* A code is accepted if and only if it is the one der.h allows, and what  *)
(* was decoded is coded as it was: sizes, numbers, strings of bits with    *)
(* zeros after the last one, strings without zero octets, identifiers that *)
(* have a last octet.                                                      *)
CodesAsSaid(j, args) ==
  /\ j = "code" /\ Usual(args) =>
       LET d == derDec(args, Env)
           p == CHOOSE x \in Whole(args) : TRUE
           tag == SubSeq(args, 1, 1)
           size == derTSIZEDec(args, tag, Env)
           uint == derTUINTDec(args, tag, Env)
           bits == derTBITDec(args, tag, Env)
           str == derTPSTRDec(args, tag, Env)
           oid == derOIDDec(args, Env)
       IN /\ d.n # Bad <=> Whole(args) # {}
          /\ d.n # Bad =>
               /\ d.tag = SubSeq(args, 1, p[1])
               /\ derIsValid(SubSeq(args, 1, d.n), Env) /\ derIsValid2(SubSeq(args, 1, d.n), d.tag, Env)
               /\ derDec4(args, d.tag, d.val, Env).n = d.n /\ derStartsWith(args, d.tag, Env)
               /\ derTIsValid(d.tag) => derEnc(d.tag, d.val) = Code(args, d.n)
          /\ LawfulTag(tag) =>
               /\ size.n # Bad /\ size.len > 0 => derTSIZEEnc(tag, size.val) = Code(args, size.n)
               /\ uint.n # Bad => derTUINTEnc(tag, uint.val) = Code(args, uint.n)
               /\ bits.n # Bad /\ (bits.len = 0 \/ bits.val[Len(bits.val)] % 2 ^ ((8 * Len(bits.val)) - bits.len) = 0) =>
                    derTBITEnc(tag, bits.val, bits.len) = Code(args, bits.n)
               /\ str.n # Bad /\ 0 \notin Range(str.val) => derTPSTREnc(tag, str.val) = Code(args, str.n)
          /\ oid.n # Bad /\ ~EndsOpen(d.val) =>
               /\ derOIDEnc(oid.val) = Code(args, oid.n) /\ derOIDDec2(args, oid.val, Env) = oid.n
               /\ derOIDDec2(args, Append(oid.val, 49), Env) = Bad
  /\ j = "size" =>
       LET c == derTSIZEEnc(args[1], args[2])
       IN derTIsValid(args[1]) => /\ derTSIZEDec2(c, args[1], args[2], Env).n = Len(c)
                              /\ derTSIZEDec(c, <<4>>, Env).n = Bad
  /\ j = "uint" =>
       LET c == derTUINTEnc(args[1], args[2])
       IN derTIsValid(args[1]) =>
            /\ derTUINTDec(c, args[1], Env).val = SubSeq(args[2], 1, NonZeroLen(args[2]))
            /\ derTUINTDec2(c, args[1], NonZeroLen(args[2]), Env).n = Len(c)
  /\ j = "bits" =>
       LET len == IF args[2] = <<>> THEN 0 ELSE (8 * Len(args[2])) - args[3]
           c == derTBITEnc(args[1], args[2], len)
           d == derTBITDec2(c, args[1], len, Env)
       IN derTIsValid(args[1]) =>
            /\ d.n = Len(c) /\ Len(d.val) = Len(args[2])
            /\ \A i \in 1 .. len : Bits(d.val[(i + 7) \div 8], 8) \cap {7 - ((i - 1) % 8)}
                                   = Bits(args[2][(i + 7) \div 8], 8) \cap {7 - ((i - 1) % 8)}
  /\ j = "strings" =>
       LET c == derTPSTREnc(args[1], args[2])
           o == derEnc(args[1], args[2])
       IN derTIsValid(args[1]) =>
            /\ derTOCTDec2(o, args[1], Len(args[2]), Env).val = args[2] /\ derTOCTDec(o, args[1], Env).n = Len(o)
            /\ derTLEnc(args[1], Len(args[2])) \o args[2] = o
            /\ IF Range(args[2]) \subseteq Printable THEN derTPSTRDec(c, args[1], Env).val = args[2] ELSE c = Refused
  /\ j = "oids" =>
       /\ oidIsValid(args[1]) => /\ derOIDDec(derOIDEnc(args[1]), Env).val = args[1]
                             /\ oidFromDER(oidToDER(args[1]), Env) = Len(args[1])
       /\ ~oidIsValid(args[1]) => oidToDER(args[1]) = Refused

(* Tags: those der.h allows and no others are coded, but for long ones     *)
(* whose digits, read the other way around, are less than 31; of four      *)
(* octets they are not decoded.                                            *)
Backwards(tag) == Value(Reverse(LongDigits(tag)), 128)
TagsKnown(j, args) ==
  j = "tags" =>
    /\ derTEnc(args) # Refused =>
         /\ Len(args) > 1 => Backwards(args) >= 31
         /\ Len(args) <= 3 /\ LawfulTag(args) => derTDec(Append(args, 0), Env).tag = args
    /\ LawfulTag(args) /\ (Len(args) > 1 => Backwards(args) >= 31) => derTEnc(args) = args
    /\ derTEnc(args) # Refused => Value(LongDigits(args), 128) >= 31 \/ Len(args) = 1

(* Boxes: what is put between an opening and a closing of a container is   *)
(* in it, whatever grows or shrinks where the lengths are written, and it  *)
(* is read out by going in and out again.                                  *)
Box(tag, x, y, z) ==
  derEnc(tag, derEnc(<<4>>, Filler(x)) \o derEnc(<<48>>, derEnc(<<4>>, Filler(y))) \o derEnc(<<5>>, Filler(z)))
Built(tag, x, y, z) ==
  LET outer == derTSEQEncStart(<<>>, tag)
      b1 == outer.buf \o derEnc(<<4>>, Filler(x))
      inner == derTSEQEncStart(b1, <<48>>)
      b2 == derTSEQEncStop(inner.buf \o derEnc(<<4>>, Filler(y)), inner.anchor)
      b3 == derTSEQEncStop(b2.buf \o derEnc(<<5>>, Filler(z)), outer.anchor)
  IN [b3 EXCEPT !.n = outer.n + Len(derEnc(<<4>>, Filler(x))) + inner.n
                      + Len(derEnc(<<4>>, Filler(y))) + b2.n + Len(derEnc(<<5>>, Filler(z))) + b3.n]
(* Where one is after each part, 0 when some part was not there.           *)
ReadBox(der, tag, x, y, z) ==
  LET outer == derTSEQDecStart(der, 0, tag, Env)
      p1 == outer.n + derTOCTDec2(From(der, outer.n + 1), <<4>>, x, Env).n
      inner == derTSEQDecStart(der, p1, <<48>>, Env)
      p2 == p1 + inner.n + derTOCTDec2(From(der, p1 + inner.n + 1), <<4>>, y, Env).n
      p3 == p2 + derDec3(From(der, p2 + 1), <<5>>, z, Env).n
  IN IF derTSEQDecStop(p2, inner.anchor) = 0 /\ derTSEQDecStop(p3, outer.anchor) = 0 THEN p3 ELSE 0
BoxesKeep(j, args) ==
  j = "boxes" =>
    LET b == Built(args[1], args[2], args[3], args[4])
        der == Box(args[1], args[2], args[3], args[4])
    IN /\ b.buf = der /\ b.n = Len(der)
       /\ ReadBox(der, args[1], args[2], args[3], args[4]) = Len(der)
       /\ derTSEQDecStart(der, 0, <<4>>, Env).n = Bad /\ derTSEQEncStart(<<>>, <<4>>).n = Bad

-----------------------------------------------------------------------------
(* Texts stand for octets, numbers and dates one to one; a check digit     *)
(* shows every change of a digit, and of two neighbours (but 09 and 90 by  *)
(* Luhn).                                                                  *)
Lower(s) == [i \in 1 .. Len(s) |-> IF s[i] \in 65 .. 70 THEN s[i] + 32 ELSE s[i]]
Upper(s) == [i \in 1 .. Len(s) |-> IF s[i] \in 97 .. 102 THEN s[i] - 32 ELSE s[i]]
HexRight(o) ==
  LET h == hexFrom(o)
  IN /\ hexIsValid(h) /\ hexTo(h) = o /\ hexTo(hexLower(h)) = o /\ hexUpper(hexLower(h)) = h
     /\ hexToRev(h) = Reverse(o) /\ hexFromRev(o) = hexFrom(Reverse(o))
     /\ hexEq_safe(o, h) /\ hexEq_fast(o, h) /\ hexEqRev_safe(Reverse(o), h)
     /\ \A i \in 1 .. Len(o) :
          LET x == [o EXCEPT ![i] = 255 - @]
          IN /\ ~hexEq_safe(x, h) /\ ~hexEq_fast(x, h)
             /\ ~hexEqRev_safe(Reverse(x), h) /\ ~hexEqRev_fast(Reverse(x), h)
B64Right(o) ==
  LET b == b64From(o) IN b64IsValid(b) /\ b64To(b) = [count |-> Len(o), buf |-> o]
Changed(d) == {[d EXCEPT ![i] = c] : i \in 1 .. Len(d), c \in 48 .. 57} \ {d}
Swapped(d) ==
  {[d EXCEPT ![i] = d[i + 1], ![i + 1] = d[i]] : i \in 1 .. Len(d) - 1} \ {d}
ByLuhn(d) ==
  {s \in Swapped(d) : \A i \in 1 .. Len(d) - 1 :
     s[i] # d[i] /\ s[i + 1] # d[i + 1] => {d[i], d[i + 1]} # {48, 57}}
DecRight(d) ==
  LET luhn == Append(d, decLuhnCalc(d))
      damm == Append(d, decDammCalc(d))
  IN /\ decIsValid(d) /\ decLuhnVerify(luhn) /\ decDammVerify(damm)
     /\ \A x \in Changed(luhn) \cup ByLuhn(luhn) : ~decLuhnVerify(x)
     /\ \A x \in Changed(damm) \cup Swapped(damm) : ~decDammVerify(x)
     /\ decFromU32(Len(d), decToU32(d)) = d /\ decFromU64(Len(d), decToU64(d)) = d
     /\ decToU32(SubSeq(d, decCLZ(d) + 1, Len(d))) = decToU32(d)
     /\ decToU32(<<57, 57>> \o d) = Value([i \in 1 .. Len(d) + 2 |-> (<<57, 57>> \o d)[i] - 48], 10) % U32
StrRight(s, t) ==
  /\ strRev(s) = Reverse(s) /\ strSet(s, 7) = Fill(Len(s), 7) /\ strLen2(s, 2) = MinN(Len(s), 2)
  /\ strStartsWith(s, t) = IsPrefix(t, s) /\ strEndsWith(s, t) = IsSuffix(t, s)
  /\ strStartsWith(t \o s, t) /\ strEndsWith(s \o t, t)
  /\ strIsNumeric(s) => strIsAlphanumeric(s)
  /\ strIsAlphanumeric(s) => strIsPrintable(s)
DaysIn(y, m) ==
  LET leap == y % 400 = 0 \/ (y % 100 # 0 /\ y % 4 = 0)
  IN <<31, IF leap THEN 29 ELSE 28, 31, 30, 31, 30, 31, 31, 30, 31, 30, 31>>[m]
TextRight(j, args) ==
  /\ j = "octets" => HexRight(args) /\ B64Right(args)
  /\ j = "hex" => (hexIsValid(args) <=>
                     Len(args) % 2 = 0 /\ hexFrom(hexTo(Upper(args))) = Upper(args))
  /\ j = "b64" => (b64IsValid(args) <=> \E o \in {b64To(args).buf} : b64From(o) = args)
  /\ j = "dec" => DecRight(args)
  /\ j = "str" => StrRight(args[1], args[2])
  /\ j = "date" =>
       LET ok == tmDateIsValid(args[1], args[2], args[3])
           d == tmDate2([y |-> args[1], m |-> args[2], d |-> args[3]])
       IN /\ ok <=> /\ args[1] >= 1583 /\ args[2] \in 1 .. 12
                    /\ args[3] \in 1 .. DaysIn(args[1], args[2])
          /\ ok /\ args[1] \in 2000 .. 2099 => tmDateIsValid2(d)
          /\ d # Refused => /\ args[1] \in 2000 .. 2099 /\ (tmDateIsValid2(d) => ok)
  /\ j = "day" =>
       (tmDateIsValid2(<<args[1], args[2]>> \o DigitsIn(args[3], 10, 2) \o DigitsIn(args[4], 10, 2))
        <=> tmDateIsValid(2000 + (10 * args[1]) + args[2], args[3], args[4]))
  /\ j = "time" =>
       LET n == tmTimeRound(args[1], args[2], args[3])
       IN n # TIME_ERR => args[2] + (n * args[3]) <= args[1] /\ args[1] < args[2] + ((n + 1) * args[3])

-----------------------------------------------------------------------------
(* Octets and words: the regular and the fast functions say the same, what *)
(* their names say; and what overlaps comes out right.                     *)
Least(S) == CHOOSE i \in S : \A j \in S : i <= j
Largest(S) == CHOOSE i \in S : \A j \in S : i >= j
WordRight(n, S) ==
  LET lo == IF S = {} THEN n ELSE Least(S)
      hi == IF S = {} THEN n ELSE n - 1 - Largest(S)
      half == n \div 2
  IN /\ Weight(S, n) = Cardinality(S) /\ (Parity(S, n) <=> Cardinality(S) % 2 = 1)
     /\ CTZ_safe(S, n) = lo /\ CTZ_fast(S, n) = lo /\ CLZ_safe(S, n) = hi /\ CLZ_fast(S, n) = hi
     /\ Shuffle(S, n) = {IF i < half THEN 2 * i ELSE 2 * (i - half) + 1 : i \in S}
     /\ Deshuffle(Shuffle(S, n), n) = S /\ Rev(Rev(S, n), n) = S
     /\ Rev2(<<S, {0}>>, n)[2] = {n - 8}
     /\ 0 \in S /\ (n = 16 \/ Cardinality(S) <= 2) => Times(NegInv(S, n), S, n) = 0 .. n - 1
Named(n) ==
  CASE n = 16 -> [w |-> u16Weight({0, 15}), z |-> u16CTZ_fast({9}), i |-> u16NegInv({0, 1}), r |-> u16Rev({0}),
                  l |-> u16CLZ_safe({9})]
    [] n = 32 -> [w |-> u32Weight({0, 15}), z |-> u32CTZ_fast({9}), i |-> u32NegInv({0, 1}), r |-> u32Rev({0}),
                  l |-> u32CLZ_safe({9})]
    [] n = 64 -> [w |-> u64Weight({0, 15}), z |-> u64CTZ_fast({9}), i |-> u64NegInv({0, 1}), r |-> u64Rev({0}),
                  l |-> u64CLZ_safe({9})]
NamedRight(n) ==
  /\ Named(n).w = 2 /\ Named(n).z = 9 /\ Named(n).l = n - 10 /\ Named(n).r = {n - 8}
  /\ Times({0, 1}, Named(n).i, n) = 0 .. n - 1
Order(x, y) ==
  LET d == {i \in 1 .. Len(x) : x[i] # y[i]}
  IN IF d = {} THEN 0 ELSE IF x[Least(d)] < y[Least(d)] THEN -1 ELSE 1
CompareRight(x, y) ==
  LET whole == Len(x) % OPerW = 0
  IN /\ memEq_safe(x, y) = (x = y) /\ memEq_fast(x, y) = (x = y)
     /\ memCmp_safe(x, y) = Order(x, y) /\ memCmp_fast(x, y) = Order(x, y)
     /\ \A c \in {memCmpRev_safe(x, y), memCmpRev_fast(x, y), wordsCmpRev_safe(x, y), wordsCmpRev_fast(x, y)} :
          c = Order(Reverse(x), Reverse(y))
     /\ whole => wordsEq_safe(x, y) = (x = y) /\ wordsEq_fast(x, y) = (x = y)
     /\ \A b \in {memIsZero_safe(x), memIsZero_fast(x), wordsIsZero_safe(x), wordsIsZero_fast(x)} :
          b = (Range(x) \subseteq {0})
     /\ memIsRep_safe(x, 255) = memIsRep_fast(x, 255) /\ memRev(x) = Reverse(x)
     /\ SubSeq(x, memNonZeroSize(x) + 1, Len(x)) = Fill(Len(x) - memNonZeroSize(x), 0)
     /\ memNonZeroSize(x) # 0 => x[memNonZeroSize(x)] # 0
     /\ memNeg(memNeg(x)) = x /\ wordsNeg(x) = memNeg(x)
MovesRight(x, y) ==
  LET n == Len(x)
      M == <<7>> \o x \o y \o <<7>>
      xor == [i \in 1 .. n |-> XorO(x[i], y[i])]
  IN /\ memXor(M, 2, 2, n + 2, n) = <<7>> \o xor \o y \o <<7>>
     /\ wordsXor(M, n + 2, 2, n + 2, n) = <<7>> \o x \o xor \o <<7>>
     /\ memXor2(M, 2, n + 2, n) = wordsXor2(M, 2, n + 2, n) /\ memXor2(M, 2, 2, n) = <<7>> \o Fill(n, 0) \o y \o <<7>>
     /\ memSwap(M, 2, n + 2, n) = <<7>> \o y \o x \o <<7>> /\ wordsSwap(M, 2, n + 2, n) = memSwap(M, 2, n + 2, n)
     /\ \A big \in BOOLEAN, o \in {2, 4, 8} :
          /\ WordsTo(WordsFrom(x, o, big), n, o, big) = x
          /\ WordsFrom(x, o, big) = WordsFrom(x, o, FALSE)
     /\ memIsDisjoint(2, n + 2, n) /\ (n > 0 => ~memIsDisjoint(2, n + 1, n)) /\ memIsSameOrDisjoint(2, 2, n)
Whats == [i \in 1 .. 11 |-> i]
JoinRight(n, m, s1, s2, d) ==
  LET M == memJoin(Whats, d, s1, n, s2, m)
      out == d .. d + n + m - 1
  IN /\ Block(M, d, n + m) = Block(Whats, s1, n) \o Block(Whats, s2, m)
     /\ \A a \in DOMAIN M \ out : M[a] = a
     /\ memIsDisjoint3(d, n + m, s1, n, s2, m) <=>
          /\ out \cap (s1 .. s1 + n - 1) = {} /\ out \cap (s2 .. s2 + m - 1) = {}
          /\ (s1 .. s1 + n - 1) \cap (s2 .. s2 + m - 1) = {}
     /\ memIsDisjoint4(d, n + m, s1, n, s2, m, 20, 3) = memIsDisjoint3(d, n + m, s1, n, s2, m)
(* A copy of an object is an object, its pointers are into itself where    *)
(* those of the object were, pointers out of it stay; appended, an object  *)
(* is reached from the one it was appended to.  What lies apart stays.     *)
CopyRight(M, dest) ==
  LET C == objCopy(M, dest, 0)
      A == objAppend(C, dest, 0, 1)
      end == objEnd(C, dest)
      Same(p) == IF p \in 0 .. 7 THEN p + dest ELSE p
  IN /\ objIsOperable(C, dest) /\ C[dest].keep = M[0].keep
     /\ C[dest].ptr = [i \in 1 .. 3 |-> Same(M[0].ptr[i])]
     /\ dest >= 8 => \A a \in DOMAIN M : C[a] = M[a]
     /\ M[0].o = 1 => /\ objIsOperable(A, dest) /\ A[dest].ptr[1] = end /\ A[end].ptr[3] = end + 3
                      /\ objEnd(A, dest) = end + 8
OctetsRight(j, args) ==
  /\ j = "words" => WordRight(args[1], args[2]) /\ (args[2] = {0} => NamedRight(args[1]))
  /\ j = "pairs" \/ j = "long" => CompareRight(args[1], args[2]) /\ MovesRight(args[1], args[2])
  /\ j = "join" => JoinRight(args[1], args[2], args[3], args[4], args[5])
  /\ j = "objects" => CopyRight(args[1], args[2])

-----------------------------------------------------------------------------
(* Codes, texts and octets: what is written is read back, and only what    *)
(* has the form der.h, hex.h, b64.h, dec.h, str.h and tm.h give is         *)
(* accepted; octets, words and objects are where they were moved to.  All  *)
(* of the above at once.                                                   *)
CodesRead ==
  [][\A args \in {probe'} : args # <<>> =>
       /\ CodesAsSaid(job, args) /\ TagsKnown(job, args) /\ BoxesKeep(job, args)
       /\ TextRight(job, args) /\ OctetsRight(job, args)]_vars
=============================================================================
