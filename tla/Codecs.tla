------------------------------- MODULE Codecs -------------------------------
(***************************************************************************)
(* The coder of src/src/core/der.c and the identifiers of oid.c.  Octets   *)
(* are numbers, a code is a sequence of them, and a tag is the sequence of *)
(* its octets; a character is its code.  A size has SizeOctets octets and  *)
(* a number u32 here is below U32, so that both overflow within reach.     *)
(* env says what is not defined: the octets that lie after the buffer, and *)
(* the value of a variable nobody has written.                             *)
(***************************************************************************)
EXTENDS Integers, SequencesExt

Bad == -1
Refused == <<Bad>>
SizeOctets == 2
SizeMod == 256 ^ SizeOctets
SizeMax == SizeMod - 1
U32 == 2 ^ 16

Value(digits, base) == FoldLeft(LAMBDA v, d : v * base + d, 0, digits)
Count(v, base) == CHOOSE n \in 1 .. 6 : (v < base ^ n) /\ (n = 1 \/ v >= base ^ (n - 1))
DigitsIn(v, base, n) == [i \in 1 .. n |-> (v \div base ^ (n - i)) % base]
Shortest(v, base) == DigitsIn(v, base, Count(v, base))
From(der, i) == SubSeq(der, i, Len(der))
Low7(octets) == [i \in 1 .. Len(octets) |-> octets[i] % 128]

-----------------------------------------------------------------------------
(* The tag.  The digits of a long one are put together the lowest first.   *)
derTIsValid(tag) ==
  LET n == Len(tag)
  IN IF n = 1 THEN tag[1] % 32 # 31
     ELSE /\ tag[n] < 128 /\ \A i \in 2 .. n - 1 : tag[i] >= 128
          /\ Value(Reverse(Low7(Tail(tag))), 128) >= 31
          /\ tag[2] % 128 # 0 /\ tag[1] % 32 = 31
derTIsPrimitive(tag) == (tag[1] \div 32) % 2 = 0
derTIsConstructive(tag) == ~derTIsPrimitive(tag)
derTEnc(tag) == IF derTIsValid(tag) THEN tag ELSE Refused
(* At most four octets are looked at.  A long tag without an octet of the  *)
(* number, or with a zero one, gives 0 and leaves the variable unwritten.  *)
TagLimit == 4
derTDec(der, env) ==
  LET lim == IF Len(der) < TagLimit THEN Len(der) ELSE TagLimit
      last == {i \in 2 .. lim : der[i] < 128 \/ i = lim}
      n == CHOOSE i \in last : \A j \in last : i <= j
  IN IF der = <<>> THEN [n |-> Bad, tag |-> env.junk]
     ELSE IF der[1] % 32 # 31 THEN [n |-> 1, tag |-> SubSeq(der, 1, 1)]
     ELSE IF lim < 2 \/ der[2] % 128 = 0 THEN [n |-> 0, tag |-> env.junk]
     ELSE IF n = lim \/ Value(Low7(SubSeq(der, 2, n)), 256) < 31
     THEN [n |-> Bad, tag |-> env.junk] ELSE [n |-> n, tag |-> SubSeq(der, 1, n)]

(* The length.                                                             *)
derLEnc(len) ==
  IF len < 128 THEN <<len>> ELSE <<128 + Count(len, 256)>> \o Shortest(len, 256)
(* Faulty variant: a long length may stand for a short one.                *)
derLDec_variant(der) ==
  LET r == der[1] - 128
      len == Value(SubSeq(der, 2, r + 1), 256)
  IN IF der = <<>> THEN [n |-> Bad, len |-> 0]
     ELSE IF der[1] < 128 THEN [n |-> 1, len |-> der[1]]
     ELSE IF \/ der[1] \in {128, 255} \/ Len(der) < r + 1 \/ r > SizeOctets
             \/ der[2] = 0 \/ len = SizeMax
          THEN [n |-> Bad, len |-> 0]
     ELSE [n |-> r + 1, len |-> len]
derLDec(der) ==
  LET r == der[1] - 128
      len == Value(SubSeq(der, 2, r + 1), 256)
  IN IF der = <<>> THEN [n |-> Bad, len |-> 0]
     ELSE IF der[1] < 128 THEN [n |-> 1, len |-> der[1]]
     ELSE IF \/ der[1] \in {128, 255} \/ Len(der) < r + 1 \/ r > SizeOctets
             \/ der[2] = 0 \/ (r = 1 /\ der[2] < 128) \/ len = SizeMax
          THEN [n |-> Bad, len |-> 0]
     ELSE [n |-> r + 1, len |-> len]

derTLEnc(tag, len) == IF derTEnc(tag) = Refused THEN Refused ELSE derTEnc(tag) \o derLEnc(len)
derEnc(tag, val) ==
  IF derTEnc(tag) = Refused THEN Refused ELSE derTEnc(tag) \o derLEnc(Len(val)) \o val
derTLDec(der, env) ==
  LET t == derTDec(der, env)
      l == derLDec(From(der, t.n + 1))
  IN IF t.n = Bad \/ l.n = Bad THEN [n |-> Bad, tag |-> t.tag, len |-> 0]
     ELSE [n |-> t.n + l.n, tag |-> t.tag, len |-> l.len]

derIsValid(der, env) ==
  LET tl == derTLDec(der, env) IN tl.n # Bad /\ Len(der) = (tl.n + tl.len) % SizeMod
derIsValid2(der, tag, env) == derIsValid(der, env) /\ derTDec(der, env).tag = tag
derStartsWith(der, tag, env) == derTDec(der, env).n # Bad /\ derTDec(der, env).tag = tag
(* The sum of lengths is one of sizes: it is taken modulo SizeMod.         *)
derDec(der, env) ==
  LET tl == derTLDec(der, env)
      n == (tl.n + tl.len) % SizeMod
  IN IF tl.n = Bad \/ n > Len(der) THEN [n |-> Bad, tag |-> tl.tag, val |-> <<>>, len |-> 0]
     ELSE [n |-> n, tag |-> tl.tag, val |-> SubSeq(der, tl.n + 1, n), len |-> tl.len]
Failed == [n |-> Bad, val |-> <<>>, len |-> 0]
When(cond, d) == IF cond THEN [n |-> d.n, val |-> d.val, len |-> d.len] ELSE Failed
derDec2(der, tag, env) == LET d == derDec(der, env) IN When(d.n # Bad /\ d.tag = tag, d)
derDec3(der, tag, len, env) == LET d == derDec2(der, tag, env) IN When(d.n # Bad /\ d.len = len, d)
derDec4(der, tag, val, env) ==
  LET d == derDec3(der, tag, Len(val), env) IN When(d.n # Bad /\ d.val = val, d)

-----------------------------------------------------------------------------
(* Numbers of the size of a word, and long ones, whose lowest octet is the *)
(* first in memory.  derTSIZEDec does not compare the length with what is  *)
(* left in the buffer: it reads on into env.beyond.                        *)
Signless(octets) == IF octets[1] >= 128 THEN <<0>> \o octets ELSE octets
derTSIZEEnc(tag, val) ==
  IF derTEnc(tag) = Refused THEN Refused ELSE derEnc(tag, Signless(Shortest(val, 256)))
derTSIZEDec(der, tag, env) ==
  LET t == derTDec(der, env)
      l == derLDec(From(der, t.n + 1))
      n == t.n + l.n + l.len
      v == SubSeq(der \o env.beyond, t.n + l.n + 1, n)
      first == (der \o env.beyond)[t.n + l.n + 1]
  IN IF \/ t.n = Bad \/ t.tag # tag \/ l.n = Bad \/ l.len > SizeOctets + 1
        \/ first >= 128 \/ (first = 0 /\ l.len > 1 /\ v[2] < 128)
        \/ (l.len = SizeOctets + 1 /\ first # 0)
     THEN Failed ELSE [n |-> n, val |-> Value(v, 256), len |-> l.len]
derTSIZEDec2(der, tag, val, env) ==
  LET d == derTSIZEDec(der, tag, env) IN When(d.n # Bad /\ d.val = val, d)

NonZeroLen(val) == CHOOSE n \in 1 .. Len(val) :
  ((n = 1) \/ (val[n] # 0)) /\ \A i \in n + 1 .. Len(val) : val[i] = 0
derTUINTEnc(tag, val) ==
  IF derTEnc(tag) = Refused THEN Refused
  ELSE derEnc(tag, Signless(Reverse(SubSeq(val, 1, NonZeroLen(val)))))
derTUINTDec(der, tag, env) ==
  LET d == derDec2(der, tag, env)
      v == d.val
      ex == IF v[1] = 0 /\ Len(v) > 1 THEN 1 ELSE 0
  IN IF d.n = Bad \/ v = <<>> THEN Failed
     ELSE IF v[1] >= 128 \/ (ex = 1 /\ v[2] < 128) THEN Failed
     ELSE [n |-> d.n, val |-> Reverse(From(v, 1 + ex)), len |-> Len(v) - ex]
derTUINTDec2(der, tag, len, env) ==
  LET d == derTUINTDec(der, tag, env) IN When(d.n # Bad /\ d.len = len, d)

(* Strings of len bits, the first one highest: the bits that are left over *)
(* in the last octet are zeros when they are written.                      *)
derTBITEnc(tag, val, len) ==
  LET left == (8 - (len % 8)) % 8
      octets == [i \in 1 .. (len + 7) \div 8 |->
                   IF i = (len + 7) \div 8 THEN val[i] - (val[i] % 2 ^ left) ELSE val[i]]
  IN IF derTEnc(tag) = Refused THEN Refused ELSE derEnc(tag, <<left>> \o octets)
derTBITDec(der, tag, env) ==
  LET d == derDec2(der, tag, env)
      v == d.val
  IN IF d.n = Bad \/ v = <<>> THEN Failed
     ELSE IF v[1] > 7 \/ (v[1] # 0 /\ Len(v) = 1) THEN Failed
     ELSE [n |-> d.n, val |-> Tail(v), len |-> (Len(v) - 1) * 8 - v[1]]
derTBITDec2(der, tag, len, env) ==
  LET d == derTBITDec(der, tag, env) IN When(d.n # Bad /\ d.len = len, d)
derTOCTDec(der, tag, env) == derDec2(der, tag, env)
derTOCTDec2(der, tag, len, env) == derDec3(der, tag, len, env)

(* Printable strings.  A zero octet ends a string in memory, and strchr()  *)
(* finds it in every string.                                               *)
Zero == 48
Dot == 46
Printable ==
  (48 .. 57) \cup (65 .. 90) \cup (97 .. 122)
  \cup {32, 39, 40, 41, 43, 44, 45, 46, 47, 58, 61, 63}
derTPSTREnc(tag, str) == IF Range(str) \subseteq Printable THEN derEnc(tag, str) ELSE Refused
derTPSTRDec(der, tag, env) ==
  LET d == derDec2(der, tag, env) IN When(d.n # Bad /\ Range(d.val) \subseteq Printable \cup {0}, d)

-----------------------------------------------------------------------------
(* Identifiers: numbers with dots in between.                              *)
Components(oid) ==
  FoldLeft(LAMBDA p, ch : IF ch = Dot THEN Append(p, <<>>)
                          ELSE [p EXCEPT ![Len(p)] = Append(@, ch)], <<<<>>>>, oid)
NumberOf(c) == Value([i \in 1 .. Len(c) |-> c[i] - Zero], 10)
IsNumber(c) ==
  /\ c # <<>> /\ Range(c) \subseteq Zero .. Zero + 9 /\ (c[1] = Zero => Len(c) = 1)
  /\ NumberOf(c) < U32
oidIsValid(oid) ==
  LET p == Components(oid)
  IN /\ \A i \in 1 .. Len(p) : IsNumber(p[i])
     /\ Len(p) >= 2 /\ NumberOf(p[1]) <= 2 /\ (NumberOf(p[1]) < 2 => NumberOf(p[2]) < 40)
     /\ NumberOf(p[2]) + 40 * NumberOf(p[1]) < U32
derSIDEnc(val) ==
  LET d == Shortest(val, 128) IN [i \in 1 .. Len(d) |-> IF i < Len(d) THEN d[i] + 128 ELSE d[i]]
derSIDDec(val) == LET d == Shortest(val, 10) IN [i \in 1 .. Len(d) |-> d[i] + Zero]
(* The length of the number at the beginning of oid, when it is val; what  *)
(* is read behind the end of oid changes nothing, for the end has no digit.*)
derSIDDec2(val, oid) == IF IsPrefix(derSIDDec(val), oid) THEN Len(derSIDDec(val)) ELSE Bad
derOIDEnc(oid) ==
  LET p == Components(oid)
      sid == <<40 * NumberOf(p[1]) + NumberOf(p[2])>>
             \o [i \in 1 .. Len(p) - 2 |-> NumberOf(p[i + 2])]
  IN IF ~oidIsValid(oid) THEN Refused
     ELSE derEnc(<<6>>, FoldLeft(LAMBDA s, v : s \o derSIDEnc(v), <<>>, sid))
(* Numbers come out of the octets one by one, the first one as two; a      *)
(* number without its last octet is dropped.  Out(s, dot, val) takes them. *)
Numbers(octets, Out(_, _, _), s0) ==
  LET NextOctet(s, o) ==
        LET val == s.val * 128 + (o % 128)
            d1 == IF val < 40 THEN 0 ELSE IF val < 80 THEN 1 ELSE 2
            next == IF s.first THEN Out(Out(s, <<>>, d1), <<Dot>>, val - 40 * d1)
                    ELSE Out(s, <<Dot>>, val)
        IN IF ~s.ok \/ (s.val >= U32 \div 128) \/ (s.val = 0 /\ o = 128) THEN [s EXCEPT !.ok = FALSE]
           ELSE IF o >= 128 THEN [s EXCEPT !.val = val]
           ELSE [next EXCEPT !.val = 0, !.first = FALSE]
  IN FoldLeft(NextOctet, s0, octets)
derOIDDec(der, env) ==
  LET d == derDec2(der, <<6>>, env)
      Out(s, dot, val) == [s EXCEPT !.oid = @ \o dot \o derSIDDec(val)]
      s == Numbers(d.val, Out, [ok |-> TRUE, val |-> 0, first |-> TRUE, oid |-> <<>>])
  IN IF d.n = Bad \/ ~s.ok THEN Failed ELSE [n |-> d.n, val |-> s.oid, len |-> Len(s.oid)]
derOIDDec2(der, oid, env) ==
  LET d == derDec2(der, <<6>>, env)
      Out(s, dot, val) ==
        LET r == From(s.oid, Len(dot) + 1)
        IN IF IsPrefix(dot, s.oid) /\ derSIDDec2(val, r) # Bad
           THEN [s EXCEPT !.oid = From(r, derSIDDec2(val, r) + 1)] ELSE [s EXCEPT !.ok = FALSE]
      s == Numbers(d.val, Out, [ok |-> TRUE, val |-> 0, first |-> TRUE, oid |-> oid])
  IN IF d.n = Bad \/ ~s.ok \/ s.oid # <<>> THEN Bad ELSE d.n
oidToDER(oid) == derOIDEnc(oid)
oidFromDER(der, env) ==
  LET d == derOIDDec(der, env) IN IF d.n = Len(der) THEN d.len ELSE Bad

-----------------------------------------------------------------------------
(* Containers.  An anchor remembers where one begins; when it is closed    *)
(* its length is known, and what is in it moves to make room for that.     *)
derTSEQEncStart(buf, tag) ==
  IF ~derTIsValid(tag) \/ ~derTIsConstructive(tag) THEN [n |-> Bad, buf |-> buf, anchor |-> <<>>]
  ELSE [n |-> Len(derEnc(tag, <<>>)), buf |-> buf \o derEnc(tag, <<>>),
        anchor |-> [pos |-> Len(buf), tag |-> tag, len |-> 0]]
derTSEQEncStop(buf, anchor) ==
  LET l0 == anchor.pos + Len(derTEnc(anchor.tag))
      v0 == l0 + Len(derLEnc(anchor.len))
      len == Len(buf) - v0
  IN IF v0 > Len(buf) THEN [n |-> Bad, buf |-> buf]
     ELSE [n |-> Len(derLEnc(len)) - (v0 - l0),
           buf |-> SubSeq(buf, 1, l0) \o derLEnc(len) \o From(buf, v0 + 1)]
(* at counts the octets before the place one reads from.                   *)
derTSEQDecStart(der, at, tag, env) ==
  LET tl == derTLDec(From(der, at + 1), env)
  IN IF ~derTIsConstructive(tag) \/ tl.n = Bad \/ tl.tag # tag
     THEN [n |-> Bad, anchor |-> <<>>]
     ELSE [n |-> tl.n, anchor |-> [pos |-> at, tag |-> tag, len |-> tl.len]]
derTSEQDecStop(at, anchor) ==
  LET v0 == anchor.pos + Len(derTEnc(anchor.tag)) + Len(derLEnc(anchor.len))
  IN IF at = v0 + anchor.len THEN 0 ELSE Bad

-----------------------------------------------------------------------------
(***************************************************************************)
(* Octets, numbers and dates as text: hex.c, b64.c, dec.c, str.c and the   *)
(* dates of tm.c.  A string is the sequence of the codes of its characters *)
(* without the zero that ends it.                                          *)
(***************************************************************************)
(* hex: two characters for an octet, capital ones when they are written.   *)
HexVal(ch) ==
  IF ch \in 48 .. 57 THEN ch - 48 ELSE IF ch \in 65 .. 70 THEN ch - 55
  ELSE IF ch \in 97 .. 102 THEN ch - 87 ELSE 255
HexUpper(v) == IF v < 10 THEN 48 + v ELSE 55 + v
HexLower(v) == IF v < 10 THEN 48 + v ELSE 87 + v
hexToO(hex, i) == 16 * HexVal(hex[i]) + HexVal(hex[i + 1])
hexFromOUpper(o) == <<HexUpper(o \div 16), HexUpper(o % 16)>>
hexFromOLower(o) == <<HexLower(o \div 16), HexLower(o % 16)>>
hexIsValid(hex) == Len(hex) % 2 = 0 /\ \A i \in 1 .. Len(hex) : HexVal(hex[i]) # 255
hexTo(hex) == [i \in 1 .. Len(hex) \div 2 |-> hexToO(hex, 2 * i - 1)]
hexToRev(hex) == [i \in 1 .. Len(hex) \div 2 |-> hexToO(hex, Len(hex) - 2 * i + 1)]
hexFrom(buf) == FoldLeft(LAMBDA s, o : s \o hexFromOUpper(o), <<>>, buf)
hexFromRev(buf) == FoldLeft(LAMBDA s, o : hexFromOUpper(o) \o s, <<>>, buf)
hexUpper(hex) == FoldLeft(LAMBDA s, o : s \o hexFromOUpper(o), <<>>, hexTo(hex))
hexLower(hex) == FoldLeft(LAMBDA s, o : s \o hexFromOLower(o), <<>>, hexTo(hex))
(* SAFE() goes through all octets, FAST() stops at the first difference.   *)
hexEq_safe(buf, hex) ==
  Cardinality({i \in 1 .. Len(hex) \div 2 : buf[i] # hexToO(hex, 2 * i - 1)}) = 0
hexEq_fast(buf, hex) == \A i \in 1 .. Len(hex) \div 2 : buf[i] = hexToO(hex, 2 * i - 1)
hexEqRev_safe(buf, hex) ==
  Cardinality({i \in 1 .. Len(hex) \div 2 : buf[i] # hexToO(hex, Len(hex) - 2 * i + 1)}) = 0
hexEqRev_fast(buf, hex) ==
  \A i \in 1 .. Len(hex) \div 2 : buf[i] = hexToO(hex, Len(hex) - 2 * i + 1)

-----------------------------------------------------------------------------
(* base64: four characters for three octets, with signs of equality for    *)
(* those that are missing in the end.                                      *)
Equals == 61
B64Val(ch) ==
  IF ch \in 65 .. 90 THEN ch - 65 ELSE IF ch \in 97 .. 122 THEN ch - 71
  ELSE IF ch \in 48 .. 57 THEN ch + 4 ELSE IF ch = 43 THEN 62 ELSE IF ch = 47 THEN 63 ELSE 255
b64_alphabet(v) == CHOOSE ch \in 0 .. 127 : B64Val(ch) = v
(* The length without the signs: they are looked for where the string ends.*)
Unpadded(b64) ==
  LET n == Len(b64)
  IN IF n = 0 \/ b64[n] # Equals THEN n ELSE IF b64[n - 1] # Equals THEN n - 1 ELSE n - 2
(* The last character before the signs has bits that are not used.         *)
b64IsValid(b64) ==
  LET n == Unpadded(b64)
  IN /\ Len(b64) % 4 = 0
     /\ n % 4 = 3 => B64Val(b64[n]) % 4 = 0
     /\ n % 4 = 2 => B64Val(b64[n]) % 16 = 0
     /\ \A i \in 1 .. (IF n % 4 \in {2, 3} THEN n - 1 ELSE n) : B64Val(b64[i]) # 255
Chars(v, n) == [i \in 1 .. n |-> b64_alphabet(DigitsIn(v, 64, n)[i])]
B64Block(octets) ==
  CASE Len(octets) = 3 -> Chars(Value(octets, 256), 4)
    [] Len(octets) = 2 -> Chars(Value(octets, 256) * 4, 3) \o <<Equals>>
    [] Len(octets) = 1 -> Chars(octets[1] * 16, 2) \o <<Equals, Equals>>
    [] Len(octets) = 0 -> <<>>
b64From(buf) ==
  LET blocks == [i \in 1 .. (Len(buf) + 2) \div 3 |->
                   SubSeq(buf, 3 * i - 2, IF 3 * i < Len(buf) THEN 3 * i ELSE Len(buf))]
  IN FoldLeft(LAMBDA s, b : s \o B64Block(b), <<>>, blocks)
B64Octets(chars) ==
  LET v == Value([i \in 1 .. Len(chars) |-> B64Val(chars[i])], 64)
  IN CASE Len(chars) = 4 -> DigitsIn(v, 256, 3)
       [] Len(chars) = 3 -> DigitsIn(v \div 4, 256, 2)
       [] Len(chars) = 2 -> <<v \div 16>>
b64To(b64) ==
  LET n == Unpadded(b64)
      count == 3 * (n \div 4) + (n % 2) + ((n \div 2) % 2)
      blocks == [i \in 1 .. (n + 3) \div 4 |-> SubSeq(b64, 4 * i - 3, IF 4 * i < n THEN 4 * i ELSE n)]
  IN [count |-> count, buf |-> FoldLeft(LAMBDA s, b : s \o B64Octets(b), <<>>, blocks)]

-----------------------------------------------------------------------------
(* Decimal numbers, here below U32 and U64, and their check digits.        *)
U64 == 2 ^ 20
Digit(ch) == ch - Zero
decIsValid(dec) == Range(dec) \subseteq Zero .. Zero + 9
decCLZ(dec) ==
  CHOOSE n \in 0 .. Len(dec) : /\ \A i \in 1 .. n : dec[i] = Zero
                               /\ n < Len(dec) => dec[n + 1] # Zero
DecFrom(count, num) == [i \in 1 .. count |-> Zero + DigitsIn(num, 10, count)[i]]
DecTo(dec, M) == FoldLeft(LAMBDA v, ch : (v * 10 + Digit(ch)) % M, 0, dec)
decFromU32(count, num) == DecFrom(count, num)
decToU32(dec) == DecTo(dec, U32)
decFromU64(count, num) == DecFrom(count, num)
decToU64(dec) == DecTo(dec, U64)
luhn_table == <<0, 2, 4, 6, 8, 1, 3, 5, 7, 9>>
(* Every second digit is doubled, from the end: the last one when a check  *)
(* digit is to come, the one before it when it is there.                   *)
LuhnSum(dec, odd) ==
  FoldLeft(LAMBDA s, i : s + (IF (Len(dec) - i) % 2 = odd THEN luhn_table[Digit(dec[i]) + 1]
                              ELSE Digit(dec[i])),
           0, [i \in 1 .. Len(dec) |-> i])
decLuhnCalc(dec) == LET cd == LuhnSum(dec, 0) % 10 IN Zero + ((9 * cd) % 10)
decLuhnVerify(dec) == LuhnSum(dec, 1) % 10 = 0
damm_table ==
  <<<<0, 3, 1, 7, 5, 9, 8, 6, 4, 2>>, <<7, 0, 9, 2, 1, 5, 4, 8, 6, 3>>,
    <<4, 2, 0, 6, 8, 7, 1, 3, 5, 9>>, <<1, 7, 5, 0, 9, 8, 3, 4, 2, 6>>,
    <<6, 1, 2, 3, 0, 4, 5, 9, 7, 8>>, <<3, 6, 7, 4, 2, 0, 9, 5, 8, 1>>,
    <<5, 8, 6, 9, 7, 2, 0, 1, 3, 4>>, <<8, 9, 4, 5, 3, 6, 2, 0, 1, 7>>,
    <<9, 4, 3, 8, 6, 1, 7, 2, 0, 5>>, <<2, 5, 8, 1, 4, 3, 6, 7, 9, 0>>>>
decDammCalc(dec) == Zero + FoldLeft(LAMBDA cd, ch : damm_table[cd + 1][Digit(ch) + 1], 0, dec)
decDammVerify(dec) == decDammCalc(dec) = Zero

-----------------------------------------------------------------------------
(* Strings.                                                                *)
Letters == (65 .. 90) \cup (97 .. 122)
strLen2(str, count) == IF Len(str) < count THEN Len(str) ELSE count
strIsNumeric(str) == Range(str) \subseteq 48 .. 57
strIsAlphanumeric(str) == Range(str) \subseteq (48 .. 57) \cup Letters
strIsPrintable(str) == Range(str) \subseteq Printable
strSet(str, ch) == [i \in 1 .. Len(str) |-> ch]
strStartsWith(str, prefix) == \A i \in 1 .. Len(prefix) : i <= Len(str) /\ str[i] = prefix[i]
strEndsWith(str, suffix) ==
  LET off == Len(str) - Len(suffix)
  IN off >= 0 /\ \A i \in 1 .. Len(suffix) : str[off + i] = suffix[i]
(* Characters are swapped from both ends towards the middle.               *)
strRev(str) ==
  FoldLeft(LAMBDA s, i : [s EXCEPT ![i] = s[Len(s) + 1 - i], ![Len(s) + 1 - i] = s[i]],
           str, [i \in 1 .. Len(str) \div 2 |-> i])

-----------------------------------------------------------------------------
(* Time and dates.                                                         *)
TIME_ERR == -1
tmTimeRound(t, t0, ts) == IF ts = 0 \/ t < t0 THEN TIME_ERR ELSE (t - t0) \div ts
yearIsSlope(y) == y % 400 = 0 \/ (y % 4 = 0 /\ y % 100 # 0)
tmDateIsValid(y, m, d) ==
  /\ 1583 <= y /\ m \in 1 .. 12 /\ d \in 1 .. 31
  /\ ~(d = 31 /\ m \in {4, 6, 9, 11})
  /\ ~(m = 2 /\ (d > 29 \/ (d = 29 /\ ~yearIsSlope(y))))
(* Six octets YYMMDD; they are not asked to be digits.                     *)
Two(date, i) == 10 * date[i] + date[i + 1]
tmDateIsValid2(date) == tmDateIsValid(2000 + Two(date, 1), Two(date, 3), Two(date, 5))
tmDate2(now) ==
  IF now.y \in 2000 .. 2099
  THEN DigitsIn(now.y - 2000, 10, 2) \o DigitsIn(now.m, 10, 2) \o DigitsIn(now.d, 10, 2)
  ELSE Refused
=============================================================================
