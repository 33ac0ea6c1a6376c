-------------------------- MODULE FileFormatProofs --------------------------
(***************************************************************************)
(* parse inverts serialize and serialize inverts parse, for files of any   *)
(* content and any length the model can tell apart, however often damaged. *)
(*                                                                         *)
(* A file is a row of thirteen fields.  FieldsOf reads them off a file     *)
(* that serialize made, one concatenation after the other; JoinFields puts *)
(* a file together again from its slices.  DataInv says which bytes of a   *)
(* damaged file are still those that were written.                         *)
(***************************************************************************)
EXTENDS FileFormat, SequenceTheorems, TLAPS

-----------------------------------------------------------------------------
\* Slices

\* The slice d[from:to] of a sequence.
LEMMA SliceProperties ==
  ASSUME NEW S, NEW d \in Seq(S), NEW from \in Nat, NEW to \in Nat, from <= to, to <= Len(d)
  PROVE  /\ Slice(d, from, to) \in Seq(S)
         /\ Len(Slice(d, from, to)) = to - from
         /\ \A i \in 1 .. to - from : Slice(d, from, to)[i] = d[from + i]
  BY DEF Slice

\* The same for all slices of a file at once.
LEMMA ByteSlices ==
  ASSUME NEW d \in Seq(Byte)
  PROVE  \A a, b \in Nat : a <= b /\ b <= Len(d) =>
           /\ Slice(d, a, b) \in Seq(Byte) /\ Len(Slice(d, a, b)) = b - a
           /\ \A i \in 1 .. b - a : Slice(d, a, b)[i] = d[a + i]
<1> TAKE a, b \in Nat
<1> HAVE a <= b /\ b <= Len(d)
<1> QED
  BY SliceProperties, ZenonT(60)

\* The whole of a sequence as a slice.
LEMMA SliceFull ==
  ASSUME NEW S, NEW d \in Seq(S)
  PROVE  Slice(d, 0, Len(d)) = d
  BY DEF Slice

\* Two slices side by side are one.
LEMMA SliceJoin ==
  ASSUME NEW S, NEW d \in Seq(S), NEW a \in Nat, NEW b \in Nat, NEW c \in Nat,
         a <= b, b <= c, c <= Len(d)
  PROVE  Slice(d, a, b) \o Slice(d, b, c) = Slice(d, a, c)
  BY DEF Slice

\* The fields of a file are read off it from the last to the first: when p and
\* x precede a rest r, then x is a slice of the whole, and the whole is p and a
\* longer rest.
LEMMA Peel ==
  ASSUME NEW S, NEW p \in Seq(S), NEW x \in Seq(S), NEW r \in Seq(S)
  PROVE  /\ x \o r \in Seq(S)
         /\ (p \o x) \o r = p \o (x \o r)
         /\ Slice((p \o x) \o r, Len(p), Len(p) + Len(x)) = x
  BY DEF Slice

-----------------------------------------------------------------------------
\* Numbers

\* A number below 2^16 in two bytes, and back.
LEMMA Pack16 ==
  ASSUME NEW n \in Nat, n < 65536
  PROVE  /\ pack16(n) \in Seq(Byte) /\ Len(pack16(n)) = 2
         /\ unpack16(pack16(n)) = n
         /\ pack16(n)[2] = n \div 256
<1>1. n % 256 \in Byte /\ n \div 256 \in Byte /\ (n % 256) + 256 * (n \div 256) = n
  BY DEF Byte
<1> QED
  BY <1>1 DEF pack16, unpack16

\* Two bytes are what their number is packed to.
LEMMA Unpack16 ==
  ASSUME NEW b \in Seq(Byte), Len(b) = 2
  PROVE  unpack16(b) \in Nat /\ unpack16(b) < 65536 /\ pack16(unpack16(b)) = b
<1>1. b[1] \in Byte /\ b[2] \in Byte
  BY ElementOfSeq
<1>2. ASSUME NEW x \in Byte, NEW y \in Byte
      PROVE  /\ x + 256 * y \in Nat /\ x + 256 * y < 65536
             /\ (x + 256 * y) % 256 = x /\ (x + 256 * y) \div 256 = y
  <2>1. x + 256 * y \in Nat /\ x + 256 * y < 65536
    BY DEF Byte
  <2>2. (x + 256 * y) % 256 = x
    BY DEF Byte
  <2>3. (x + 256 * y) \div 256 = y
    BY DEF Byte
  <2> QED
    BY <2>1, <2>2, <2>3
<1>3. <<b[1], b[2]>> = b
  <2> DEFINE c == <<b[1], b[2]>>
  <2>1. c \in Seq(Byte) /\ Len(c) = 2 /\ c[1] = b[1] /\ c[2] = b[2]
    BY <1>1 DEF Byte
  <2> HIDE DEF c
  <2>2. \A i \in 1 .. Len(c) : c[i] = b[i]
    BY <2>1
  <2>3. c = b
    BY <2>1, <2>2, SeqEqual
  <2> QED
    BY <2>3 DEF c
<1> QED
  BY <1>1, <1>2, <1>3 DEF pack16, unpack16

\* A number below 2^31 in four bytes, and back.
LEMMA Pack32 ==
  ASSUME NEW n \in Nat, n <= Huge
  PROVE  pack32(n) \in Seq(Byte) /\ Len(pack32(n)) = 4 /\ unpack32(pack32(n)) = n
<1> DEFINE lo == n % 65536
           hi == n \div 65536
<1>1. lo \in Nat /\ lo < 65536
  OBVIOUS
<1>2. hi \in Nat /\ hi < 32768
  BY SMT DEF Huge
<1>3. n = lo + 65536 * hi
  OBVIOUS
<1> HIDE DEF lo, hi
<1>4. pack16(lo) \in Seq(Byte) /\ Len(pack16(lo)) = 2 /\ unpack16(pack16(lo)) = lo
  BY <1>1, Pack16
<1>5. /\ pack16(hi) \in Seq(Byte) /\ Len(pack16(hi)) = 2 /\ unpack16(pack16(hi)) = hi
      /\ pack16(hi)[2] = hi \div 256
  BY <1>2, Pack16
<1>6. hi \div 256 <= 127
  BY <1>2
<1> DEFINE b == pack16(lo) \o pack16(hi)
<1>7. b \in Seq(Byte) /\ Len(b) = 4 /\ Slice(b, 0, 2) = pack16(lo) /\ Slice(b, 2, 4) = pack16(hi)
  <2> DEFINE x == pack16(lo)
             y == pack16(hi)
  <2>1. x \in Seq(Byte) /\ y \in Seq(Byte)
    BY <1>4, <1>5
  <2>2. Len(x) = 2 /\ Len(y) = 2
    BY <1>4, <1>5
  <2> HIDE DEF x, y
  <2>3. /\ x \o y \in Seq(Byte) /\ Len(x \o y) = Len(x) + Len(y)
        /\ Slice(x \o y, 0, Len(x)) = x
        /\ Slice(x \o y, Len(x), Len(x) + Len(y)) = y
    BY <2>1 DEF Slice
  <2>4. Len(x) + Len(y) = 4
    BY <2>2
  <2> QED
    BY <2>2, <2>3, <2>4 DEF x, y
<1>8. b[4] = pack16(hi)[2]
  <2>1. 2 \in Nat /\ 4 \in Nat /\ 2 <= 4 /\ 4 <= Len(b)
    BY <1>7
  <2>2. \A i \in 1 .. 4 - 2 : Slice(b, 2, 4)[i] = b[2 + i]
    BY <1>7, <2>1, SliceProperties, ZenonT(60)
  <2> QED
    BY <1>7, <2>2
<1>9. pack32(n) = b
  BY DEF pack32, lo, hi
<1> HIDE DEF b
<1>10. SubSeq(b, 1, 2) = pack16(lo) /\ SubSeq(b, 3, 4) = pack16(hi)
  BY <1>7, <1>8 DEF Slice
<1>11. unpack32(b) = lo + 65536 * hi
  <2>1. ~(b[4] > 127)
    BY <1>2, <1>5, <1>6, <1>8
  <2>2. unpack16(SubSeq(b, 1, 2)) = lo /\ unpack16(SubSeq(b, 3, 4)) = hi
    BY <1>4, <1>5, <1>10
  <2> QED
    BY <2>1, <2>2 DEF unpack32
<1> QED
  BY <1>3, <1>7, <1>9, <1>11

\* Four bytes are what their number is packed to, if it is not too large to be
\* told from others.
LEMMA Unpack32 ==
  ASSUME NEW b \in Seq(Byte), Len(b) = 4
  PROVE  unpack32(b) \in Nat /\ (unpack32(b) < Huge => pack32(unpack32(b)) = b)
<1>1. b[4] \in Byte
  BY ElementOfSeq
<1> DEFINE x == Slice(b, 0, 2)
           y == Slice(b, 2, 4)
<1>2. x \in Seq(Byte) /\ Len(x) = 2
  <2>1. 0 \in Nat /\ 2 \in Nat /\ 0 <= 2 /\ 2 <= Len(b)
    OBVIOUS
  <2>2. x \in Seq(Byte) /\ Len(x) = 2 - 0
    BY <2>1, SliceProperties
  <2> QED
    BY <2>2
<1>3. y \in Seq(Byte) /\ Len(y) = 2
  <2>1. 2 \in Nat /\ 4 \in Nat /\ 2 <= 4 /\ 4 <= Len(b)
    OBVIOUS
  <2>2. y \in Seq(Byte) /\ Len(y) = 4 - 2
    BY <2>1, SliceProperties
  <2> QED
    BY <2>2
<1>4. x = SubSeq(b, 1, 2) /\ y = SubSeq(b, 3, 4)
  BY DEF Slice
<1>5. x \o y = b
  <2>1. 0 \in Nat /\ 2 \in Nat /\ 4 \in Nat /\ 0 <= 2 /\ 2 <= 4 /\ 4 <= Len(b)
    OBVIOUS
  <2>2. x \o y = Slice(b, 0, 4)
    BY <2>1, SliceJoin
  <2> QED
    BY <2>2, SliceFull
<1> HIDE DEF x, y
<1>6. unpack16(x) \in Nat /\ unpack16(x) < 65536 /\ pack16(unpack16(x)) = x
  BY <1>2, Unpack16
<1>7. unpack16(y) \in Nat /\ unpack16(y) < 65536 /\ pack16(unpack16(y)) = y
  BY <1>3, Unpack16
<1>8. ASSUME NEW lo \in Nat, NEW hi \in Nat, lo < 65536
      PROVE  (lo + 65536 * hi) % 65536 = lo /\ (lo + 65536 * hi) \div 65536 = hi
  <2>1. (lo + 65536 * hi) % 65536 = lo
    BY <1>8
  <2>2. (lo + 65536 * hi) \div 65536 = hi
    BY <1>8
  <2> QED
    BY <2>1, <2>2
<1>9. CASE b[4] > 127
  <2>1. unpack32(b) = Huge
    BY <1>9 DEF unpack32
  <2> QED
    BY <2>1, SMT DEF Huge
<1>10. CASE ~(b[4] > 127)
  <2>1. unpack32(b) = unpack16(x) + 65536 * unpack16(y)
    BY <1>4, <1>10 DEF unpack32
  <2> DEFINE lo == unpack16(x)
             hi == unpack16(y)
             n == lo + 65536 * hi
  <2>2. lo \in Nat /\ hi \in Nat /\ lo < 65536
    BY <1>6, <1>7
  <2> HIDE DEF lo, hi
  <2>3. n % 65536 = lo /\ n \div 65536 = hi /\ n \in Nat
    BY <1>8, <2>2
  <2>4. unpack32(b) = n
    BY <2>1 DEF lo, hi
  <2> HIDE DEF n
  <2>5. pack32(n) = pack16(lo) \o pack16(hi)
    BY <2>3 DEF pack32
  <2>6. pack16(lo) = x /\ pack16(hi) = y
    BY <1>6, <1>7 DEF lo, hi
  <2> QED
    BY <1>5, <2>3, <2>4, <2>5, <2>6
<1> QED
  BY <1>9, <1>10

\* A limb is a number below 2^16.
LEMMA LimbBound ==
  /\ \A n \in Limb : n \in Nat /\ n < 65536
  /\ \A n \in Nat : n < 65536 => n \in Limb
<1> DEFINE M == 65535
<1>1. M \in Nat /\ \A n \in Nat : n < 65536 <=> n <= M
  OBVIOUS
<1>2. Limb = 0 .. M
  BY DEF Limb
<1> HIDE DEF M
<1>3. (\A n \in 0 .. M : n \in Nat /\ n <= M) /\ \A n \in Nat : n <= M => n \in 0 .. M
  BY <1>1
<1> QED
  BY <1>1, <1>2, <1>3

\* Four numbers below 2^16 in eight bytes, and back.
LEMMA Pack64 ==
  ASSUME NEW limbs \in [1 .. 4 -> Limb]
  PROVE  pack64(limbs) \in Seq(Byte) /\ Len(pack64(limbs)) = 8 /\ unpack64(pack64(limbs)) = limbs
<1> DEFINE a == pack16(limbs[1])
           b == pack16(limbs[2])
           c == pack16(limbs[3])
           d == pack16(limbs[4])
           e == <<>>
           ab == a \o b
           abc == ab \o c
           s == abc \o d
<1>0. \A p, x, r \in Seq(Byte) : (p \o x) \o r = p \o (x \o r)
  BY ConcatAssociative
<1>1. \A i \in 1 .. 4 : /\ pack16(limbs[i]) \in Seq(Byte) /\ Len(pack16(limbs[i])) = 2
                        /\ unpack16(pack16(limbs[i])) = limbs[i]
  <2>1. \A i \in 1 .. 4 : limbs[i] \in Nat /\ limbs[i] < 65536
    BY LimbBound
  <2> QED
    BY <2>1, Pack16, SMTT(60)
<1>2. a \in Seq(Byte) /\ b \in Seq(Byte) /\ c \in Seq(Byte) /\ d \in Seq(Byte) /\ e \in Seq(Byte)
  BY <1>1
<1>3. Len(a) = 2 /\ Len(b) = 2 /\ Len(c) = 2 /\ Len(d) = 2 /\ Len(e) = 0
  BY <1>1
<1>4. unpack16(a) = limbs[1] /\ unpack16(b) = limbs[2] /\ unpack16(c) = limbs[3] /\ unpack16(d) = limbs[4]
  BY <1>1
<1>5. pack64(limbs) = s
  BY DEF pack64
<1> HIDE DEF a, b, c, d, e
<1>6. ab \in Seq(Byte) /\ Len(ab) = Len(a) + Len(b)
  BY <1>2
<1>7. abc \in Seq(Byte) /\ Len(abc) = Len(ab) + Len(c)
  <2> HIDE DEF ab
  <2> QED
    BY <1>2, <1>6
<1>8. /\ s \in Seq(Byte) /\ Len(s) = Len(abc) + Len(d)
      /\ Slice(s, Len(abc), Len(abc) + Len(d)) = d
  <2>1. abc \in Seq(Byte)
    BY <1>7
  <2> HIDE DEF abc
  <2>2. d \in Seq(Byte)
    BY <1>2
  <2>3. s \in Seq(Byte) /\ Len(s) = Len(abc) + Len(d)
    BY <2>1, <2>2, ConcatProperties
  <2>4. Slice(s, Len(abc), Len(abc) + Len(d)) = d
    BY <2>1, <2>2, SMTT(60) DEF Slice
  <2> QED
    BY <2>3, <2>4
<1>9. Slice(s, Len(ab), Len(ab) + Len(c)) = c /\ s = ab \o (c \o d) /\ c \o d \in Seq(Byte)
  <2> HIDE DEF ab
  <2>1. ab \in Seq(Byte)
    BY <1>6
  <2>2. Slice((ab \o c) \o d, Len(ab), Len(ab) + Len(c)) = c
    BY <1>2, <2>1, Peel
  <2>3. (ab \o c) \o d = ab \o (c \o d)
    <3>1. c \in Seq(Byte) /\ d \in Seq(Byte)
      BY <1>2
    <3> HIDE DEF abc, s
    <3> QED
      BY <1>0, <2>1, <3>1, ZenonT(60)
  <2>4. c \o d \in Seq(Byte)
    BY <1>2, ConcatProperties
  <2> QED
    BY <2>2, <2>3, <2>4
<1>10. /\ Slice(ab \o (c \o d), Len(a), Len(a) + Len(b)) = b
       /\ ab \o (c \o d) = a \o (b \o (c \o d)) /\ b \o (c \o d) \in Seq(Byte)
  <2> DEFINE cd == c \o d
  <2>1. cd \in Seq(Byte)
    BY <1>9
  <2> HIDE DEF cd
  <2>2. Slice((a \o b) \o cd, Len(a), Len(a) + Len(b)) = b
    BY <1>2, <2>1, Peel
  <2>3. (a \o b) \o cd = a \o (b \o cd)
    <3>1. a \in Seq(Byte) /\ b \in Seq(Byte)
      BY <1>2
    <3> HIDE DEF ab, abc, s
    <3> QED
      BY <1>0, <2>1, <3>1, ZenonT(60)
  <2>4. b \o cd \in Seq(Byte)
    BY <1>2, <2>1, ConcatProperties
  <2> QED
    BY <2>2, <2>3, <2>4 DEF cd
<1>11. Slice(s, 0, Len(a)) = a
  <2> DEFINE bcd == b \o (c \o d)
  <2>1. bcd \in Seq(Byte) /\ s = a \o bcd
    BY <1>9, <1>10
  <2> HIDE DEF bcd, s
  <2>2. Slice(a \o bcd, 0, Len(a)) = a
    BY <1>2, <2>1 DEF Slice
  <2> QED
    BY <2>1, <2>2
<1>12. Len(ab) = 4 /\ Len(abc) = 6 /\ Len(s) = 8 /\ Len(abc) + Len(d) = 8
  <2> HIDE DEF s, abc, ab
  <2> QED
    BY <1>3, <1>6, <1>7, <1>8
<1>13. Slice(s, 0, 2) = a /\ Slice(s, 2, 4) = b /\ Slice(s, 4, 6) = c /\ Slice(s, 6, 8) = d
  <2>1. Slice(s, Len(a), Len(a) + Len(b)) = b
    BY <1>9, <1>10
  <2> HIDE DEF s, abc, ab
  <2>2. Len(a) + Len(b) = 4 /\ Len(ab) + Len(c) = 6
    BY <1>3, <1>12
  <2> QED
    BY <1>3, <1>8, <1>9, <1>11, <1>12, <2>1, <2>2
<1> HIDE DEF s
<1>14. /\ SubSeq(s, 1, 2) = a /\ SubSeq(s, 3, 4) = b /\ SubSeq(s, 5, 6) = c /\ SubSeq(s, 7, 8) = d
  BY <1>13 DEF Slice
<1>15. ASSUME NEW i \in 1 .. 4 PROVE unpack16(SubSeq(s, 2 * i - 1, 2 * i)) = limbs[i]
  <2>1. CASE i = 1
    <3>1. 2 * i - 1 = 1 /\ 2 * i = 2
      BY <2>1
    <3> QED
      BY <1>4, <1>14, <2>1, <3>1
  <2>2. CASE i = 2
    <3>1. 2 * i - 1 = 3 /\ 2 * i = 4
      BY <2>2
    <3> QED
      BY <1>4, <1>14, <2>2, <3>1
  <2>3. CASE i = 3
    <3>1. 2 * i - 1 = 5 /\ 2 * i = 6
      BY <2>3
    <3> QED
      BY <1>4, <1>14, <2>3, <3>1
  <2>4. CASE i = 4
    <3>1. 2 * i - 1 = 7 /\ 2 * i = 8
      BY <2>4
    <3> QED
      BY <1>4, <1>14, <2>4, <3>1
  <2> QED
    BY <2>1, <2>2, <2>3, <2>4
<1>16. unpack64(s) = limbs
  BY <1>15 DEF unpack64
<1> QED
  BY <1>5, <1>8, <1>12, <1>16

\* Eight bytes are what their four numbers are packed to.
LEMMA Unpack64 ==
  ASSUME NEW b \in Seq(Byte), Len(b) = 8
  PROVE  unpack64(b) \in [1 .. 4 -> Limb] /\ pack64(unpack64(b)) = b
<1> DEFINE w == Slice(b, 0, 2)
           x == Slice(b, 2, 4)
           y == Slice(b, 4, 6)
           z == Slice(b, 6, 8)
<1>1. 0 \in Nat /\ 2 \in Nat /\ 4 \in Nat /\ 6 \in Nat /\ 8 \in Nat
  OBVIOUS
<1>2. 0 <= 2 /\ 2 <= 4 /\ 4 <= 6 /\ 6 <= 8 /\ 2 <= Len(b) /\ 4 <= Len(b) /\ 6 <= Len(b) /\ 8 <= Len(b)
  OBVIOUS
<1>3. /\ w \in Seq(Byte) /\ Len(w) = 2 - 0 /\ x \in Seq(Byte) /\ Len(x) = 4 - 2
      /\ y \in Seq(Byte) /\ Len(y) = 6 - 4 /\ z \in Seq(Byte) /\ Len(z) = 8 - 6
  <2>1. w \in Seq(Byte) /\ Len(w) = 2 - 0
    BY <1>1, <1>2, SliceProperties, ZenonT(60)
  <2>2. x \in Seq(Byte) /\ Len(x) = 4 - 2
    BY <1>1, <1>2, SliceProperties, ZenonT(60)
  <2>3. y \in Seq(Byte) /\ Len(y) = 6 - 4
    BY <1>1, <1>2, SliceProperties, ZenonT(60)
  <2>4. z \in Seq(Byte) /\ Len(z) = 8 - 6
    BY <1>1, <1>2, SliceProperties, ZenonT(60)
  <2> QED
    BY <2>1, <2>2, <2>3, <2>4
<1>4. Len(w) = 2 /\ Len(x) = 2 /\ Len(y) = 2 /\ Len(z) = 2
  BY <1>3
<1>5. w = SubSeq(b, 1, 2) /\ x = SubSeq(b, 3, 4) /\ y = SubSeq(b, 5, 6) /\ z = SubSeq(b, 7, 8)
  BY DEF Slice
<1>6. 0 <= 4 /\ 0 <= 6
  OBVIOUS
<1>7. w \o x = Slice(b, 0, 4) /\ Slice(b, 0, 4) \o y = Slice(b, 0, 6) /\ Slice(b, 0, 6) \o z = Slice(b, 0, 8)
  <2>1. w \o x = Slice(b, 0, 4)
    BY <1>1, <1>2, SliceJoin
  <2>2. Slice(b, 0, 4) \o y = Slice(b, 0, 6)
    BY <1>1, <1>2, <1>6, SliceJoin
  <2>3. Slice(b, 0, 6) \o z = Slice(b, 0, 8)
    BY <1>1, <1>2, <1>6, SliceJoin, ZenonT(60)
  <2> QED
    BY <2>1, <2>2, <2>3
<1>8. Slice(b, 0, 8) = b
  BY SliceFull
<1> HIDE DEF w, x, y, z
<1>9. ((w \o x) \o y) \o z = b
  BY <1>7, <1>8
<1>10. /\ unpack16(w) \in Limb /\ pack16(unpack16(w)) = w
       /\ unpack16(x) \in Limb /\ pack16(unpack16(x)) = x
       /\ unpack16(y) \in Limb /\ pack16(unpack16(y)) = y
       /\ unpack16(z) \in Limb /\ pack16(unpack16(z)) = z
  BY <1>3, <1>4, Unpack16, LimbBound
<1> DEFINE u == unpack64(b)
<1>11. u = [i \in 1 .. 4 |-> unpack16(SubSeq(b, 2 * i - 1, 2 * i))]
  BY DEF unpack64
<1> HIDE DEF u
<1>12. u[1] = unpack16(w) /\ u[2] = unpack16(x) /\ u[3] = unpack16(y) /\ u[4] = unpack16(z)
  BY <1>5, <1>11
<1>13. u \in [1 .. 4 -> Limb]
  <2>1. \A i \in 1 .. 4 : u[i] \in Limb
    BY <1>10, <1>12
  <2> QED
    BY <1>11, <2>1
<1>14. pack64(u) = b
  BY <1>9, <1>10, <1>12 DEF pack64
<1> QED
  BY <1>13, <1>14 DEF u

\* The costs are numbers that four bytes hold.
LEMMA CostBounds ==
  \A n : n \in MemoryCosts \/ n \in TimeCosts \/ n \in Lanes => n \in Nat /\ n < Huge
<1>1. /\ MIN_MEMORY_KIB \in Nat /\ MAX_MEMORY_KIB \in Nat /\ Huge \in Nat
      /\ MAX_MEMORY_KIB < Huge
  BY SMT DEF MIN_MEMORY_KIB, MAX_MEMORY_KIB, Huge
<1>2. \A n \in MemoryCosts : n \in Nat /\ n < Huge
  BY <1>1 DEF MemoryCosts
<1>3. \A n \in 1 .. 16 : n \in Nat /\ n < Huge
  BY SMT DEF Huge
<1> QED
  BY <1>2, <1>3 DEF TimeCosts, Lanes

\* A field of n bytes is a sequence of bytes.
LEMMA BytesAreSeq ==
  ASSUME NEW n \in Nat, NEW b \in Bytes(n)
  PROVE  b \in Seq(Byte) /\ Len(b) = n
<1>1. b \in [1 .. n -> Byte]
  BY DEF Bytes
<1> QED
  BY <1>1

-----------------------------------------------------------------------------
\* A file that serialize makes

\* A slice of the beginning of a sequence is a slice of the sequence.
LEMMA SliceOfPrefix ==
  ASSUME NEW S, NEW d \in Seq(S), NEW n \in Nat, NEW a \in Nat, NEW b \in Nat,
         a <= b, b <= n, n <= Len(d)
  PROVE  Slice(d, a, b) = Slice(Slice(d, 0, n), a, b)
<1> DEFINE p == Slice(d, 0, n)
           x == Slice(d, a, b)
           y == Slice(p, a, b)
<1>1. p \in Seq(S) /\ Len(p) = n /\ \A i \in 1 .. n : p[i] = d[i]
  <2>1. 0 \in Nat /\ 0 <= n
    OBVIOUS
  <2>2. p \in Seq(S) /\ Len(p) = n - 0 /\ \A i \in 1 .. n - 0 : p[i] = d[0 + i]
    BY <2>1, SliceProperties
  <2> HIDE DEF p
  <2> QED
    BY <2>2
<1> HIDE DEF p
<1>2. b <= Len(d) /\ b <= Len(p) /\ p \in Seq(S)
  BY <1>1
<1>3. y \in Seq(S) /\ Len(y) = b - a /\ \A i \in 1 .. b - a : y[i] = p[a + i]
  BY <1>2, SliceProperties
<1>4. x \in Seq(S) /\ Len(x) = b - a /\ \A i \in 1 .. b - a : x[i] = d[a + i]
  BY <1>2, SliceProperties
<1> HIDE DEF x, y
<1>5. \A i \in 1 .. b - a : a + i \in 1 .. n
  OBVIOUS
<1>6. \A i \in 1 .. b - a : x[i] = y[i]
  BY <1>1, <1>3, <1>4, <1>5
<1>7. x = y
  BY <1>3, <1>4, <1>6, SeqEqual
<1> QED
  BY <1>7 DEF x, y, p

\* Where the fields of build_kdf_header are.
LEMMA HeaderFields ==
  ASSUME NEW x \in Files
  PROVE  LET h == build_kdf_header(x)
         IN  /\ h \in Seq(Byte) /\ Len(h) = 36
             /\ Slice(h, 0, 4) = MAGIC /\ Slice(h, 4, 6) = pack16(FORMAT_VERSION)
             /\ Slice(h, 6, 8) = <<KDF_ARGON2ID, AEAD_AES256GCM>>
             /\ Slice(h, 8, 12) = pack32(x.memory_kib) /\ Slice(h, 12, 16) = pack32(x.time_cost)
             /\ Slice(h, 16, 20) = pack32(x.parallelism) /\ Slice(h, 20, 36) = x.salt
<1> DEFINE a == MAGIC
           b == pack16(FORMAT_VERSION)
           c == <<KDF_ARGON2ID, AEAD_AES256GCM>>
           d == pack32(x.memory_kib)
           e == pack32(x.time_cost)
           f == pack32(x.parallelism)
           g == x.salt
           s == a \o b \o c \o d \o e \o f \o g
           i == Len(a)
           j == i + Len(b)
           k == j + Len(c)
           l == k + Len(d)
           m == l + Len(e)
           n == m + Len(f)
           o == n + Len(g)
<1>1. a \in Seq(Byte) /\ Len(a) = 4
  BY DEF MAGIC, Byte
<1>2. b \in Seq(Byte) /\ Len(b) = 2
  BY Pack16 DEF FORMAT_VERSION
<1>3. c \in Seq(Byte) /\ Len(c) = 2
  BY DEF KDF_ARGON2ID, AEAD_AES256GCM, Byte
<1>4. /\ d \in Seq(Byte) /\ Len(d) = 4 /\ e \in Seq(Byte) /\ Len(e) = 4
      /\ f \in Seq(Byte) /\ Len(f) = 4
  <2>1. x.memory_kib \in MemoryCosts /\ x.time_cost \in TimeCosts /\ x.parallelism \in Lanes
    BY DEF Files
  <2>2. \A q : q \in Nat /\ q < Huge => q \in Nat /\ q <= Huge
    BY SMT DEF Huge
  <2> QED
    BY <2>1, <2>2, CostBounds, Pack32
<1>5. g \in Seq(Byte) /\ Len(g) = 16
  <2>1. g \in Bytes(16) /\ 16 \in Nat
    BY DEF Files
  <2> QED
    BY <2>1, BytesAreSeq
<1>6. /\ a \in Seq(Byte) /\ b \in Seq(Byte) /\ c \in Seq(Byte) /\ d \in Seq(Byte)
      /\ e \in Seq(Byte) /\ f \in Seq(Byte) /\ g \in Seq(Byte)
  BY <1>1, <1>2, <1>3, <1>4, <1>5
<1>7. /\ Len(a) = 4 /\ Len(b) = 2 /\ Len(c) = 2 /\ Len(d) = 4
      /\ Len(e) = 4 /\ Len(f) = 4 /\ Len(g) = 16
  BY <1>1, <1>2, <1>3, <1>4, <1>5
<1>8. build_kdf_header(x) = s
  BY DEF build_kdf_header
<1> HIDE DEF a, b, c, d, e, f, g
<1>9. /\ s \in Seq(Byte) /\ Len(s) = o
      /\ Slice(s, 0, i) = a /\ Slice(s, i, j) = b /\ Slice(s, j, k) = c /\ Slice(s, k, l) = d
      /\ Slice(s, l, m) = e /\ Slice(s, m, n) = f /\ Slice(s, n, o) = g
  <2>1. s \in Seq(Byte) /\ Len(s) = o
    BY <1>6
  <2>2. Slice(s, 0, i) = a
    BY <1>6 DEF Slice
  <2>3. Slice(s, i, j) = b
    BY <1>6 DEF Slice
  <2>4. Slice(s, j, k) = c
    BY <1>6 DEF Slice
  <2>5. Slice(s, k, l) = d
    BY <1>6 DEF Slice
  <2>6. Slice(s, l, m) = e
    BY <1>6 DEF Slice
  <2>7. Slice(s, m, n) = f
    BY <1>6 DEF Slice
  <2>8. Slice(s, n, o) = g
    BY <1>6 DEF Slice
  <2> QED
    BY <2>1, <2>2, <2>3, <2>4, <2>5, <2>6, <2>7, <2>8
<1>10. i = 4 /\ j = 6 /\ k = 8 /\ l = 12 /\ m = 16 /\ n = 20 /\ o = 36
  BY <1>7
<1> HIDE DEF s, i, j, k, l, m, n, o
<1> QED
  BY <1>8, <1>9, <1>10 DEF a, b, c, d, e, f, g

\* Where the fields of serialize are.
LEMMA FileFields ==
  ASSUME NEW x \in Files, Len(x.body_blob) < Huge
  PROVE  LET s == serialize(x)
         IN  /\ s \in Seq(Byte) /\ Len(s) = 120 + Len(x.body_blob)
             /\ Slice(s, 0, 36) = build_kdf_header(x) /\ Slice(s, 36, 44) = pack64(x.counter)
             /\ Slice(s, 44, 56) = x.dek_nonce /\ Slice(s, 56, 104) = x.dek_blob
             /\ Slice(s, 104, 116) = x.body_nonce /\ Slice(s, 116, 120) = pack32(Len(x.body_blob))
             /\ Slice(s, 120, Len(s)) = x.body_blob
<1> DEFINE a == build_kdf_header(x)
           b == pack64(x.counter)
           c == x.dek_nonce
           d == x.dek_blob
           e == x.body_nonce
           f == pack32(Len(x.body_blob))
           g == x.body_blob
           s == a \o b \o c \o d \o e \o f \o g
           i == Len(a)
           j == i + Len(b)
           k == j + Len(c)
           l == k + Len(d)
           m == l + Len(e)
           n == m + Len(f)
           o == n + Len(g)
<1>1. a \in Seq(Byte) /\ Len(a) = 36
  BY HeaderFields
<1>2. b \in Seq(Byte) /\ Len(b) = 8
  <2>1. x.counter \in [1 .. 4 -> Limb]
    BY DEF Files
  <2> QED
    BY <2>1, Pack64
<1>3. /\ c \in Seq(Byte) /\ Len(c) = 12 /\ d \in Seq(Byte) /\ Len(d) = 48
      /\ e \in Seq(Byte) /\ Len(e) = 12
  <2>1. c \in Bytes(12) /\ d \in Bytes(48) /\ e \in Bytes(12) /\ 12 \in Nat /\ 48 \in Nat
    BY DEF Files
  <2> QED
    BY <2>1, BytesAreSeq
<1>4. g \in Seq(Byte) /\ Len(g) \in Nat
  BY DEF Files
<1>5. f \in Seq(Byte) /\ Len(f) = 4
  <2>1. Len(g) <= Huge
    BY <1>4, SMT DEF Huge
  <2> QED
    BY <1>4, <2>1, Pack32
<1>6. /\ a \in Seq(Byte) /\ b \in Seq(Byte) /\ c \in Seq(Byte) /\ d \in Seq(Byte)
      /\ e \in Seq(Byte) /\ f \in Seq(Byte) /\ g \in Seq(Byte)
  BY <1>1, <1>2, <1>3, <1>4, <1>5
<1>7. /\ Len(a) = 36 /\ Len(b) = 8 /\ Len(c) = 12 /\ Len(d) = 48
      /\ Len(e) = 12 /\ Len(f) = 4 /\ Len(g) \in Nat
  BY <1>1, <1>2, <1>3, <1>4, <1>5
<1>8. serialize(x) = s
  BY DEF serialize
<1> HIDE DEF a, b, c, d, e, f, g
<1>9. /\ s \in Seq(Byte) /\ Len(s) = o
      /\ Slice(s, 0, i) = a /\ Slice(s, i, j) = b /\ Slice(s, j, k) = c /\ Slice(s, k, l) = d
      /\ Slice(s, l, m) = e /\ Slice(s, m, n) = f /\ Slice(s, n, o) = g
  <2>1. s \in Seq(Byte) /\ Len(s) = o
    BY <1>6
  <2>2. Slice(s, 0, i) = a
    BY <1>6 DEF Slice
  <2>3. Slice(s, i, j) = b
    BY <1>6 DEF Slice
  <2>4. Slice(s, j, k) = c
    BY <1>6 DEF Slice
  <2>5. Slice(s, k, l) = d
    BY <1>6 DEF Slice
  <2>6. Slice(s, l, m) = e
    BY <1>6 DEF Slice
  <2>7. Slice(s, m, n) = f
    BY <1>6 DEF Slice
  <2>8. Slice(s, n, o) = g
    BY <1>6 DEF Slice
  <2> QED
    BY <2>1, <2>2, <2>3, <2>4, <2>5, <2>6, <2>7, <2>8
<1>10. i = 36 /\ j = 44 /\ k = 56 /\ l = 104 /\ m = 116 /\ n = 120 /\ o = 120 + Len(g)
  BY <1>7
<1> HIDE DEF s, i, j, k, l, m, n, o
<1> QED
  BY <1>8, <1>9, <1>10 DEF a, b, c, d, e, f, g

\* The values of the offsets.
LEMMA Offsets ==
  /\ KDF_HEADER_LENGTH = 36 /\ FULL_HEADER_LENGTH = 44
  /\ DEK_NONCE_OFFSET = 44 /\ DEK_BLOB_OFFSET = 56 /\ BODY_NONCE_OFFSET = 104
  /\ BODY_LEN_OFFSET = 116 /\ BODY_OFFSET = 120 /\ TAG_LENGTH = 16 /\ MIN_FILE_LENGTH = 136
<1>1. KDF_HEADER_LENGTH = 36 /\ FULL_HEADER_LENGTH = 44
  BY DEF KDF_HEADER_LENGTH, FULL_HEADER_LENGTH
<1>2. DEK_NONCE_OFFSET = 44 /\ DEK_BLOB_OFFSET = 56 /\ BODY_NONCE_OFFSET = 104
  BY <1>1 DEF DEK_NONCE_OFFSET, DEK_BLOB_OFFSET, BODY_NONCE_OFFSET
<1> QED
  BY <1>1, <1>2 DEF BODY_LEN_OFFSET, BODY_OFFSET, TAG_LENGTH, MIN_FILE_LENGTH

\* Every field of a file that serialize makes.
LEMMA FieldsOf ==
  ASSUME NEW x \in Files, Len(x.body_blob) < Huge, NEW s, s = serialize(x)
  PROVE  /\ s \in Seq(Byte) /\ Len(s) = 120 + Len(x.body_blob) /\ Len(x.body_blob) \in Nat
         /\ Slice(s, 0, 4) = MAGIC /\ Slice(s, 4, 6) = pack16(FORMAT_VERSION)
         /\ Slice(s, 6, 8) = <<KDF_ARGON2ID, AEAD_AES256GCM>>
         /\ Slice(s, 8, 12) = pack32(x.memory_kib) /\ Slice(s, 12, 16) = pack32(x.time_cost)
         /\ Slice(s, 16, 20) = pack32(x.parallelism) /\ Slice(s, 20, 36) = x.salt
         /\ Slice(s, 36, 44) = pack64(x.counter)
         /\ Slice(s, 44, 56) = x.dek_nonce /\ Slice(s, 56, 104) = x.dek_blob
         /\ Slice(s, 104, 116) = x.body_nonce /\ Slice(s, 116, 120) = pack32(Len(x.body_blob))
         /\ Slice(s, 120, Len(s)) = x.body_blob
<1> DEFINE h == build_kdf_header(x)
<1>1. /\ s \in Seq(Byte) /\ Len(s) = 120 + Len(x.body_blob) /\ Slice(s, 0, 36) = h
      /\ Slice(s, 36, 44) = pack64(x.counter)
      /\ Slice(s, 44, 56) = x.dek_nonce /\ Slice(s, 56, 104) = x.dek_blob
      /\ Slice(s, 104, 116) = x.body_nonce /\ Slice(s, 116, 120) = pack32(Len(x.body_blob))
      /\ Slice(s, 120, Len(s)) = x.body_blob
  BY FileFields
<1>2. /\ Slice(h, 0, 4) = MAGIC /\ Slice(h, 4, 6) = pack16(FORMAT_VERSION)
      /\ Slice(h, 6, 8) = <<KDF_ARGON2ID, AEAD_AES256GCM>>
      /\ Slice(h, 8, 12) = pack32(x.memory_kib) /\ Slice(h, 12, 16) = pack32(x.time_cost)
      /\ Slice(h, 16, 20) = pack32(x.parallelism) /\ Slice(h, 20, 36) = x.salt
  BY HeaderFields
<1> HIDE DEF h
<1>3. Len(x.body_blob) \in Nat
  BY DEF Files
<1>4. s \in Seq(Byte) /\ 36 \in Nat /\ 36 <= Len(s)
  BY <1>1, <1>3
<1>5. \A a, b \in Nat : a <= b /\ b <= 36 => Slice(s, a, b) = Slice(Slice(s, 0, 36), a, b)
  BY <1>4, SliceOfPrefix
<1>6. \A a, b \in Nat : a <= b /\ b <= 36 => Slice(s, a, b) = Slice(h, a, b)
  BY <1>1, <1>5
<1>7. /\ 0 \in Nat /\ 4 \in Nat /\ 6 \in Nat /\ 8 \in Nat /\ 12 \in Nat /\ 16 \in Nat
      /\ 20 \in Nat /\ 36 \in Nat
      /\ 0 <= 4 /\ 4 <= 6 /\ 6 <= 8 /\ 8 <= 12 /\ 12 <= 16 /\ 16 <= 20 /\ 20 <= 36
      /\ 4 <= 36 /\ 6 <= 36 /\ 8 <= 36 /\ 12 <= 36 /\ 16 <= 36 /\ 36 <= 36
  OBVIOUS
<1>8. /\ Slice(s, 0, 4) = Slice(h, 0, 4) /\ Slice(s, 4, 6) = Slice(h, 4, 6)
      /\ Slice(s, 6, 8) = Slice(h, 6, 8) /\ Slice(s, 8, 12) = Slice(h, 8, 12)
      /\ Slice(s, 12, 16) = Slice(h, 12, 16) /\ Slice(s, 16, 20) = Slice(h, 16, 20)
      /\ Slice(s, 20, 36) = Slice(h, 20, 36)
  BY <1>6, <1>7
<1> QED
  BY <1>1, <1>2, <1>3, <1>8

\* parse accepts what serialize makes and hands its parts back.
LEMMA ParseSerialize ==
  ASSUME NEW x \in Files, Len(x.body_blob) >= TAG_LENGTH, Len(x.body_blob) < Huge
  PROVE  parses(serialize(x)) /\ parse(serialize(x)) = x
<1> DEFINE s == serialize(x)
           l == Len(x.body_blob)
<1>1. /\ s \in Seq(Byte) /\ Len(s) = 120 + l /\ l \in Nat
      /\ Slice(s, 0, 4) = MAGIC /\ Slice(s, 4, 6) = pack16(FORMAT_VERSION)
      /\ Slice(s, 6, 8) = <<KDF_ARGON2ID, AEAD_AES256GCM>>
      /\ Slice(s, 8, 12) = pack32(x.memory_kib) /\ Slice(s, 12, 16) = pack32(x.time_cost)
      /\ Slice(s, 16, 20) = pack32(x.parallelism) /\ Slice(s, 20, 36) = x.salt
      /\ Slice(s, 36, 44) = pack64(x.counter)
      /\ Slice(s, 44, 56) = x.dek_nonce /\ Slice(s, 56, 104) = x.dek_blob
      /\ Slice(s, 104, 116) = x.body_nonce /\ Slice(s, 116, 120) = pack32(l)
      /\ Slice(s, 120, Len(s)) = x.body_blob
  BY FieldsOf
<1>2. /\ x.memory_kib \in MemoryCosts /\ x.time_cost \in TimeCosts /\ x.parallelism \in Lanes
      /\ x.counter \in [1 .. 4 -> Limb]
  BY DEF Files
<1>3. \A n : n \in Nat /\ n < Huge => unpack32(pack32(n)) = n
  <2>1. \A n : n \in Nat /\ n < Huge => n \in Nat /\ n <= Huge
    BY SMT DEF Huge
  <2> QED
    BY <2>1, Pack32
<1>4. /\ unpack32(Slice(s, 8, 12)) = x.memory_kib /\ unpack32(Slice(s, 12, 16)) = x.time_cost
      /\ unpack32(Slice(s, 16, 20)) = x.parallelism
  BY <1>1, <1>2, <1>3, CostBounds
<1>5. unpack32(Slice(s, 116, 120)) = l
  BY <1>1, <1>3
<1>6. unpack64(Slice(s, 36, 44)) = x.counter
  BY <1>1, <1>2, Pack64
<1>7. unpack16(Slice(s, 4, 6)) = FORMAT_VERSION
  <2>1. FORMAT_VERSION \in Nat /\ FORMAT_VERSION < 65536
    BY DEF FORMAT_VERSION
  <2> QED
    BY <1>1, <2>1, Pack16
<1> HIDE DEF s, l
<1>8. s[7] = KDF_ARGON2ID /\ s[8] = AEAD_AES256GCM
  <2>1. 6 \in Nat /\ 8 \in Nat /\ 6 <= 8 /\ 8 <= Len(s)
    BY <1>1
  <2>2. \A i \in 1 .. 8 - 6 : Slice(s, 6, 8)[i] = s[6 + i]
    BY <1>1, <2>1, SliceProperties, ZenonT(60)
  <2>3. Slice(s, 6, 8)[1] = KDF_ARGON2ID /\ Slice(s, 6, 8)[2] = AEAD_AES256GCM
    BY <1>1
  <2> QED
    BY <2>2, <2>3
<1>9. parses(s)
  <2>1. Len(s) >= MIN_FILE_LENGTH
    BY <1>1, Offsets DEF l
  <2>2. FixedFieldsMatch(s)
    BY <1>1, <1>7, <1>8 DEF FixedFieldsMatch
  <2>3. CostsInRange(s)
    BY <1>2, <1>4 DEF CostsInRange
  <2>4. l = Len(s) - 120
    BY <1>1
  <2>5. BodyLengthMatches(s)
    BY <1>5, <2>4, Offsets DEF BodyLengthMatches, l
  <2> QED
    BY <2>1, <2>2, <2>3, <2>5 DEF parses
<1>10. parse(s) = [memory_kib |-> x.memory_kib, time_cost |-> x.time_cost,
                   parallelism |-> x.parallelism, salt |-> x.salt, counter |-> x.counter,
                   dek_nonce |-> x.dek_nonce, dek_blob |-> x.dek_blob,
                   body_nonce |-> x.body_nonce, body_blob |-> x.body_blob]
  BY <1>1, <1>4, <1>6, Offsets DEF parse
<1>11. x = [memory_kib |-> x.memory_kib, time_cost |-> x.time_cost,
            parallelism |-> x.parallelism, salt |-> x.salt, counter |-> x.counter,
            dek_nonce |-> x.dek_nonce, dek_blob |-> x.dek_blob,
            body_nonce |-> x.body_nonce, body_blob |-> x.body_blob]
  BY DEF Files
<1> QED
  BY <1>9, <1>10, <1>11 DEF s

-----------------------------------------------------------------------------
\* A file that parse accepts

\* Its slices, side by side, are the file.
LEMMA JoinSlices ==
  ASSUME NEW d \in Seq(Byte), Len(d) >= 136
  PROVE  /\ Slice(d, 0, 4) \o Slice(d, 4, 6) \o Slice(d, 6, 8) \o Slice(d, 8, 12)
            \o Slice(d, 12, 16) \o Slice(d, 16, 20) \o Slice(d, 20, 36) = Slice(d, 0, 36)
         /\ Slice(d, 0, 36) \o Slice(d, 36, 44) \o Slice(d, 44, 56) \o Slice(d, 56, 104)
            \o Slice(d, 104, 116) \o Slice(d, 116, 120) \o Slice(d, 120, Len(d)) = d
<1>1. \A b, c \in Nat : b <= c /\ c <= Len(d) => Slice(d, 0, b) \o Slice(d, b, c) = Slice(d, 0, c)
  <2>1. 0 \in Nat /\ \A b \in Nat : 0 <= b
    OBVIOUS
  <2> QED
    BY <2>1, SliceJoin
<1>2. /\ 4 \in Nat /\ 6 \in Nat /\ 8 \in Nat /\ 12 \in Nat /\ 16 \in Nat /\ 20 \in Nat
      /\ 36 \in Nat /\ 44 \in Nat /\ 56 \in Nat /\ 104 \in Nat /\ 116 \in Nat /\ 120 \in Nat
      /\ Len(d) \in Nat
  OBVIOUS
<1>3. /\ 4 <= 6 /\ 6 <= 8 /\ 8 <= 12 /\ 12 <= 16 /\ 16 <= 20 /\ 20 <= 36 /\ 36 <= 44
      /\ 44 <= 56 /\ 56 <= 104 /\ 104 <= 116 /\ 116 <= 120
  OBVIOUS
<1>4. /\ 6 <= Len(d) /\ 8 <= Len(d) /\ 12 <= Len(d) /\ 16 <= Len(d) /\ 20 <= Len(d)
      /\ 36 <= Len(d) /\ 44 <= Len(d) /\ 56 <= Len(d) /\ 104 <= Len(d) /\ 116 <= Len(d)
      /\ 120 <= Len(d) /\ Len(d) <= Len(d)
  BY <1>2
<1>5. /\ Slice(d, 0, 4) \o Slice(d, 4, 6) = Slice(d, 0, 6)
      /\ Slice(d, 0, 6) \o Slice(d, 6, 8) = Slice(d, 0, 8)
      /\ Slice(d, 0, 8) \o Slice(d, 8, 12) = Slice(d, 0, 12)
      /\ Slice(d, 0, 12) \o Slice(d, 12, 16) = Slice(d, 0, 16)
      /\ Slice(d, 0, 16) \o Slice(d, 16, 20) = Slice(d, 0, 20)
      /\ Slice(d, 0, 20) \o Slice(d, 20, 36) = Slice(d, 0, 36)
  BY <1>1, <1>2, <1>3, <1>4
<1>6. /\ Slice(d, 0, 36) \o Slice(d, 36, 44) = Slice(d, 0, 44)
      /\ Slice(d, 0, 44) \o Slice(d, 44, 56) = Slice(d, 0, 56)
      /\ Slice(d, 0, 56) \o Slice(d, 56, 104) = Slice(d, 0, 104)
      /\ Slice(d, 0, 104) \o Slice(d, 104, 116) = Slice(d, 0, 116)
      /\ Slice(d, 0, 116) \o Slice(d, 116, 120) = Slice(d, 0, 120)
      /\ Slice(d, 0, 120) \o Slice(d, 120, Len(d)) = Slice(d, 0, Len(d))
  BY <1>1, <1>2, <1>3, <1>4, ZenonT(60)
<1>7. Slice(d, 0, Len(d)) = d
  BY SliceFull
<1>8. Slice(d, 0, 4) \o Slice(d, 4, 6) \o Slice(d, 6, 8) \o Slice(d, 8, 12)
      \o Slice(d, 12, 16) \o Slice(d, 16, 20) \o Slice(d, 20, 36) = Slice(d, 0, 36)
  BY <1>5, Zenon
<1>9. Slice(d, 0, 36) \o Slice(d, 36, 44) \o Slice(d, 44, 56) \o Slice(d, 56, 104)
      \o Slice(d, 104, 116) \o Slice(d, 116, 120) \o Slice(d, 120, Len(d)) = d
  <2> DEFINE a == Slice(d, 36, 44)
             b == Slice(d, 44, 56)
             c == Slice(d, 56, 104)
             e == Slice(d, 104, 116)
             f == Slice(d, 116, 120)
             g == Slice(d, 120, Len(d))
             h == Slice(d, 0, 36)
             i == Slice(d, 0, 44)
             j == Slice(d, 0, 56)
             k == Slice(d, 0, 104)
             l == Slice(d, 0, 116)
             m == Slice(d, 0, 120)
  <2>1. h \o a = i /\ i \o b = j /\ j \o c = k /\ k \o e = l /\ l \o f = m /\ m \o g = d
    BY <1>6, <1>7
  <2> HIDE DEF a, b, c, e, f, g, h, i, j, k, l, m
  <2>2. h \o a \o b \o c \o e \o f \o g = d
    BY <2>1, Zenon
  <2> QED
    BY <2>2 DEF a, b, c, e, f, g, h
<1> QED
  BY <1>8, <1>9

\* serialize makes a file that parse accepts from what parse hands back.
LEMMA SerializeParse ==
  ASSUME NEW d \in Seq(Byte), parses(d), Len(d) - 120 < Huge
  PROVE  serialize(parse(d)) = d
<1> DEFINE y == parse(d)
<1>1. Len(d) \in Nat /\ Len(d) >= 136
  BY Offsets DEF parses
<1>2. \A a, b \in Nat : a <= b /\ b <= Len(d) =>
        /\ Slice(d, a, b) \in Seq(Byte) /\ Len(Slice(d, a, b)) = b - a
        /\ \A i \in 1 .. b - a : Slice(d, a, b)[i] = d[a + i]
  BY ByteSlices
<1>3. pack16(FORMAT_VERSION) = Slice(d, 4, 6)
  <2>1. 4 \in Nat /\ 6 \in Nat /\ 4 <= 6 /\ 6 <= Len(d)
    BY <1>1
  <2>2. Slice(d, 4, 6) \in Seq(Byte) /\ Len(Slice(d, 4, 6)) = 6 - 4
    BY <1>2, <2>1
  <2>3. Len(Slice(d, 4, 6)) = 2
    BY <2>2
  <2>4. unpack16(Slice(d, 4, 6)) = FORMAT_VERSION
    BY DEF parses, FixedFieldsMatch
  <2> QED
    BY <2>2, <2>3, <2>4, Unpack16
<1>4. <<KDF_ARGON2ID, AEAD_AES256GCM>> = Slice(d, 6, 8)
  <2> DEFINE a == <<KDF_ARGON2ID, AEAD_AES256GCM>>
             b == Slice(d, 6, 8)
  <2>1. 6 \in Nat /\ 8 \in Nat /\ 6 <= 8 /\ 8 <= Len(d)
    BY <1>1
  <2>2. b \in Seq(Byte) /\ Len(b) = 8 - 6 /\ \A i \in 1 .. 8 - 6 : b[i] = d[6 + i]
    BY <1>2, <2>1
  <2>3. d[7] = KDF_ARGON2ID /\ d[8] = AEAD_AES256GCM
    BY DEF parses, FixedFieldsMatch
  <2>4. a \in Seq(Byte) /\ Len(a) = 2 /\ a[1] = KDF_ARGON2ID /\ a[2] = AEAD_AES256GCM
    BY DEF KDF_ARGON2ID, AEAD_AES256GCM, Byte
  <2> HIDE DEF a, b
  <2>5. Len(b) = 2 /\ b[1] = d[7] /\ b[2] = d[8]
    BY <2>2
  <2>6. \A i \in 1 .. Len(a) : a[i] = b[i]
    BY <2>3, <2>4, <2>5
  <2>7. a = b
    BY <2>2, <2>4, <2>5, <2>6, SeqEqual
  <2> QED
    BY <2>7 DEF a, b
<1>5. /\ pack32(y.memory_kib) = Slice(d, 8, 12) /\ pack32(y.time_cost) = Slice(d, 12, 16)
      /\ pack32(y.parallelism) = Slice(d, 16, 20)
  <2>1. /\ 8 \in Nat /\ 12 \in Nat /\ 16 \in Nat /\ 20 \in Nat /\ 8 <= 12 /\ 12 <= 16 /\ 16 <= 20
        /\ 12 <= Len(d) /\ 16 <= Len(d) /\ 20 <= Len(d)
    BY <1>1
  <2>2. /\ Slice(d, 8, 12) \in Seq(Byte) /\ Len(Slice(d, 8, 12)) = 12 - 8
        /\ Slice(d, 12, 16) \in Seq(Byte) /\ Len(Slice(d, 12, 16)) = 16 - 12
        /\ Slice(d, 16, 20) \in Seq(Byte) /\ Len(Slice(d, 16, 20)) = 20 - 16
    BY <1>2, <2>1
  <2>3. Len(Slice(d, 8, 12)) = 4 /\ Len(Slice(d, 12, 16)) = 4 /\ Len(Slice(d, 16, 20)) = 4
    BY <2>2
  <2>4. /\ unpack32(Slice(d, 8, 12)) < Huge /\ unpack32(Slice(d, 12, 16)) < Huge
        /\ unpack32(Slice(d, 16, 20)) < Huge
    BY CostBounds DEF parses, CostsInRange
  <2>5. /\ y.memory_kib = unpack32(Slice(d, 8, 12)) /\ y.time_cost = unpack32(Slice(d, 12, 16))
        /\ y.parallelism = unpack32(Slice(d, 16, 20))
    BY DEF parse
  <2> QED
    BY <2>2, <2>3, <2>4, <2>5, Unpack32
<1>6. pack64(y.counter) = Slice(d, 36, 44)
  <2>1. 36 \in Nat /\ 44 \in Nat /\ 36 <= 44 /\ 44 <= Len(d)
    BY <1>1
  <2>2. Slice(d, 36, 44) \in Seq(Byte) /\ Len(Slice(d, 36, 44)) = 44 - 36
    BY <1>2, <2>1
  <2>3. Len(Slice(d, 36, 44)) = 8
    BY <2>2
  <2>4. y.counter = unpack64(Slice(d, 36, 44))
    BY Offsets DEF parse
  <2> QED
    BY <2>2, <2>3, <2>4, Unpack64
<1>7. /\ y.salt = Slice(d, 20, 36) /\ y.dek_nonce = Slice(d, 44, 56)
      /\ y.dek_blob = Slice(d, 56, 104) /\ y.body_nonce = Slice(d, 104, 116)
      /\ y.body_blob = Slice(d, 120, Len(d))
  BY Offsets DEF parse
<1>8. pack32(Len(y.body_blob)) = Slice(d, 116, 120)
  <2>1. /\ 116 \in Nat /\ 120 \in Nat /\ 116 <= 120 /\ 120 <= Len(d) /\ Len(d) <= Len(d)
    BY <1>1
  <2>2. Slice(d, 116, 120) \in Seq(Byte) /\ Len(Slice(d, 116, 120)) = 120 - 116
    BY <1>2, <2>1, ZenonT(60)
  <2>3. Len(Slice(d, 116, 120)) = 4
    BY <2>2
  <2>4. Len(Slice(d, 120, Len(d))) = Len(d) - 120
    BY <1>1, <1>2, <2>1
  <2>5. unpack32(Slice(d, 116, 120)) = Len(d) - 120
    BY Offsets DEF parses, BodyLengthMatches
  <2>6. unpack32(Slice(d, 116, 120)) < Huge
    BY <2>5
  <2>7. pack32(unpack32(Slice(d, 116, 120))) = Slice(d, 116, 120)
    BY <2>2, <2>3, <2>6, Unpack32
  <2> QED
    BY <1>7, <2>4, <2>5, <2>7
<1>9. Slice(d, 0, 4) = MAGIC
  BY DEF parses, FixedFieldsMatch
<1> HIDE DEF y
<1>10. build_kdf_header(y) = Slice(d, 0, 36)
  <2>1. build_kdf_header(y) =
          Slice(d, 0, 4) \o Slice(d, 4, 6) \o Slice(d, 6, 8) \o Slice(d, 8, 12)
          \o Slice(d, 12, 16) \o Slice(d, 16, 20) \o Slice(d, 20, 36)
    BY <1>3, <1>4, <1>5, <1>7, <1>9, Zenon DEF build_kdf_header
  <2> QED
    BY <1>1, <2>1, JoinSlices
<1>11. serialize(y) =
         Slice(d, 0, 36) \o Slice(d, 36, 44) \o Slice(d, 44, 56) \o Slice(d, 56, 104)
         \o Slice(d, 104, 116) \o Slice(d, 116, 120) \o Slice(d, 120, Len(d))
  BY <1>6, <1>7, <1>8, <1>10 DEF serialize
<1> QED
  BY <1>1, <1>11, JoinSlices DEF y

-----------------------------------------------------------------------------
\* A file and what becomes of it

\* A byte that was not damaged is the one that was written, and the length is
\* that of what was written unless the file was resized, which happens once.
DataInv ==
  /\ parts \in FileParts
  /\ data \in Seq(Byte)
  /\ Len(data) <= Len(serialize(parts)) + 2
  /\ Resized \notin damaged => Len(data) = Len(serialize(parts))
  /\ \A i \in 1 .. Len(data) :
       i <= Len(serialize(parts)) /\ i \notin damaged => data[i] = serialize(parts)[i]

\* What the assumptions on FileParts say of the file that is written.
LEMMA Written ==
  ASSUME NEW x \in FileParts
  PROVE  /\ x \in Files /\ Len(x.body_blob) \in Nat
         /\ Len(x.body_blob) >= TAG_LENGTH /\ Len(x.body_blob) < Huge
         /\ Len(x.body_blob) + 2 < Huge
         /\ serialize(x) \in Seq(Byte) /\ Len(serialize(x)) = 120 + Len(x.body_blob)
         /\ Slice(serialize(x), 116, 120) = pack32(Len(x.body_blob))
<1>1. x \in Files /\ Len(x.body_blob) \in TAG_LENGTH .. Huge - 3
  BY FilesAssumption
<1>2. Huge \in Nat /\ 3 < Huge /\ TAG_LENGTH \in Nat
  BY SMT DEF Huge, TAG_LENGTH
<1>3. /\ Len(x.body_blob) \in Nat
      /\ Len(x.body_blob) >= TAG_LENGTH /\ Len(x.body_blob) < Huge /\ Len(x.body_blob) + 2 < Huge
  BY <1>1, <1>2
<1> QED
  BY <1>1, <1>3, FileFields

\* DataInv holds of every file.
LEMMA DataInvariant == Spec => []DataInv
<1>1. Init => DataInv
  <2> SUFFICES ASSUME Init PROVE DataInv
    OBVIOUS
  <2>1. parts \in FileParts /\ data = serialize(parts) /\ data \in Seq(Byte)
    BY Written DEF Init
  <2> QED
    BY <2>1 DEF DataInv
<1>2. DataInv /\ [Next]_vars => DataInv'
  <2> SUFFICES ASSUME DataInv, [Next]_vars PROVE DataInv'
    OBVIOUS
  <2> DEFINE s == serialize(parts)
  <2>1. /\ parts \in FileParts /\ data \in Seq(Byte) /\ s \in Seq(Byte)
        /\ Len(data) \in Nat /\ Len(s) \in Nat /\ Len(data) <= Len(s) + 2
        /\ Resized \notin damaged => Len(data) = Len(s)
        /\ \A i \in 1 .. Len(data) : i <= Len(s) /\ i \notin damaged => data[i] = s[i]
    BY Written DEF DataInv
  <2>2. DamageBytes \subseteq Byte
    BY FilesAssumption
  <2>3. CASE Truncate
    <3>1. PICK n \in 0 .. Len(data) - 1 : Resize(SubSeq(data, 1, n))
      BY <2>3 DEF Truncate
    <3>2. /\ SubSeq(data, 1, n) \in Seq(Byte) /\ Len(SubSeq(data, 1, n)) = n
          /\ \A i \in 1 .. n : SubSeq(data, 1, n)[i] = data[i]
      <4>1. n \in Nat /\ n <= Len(data)
        BY <2>1
      <4> QED
        BY <2>1, <4>1
    <3>3. /\ parts' = parts /\ data' = SubSeq(data, 1, n) /\ damaged' = damaged \cup {Resized}
          /\ s' = s
      BY <3>1 DEF Resize
    <3> DEFINE t == SubSeq(data, 1, n)
    <3> HIDE DEF s, t
    <3>4. data' \in Seq(Byte) /\ Len(data') = n /\ \A i \in 1 .. n : data'[i] = data[i]
      BY <3>2, <3>3
    <3>5. Len(data') <= Len(s) + 2
      BY <2>1, <3>4
    <3>6. \A i \in 1 .. n : i \in 1 .. Len(data)
      BY <2>1
    <3>7. \A i \in 1 .. Len(data') : i <= Len(s) /\ i \notin damaged' => data'[i] = s[i]
      BY <2>1, <3>3, <3>4, <3>6
    <3> QED
      BY <2>1, <3>3, <3>4, <3>5, <3>7 DEF DataInv, s
  <2>4. CASE Extend
    <3>1. PICK b, c \in DamageBytes : Resize(data \o <<b>>) \/ Resize(data \o <<b, c>>)
      BY <2>4 DEF Extend
    <3> DEFINE Tails == {<<b>>, <<b, c>>}
    <3>2. \A u \in Tails : u \in Seq(Byte) /\ Len(u) \in Nat /\ Len(u) <= 2
      <4>1. b \in Byte /\ c \in Byte
        BY <2>2
      <4>2. <<b>> \in Seq(Byte) /\ Len(<<b>>) = 1
        BY <4>1
      <4>3. <<b, c>> \in Seq(Byte) /\ Len(<<b, c>>) = 2
        BY <4>1
      <4>4. 1 \in Nat /\ 1 <= 2 /\ 2 \in Nat /\ 2 <= 2
        OBVIOUS
      <4> QED
        BY <4>2, <4>3, <4>4
    <3>3. PICK u \in Tails : Resize(data \o u)
      BY <3>1
    <3>4. u \in Seq(Byte) /\ Len(u) \in Nat /\ Len(u) <= 2
      BY <3>2
    <3>5. /\ data \o u \in Seq(Byte) /\ Len(data \o u) = Len(data) + Len(u)
          /\ \A i \in 1 .. Len(data) : (data \o u)[i] = data[i]
      <4>1. data \in Seq(Byte) /\ u \in Seq(Byte)
        BY <2>1, <3>4
      <4> QED
        BY <4>1
    <3>6. /\ parts' = parts /\ data' = data \o u /\ damaged' = damaged \cup {Resized} /\ s' = s
          /\ Resized \notin damaged
      BY <3>3 DEF Resize
    <3> HIDE DEF s
    <3>7. Len(data') = Len(s) + Len(u) /\ data' \in Seq(Byte)
      BY <2>1, <3>5, <3>6
    <3>8. \A i \in 1 .. Len(data') : i <= Len(s) => i \in 1 .. Len(data)
      BY <2>1, <3>4, <3>6, <3>7
    <3>9. \A i \in 1 .. Len(data') : i <= Len(s) /\ i \notin damaged' => data'[i] = s[i]
      BY <2>1, <3>5, <3>6, <3>8
    <3>10. Len(data') <= Len(s) + 2
      BY <2>1, <3>4, <3>7
    <3> QED
      BY <2>1, <3>6, <3>7, <3>9, <3>10 DEF DataInv, s
  <2>5. CASE \E i \in DOMAIN data, b \in DamageBytes : Overwrite(i, b)
    <3>1. PICK k \in DOMAIN data, b \in DamageBytes : Overwrite(k, b)
      BY <2>5
    <3>2. /\ parts' = parts /\ data' = [data EXCEPT ![k] = b] /\ damaged' = damaged \cup {k}
          /\ s' = s
      BY <3>1 DEF Overwrite
    <3> HIDE DEF s
    <3>3. /\ data' \in Seq(Byte) /\ Len(data') = Len(data)
          /\ \A i \in 1 .. Len(data) : i # k => data'[i] = data[i]
      <4>1. b \in Byte /\ k \in 1 .. Len(data)
        BY <2>1, <2>2
      <4> QED
        BY <2>1, <3>2, <4>1
    <3>4. \A i \in 1 .. Len(data') : i <= Len(s) /\ i \notin damaged' => data'[i] = s[i]
      BY <2>1, <3>2, <3>3
    <3>5. Resized \notin damaged' => Len(data') = Len(s)
      BY <2>1, <3>2, <3>3
    <3> QED
      BY <2>1, <3>2, <3>3, <3>4, <3>5 DEF DataInv, s
  <2>6. CASE UNCHANGED vars
    BY <2>6 DEF vars, DataInv
  <2> QED
    BY <2>3, <2>4, <2>5, <2>6 DEF Next
<1> QED
  BY <1>1, <1>2, PTL DEF Spec

(***************************************************************************)
(* parse accepts an undamaged file and hands back what serialize was       *)
(* given, whatever the salt, counter, nonces, blobs and legal costs, for   *)
(* bodies of every length from an empty plaintext's on (RoundTrip).        *)
(***************************************************************************)
THEOREM RoundTripCorrect == Spec => []RoundTrip
<1>1. DataInv => RoundTrip
  <2> SUFFICES ASSUME DataInv, damaged = {} PROVE parses(data) /\ parse(data) = parts
    BY DEF RoundTrip
  <2> DEFINE s == serialize(parts)
  <2>1. parts \in FileParts /\ s \in Seq(Byte) /\ data \in Seq(Byte)
    BY Written DEF DataInv
  <2>2. Len(data) = Len(s) /\ \A i \in 1 .. Len(data) : i <= Len(s) => data[i] = s[i]
    BY DEF DataInv
  <2> HIDE DEF s
  <2>3. data = s
    <3>1. Len(data) \in Nat /\ \A i \in 1 .. Len(data) : i <= Len(data)
      BY <2>1
    <3>2. \A i \in 1 .. Len(data) : data[i] = s[i]
      BY <2>2, <3>1
    <3> QED
      BY <2>1, <2>2, <3>2, SeqEqual
  <2> QED
    BY <2>1, <2>3, Written, ParseSerialize DEF s
<1> QED
  BY <1>1, DataInvariant, PTL

(***************************************************************************)
(* A file that parse accepts is the file serialize makes from what it      *)
(* hands back: no byte is ignored, however the file was damaged            *)
(* (Canonical).                                                            *)
(***************************************************************************)
THEOREM CanonicalCorrect == Spec => []Canonical
<1>1. DataInv => Canonical
  <2> SUFFICES ASSUME DataInv, parses(data) PROVE serialize(parse(data)) = data
    BY DEF Canonical
  <2> DEFINE l == Len(parts.body_blob)
             s == serialize(parts)
  <2>1. parts \in FileParts /\ data \in Seq(Byte) /\ Len(data) <= Len(s) + 2
    BY DEF DataInv
  <2>2. l \in Nat /\ Len(s) = 120 + l /\ l + 2 < Huge /\ Len(data) \in Nat
    BY <2>1, Written
  <2> HIDE DEF l, s
  <2>3. Huge \in Nat
    BY SMT DEF Huge
  <2>4. Len(data) - 120 < Huge
    BY <2>1, <2>2, <2>3
  <2> QED
    BY <2>1, <2>4, SerializeParse
<1> QED
  BY <1>1, DataInvariant, PTL

\* The field that holds the length of the body.
LEMMA LengthField ==
  ASSUME NEW d \in Seq(Byte), 120 <= Len(d)
  PROVE  /\ Slice(d, 116, 120) \in Seq(Byte) /\ Len(Slice(d, 116, 120)) = 4
         /\ \A i \in 1 .. 4 : Slice(d, 116, 120)[i] = d[116 + i]
<1>1. 116 \in Nat /\ 120 \in Nat /\ 116 <= 120 /\ 120 <= Len(d)
  OBVIOUS
<1>2. \A a, b \in Nat : a <= b /\ b <= Len(d) =>
        /\ Slice(d, a, b) \in Seq(Byte) /\ Len(Slice(d, a, b)) = b - a
        /\ \A i \in 1 .. b - a : Slice(d, a, b)[i] = d[a + i]
  BY ByteSlices
<1>3. /\ Slice(d, 116, 120) \in Seq(Byte) /\ Len(Slice(d, 116, 120)) = 120 - 116
      /\ \A i \in 1 .. 120 - 116 : Slice(d, 116, 120)[i] = d[116 + i]
  BY <1>1, <1>2, ZenonT(60)
<1> QED
  BY <1>3

(***************************************************************************)
(* A file that was cut short or extended is refused unless the four bytes  *)
(* of its length field were damaged too (ResizeRejected).                  *)
(***************************************************************************)
THEOREM ResizeCorrect == Spec => []ResizeRejected
<1>1. DataInv => ResizeRejected
  <2> DEFINE s == serialize(parts)
             l == Len(parts.body_blob)
  <2> SUFFICES ASSUME DataInv, damaged \cap (BODY_LEN_OFFSET + 1 .. BODY_OFFSET) = {}, parses(data)
               PROVE  Len(data) = Len(s)
    BY DEF ResizeRejected
  <2>1. /\ parts \in FileParts /\ data \in Seq(Byte)
        /\ \A i \in 1 .. Len(data) : i <= Len(s) /\ i \notin damaged => data[i] = s[i]
    BY DEF DataInv
  <2>2. /\ l \in Nat /\ l < Huge /\ s \in Seq(Byte) /\ Len(s) = 120 + l
        /\ Slice(s, 116, 120) = pack32(l)
    BY <2>1, Written
  <2>3. Len(data) \in Nat /\ Len(data) >= 136
    BY <2>1, Offsets DEF parses
  <2>4. unpack32(Slice(data, 116, 120)) = Len(data) - 120
    BY Offsets DEF parses, BodyLengthMatches
  <2>5. damaged \cap (117 .. 120) = {}
    BY Offsets
  <2> HIDE DEF s, l
  <2>6. Slice(data, 116, 120) = Slice(s, 116, 120)
    <3> DEFINE x == Slice(data, 116, 120)
               y == Slice(s, 116, 120)
    <3>1. /\ 120 <= Len(data) /\ 120 <= Len(s)
          /\ data \in Seq(Byte) /\ s \in Seq(Byte)
      BY <2>1, <2>2, <2>3
    <3>2. x \in Seq(Byte) /\ Len(x) = 4 /\ \A i \in 1 .. 4 : x[i] = data[116 + i]
      BY <3>1, LengthField
    <3>3. y \in Seq(Byte) /\ Len(y) = 4 /\ \A i \in 1 .. 4 : y[i] = s[116 + i]
      BY <3>1, LengthField
    <3> HIDE DEF x, y
    <3>4. \A i \in 117 .. 120 : data[i] = s[i]
      <4>1. \A i \in 117 .. 120 : i \in 1 .. Len(data) /\ i <= Len(s) /\ i \notin damaged
        BY <2>2, <2>3, <2>5
      <4> QED
        BY <2>1, <4>1
    <3>5. \A i \in 1 .. 4 : 116 + i \in 117 .. 120
      OBVIOUS
    <3>6. \A i \in 1 .. Len(x) : x[i] = y[i]
      BY <3>2, <3>3, <3>4, <3>5
    <3>7. x = y
      BY <3>2, <3>3, <3>6, SeqEqual
    <3> QED
      BY <3>7 DEF x, y
  <2>7. unpack32(Slice(data, 116, 120)) = l
    <3>1. l <= Huge
      BY <2>2, SMT DEF Huge
    <3> QED
      BY <2>2, <2>6, <3>1, Pack32
  <2> QED
    BY <2>2, <2>3, <2>4, <2>7
<1> QED
  BY <1>1, DataInvariant, PTL
=============================================================================
