---------------------------- MODULE PacketProofs ----------------------------
(***************************************************************************)
(* The checksum loop is Fletcher's checksum, for every packet the server   *)
(* can send and whatever happens to it underway.                           *)
(***************************************************************************)
EXTENDS PacketPath, SequenceTheorems, TLAPS

LEMMA ByteIsNat == \A b \in Byte : b \in Nat /\ b <= 255
BY DEF Byte

-----------------------------------------------------------------------------
(***************************************************************************)
(* Bringing a sum back to about a byte loses nothing modulo 255.           *)
(***************************************************************************)
LEMMA FoldKeepsResidue ==
    ASSUME NEW n \in Nat
    PROVE  Fold(n) \in Nat /\ Fold(n) % 255 = n % 255
<1> DEFINE low == n % 256
           high == n \div 256
<1>1. low \in Nat /\ high \in Nat /\ n = 256 * high + low
  OBVIOUS
<1> HIDE DEF low, high
<1>2. (256 * high + low) % 255 = (high + low) % 255
  BY <1>1
<1>3. Fold(n) = low + high
  BY DEF Fold, low, high
<1>4. QED
  BY <1>1, <1>2, <1>3

(***************************************************************************)
(* A sum that has been folded once is, folded again, what Fletcher stores. *)
(***************************************************************************)
LEMMA FoldedIsStored ==
    ASSUME NEW n \in 1..487
    PROVE  Fold(n) = F!Stored(n % 255)
BY DEF Fold, F!Stored

(***************************************************************************)
(* How far the sums can be after k bytes of a block.                       *)
(***************************************************************************)
WithinBlock(k, s1, s2) ==
    /\ s1 \in Nat /\ s2 \in Nat /\ s1 > 0 /\ s2 > 0
    /\ s1 <= 276 + 255 * k
    /\ 2 * s2 <= 974 + 552 * k + 255 * (k * (k + 1))

Folded(s1, s2) == s1 \in 1..276 /\ s2 \in 1..487

LEMMA ByteKeepsBounds ==
    ASSUME NEW k \in 0..19, NEW s1, NEW s2, NEW byte \in Byte,
           WithinBlock(k, s1, s2)
    PROVE  /\ WithinBlock(k + 1, s1 + byte, s2 + (s1 + byte))
           /\ s1 + byte <= 5376
           /\ s2 + (s1 + byte) <= 59557
<1>1. k \in Nat /\ k <= 19 /\ byte \in Nat /\ byte <= 255
  BY DEF Byte
<1>2. s1 \in Nat /\ s2 \in Nat /\ s1 > 0 /\ s2 > 0
      /\ s1 <= 276 + 255 * k
      /\ 2 * s2 <= 974 + 552 * k + 255 * (k * (k + 1))
  BY DEF WithinBlock
<1>3. (k + 1) * ((k + 1) + 1) = k * (k + 1) + 2 * k + 2
  BY <1>1
<1>4. k * (k + 1) <= 380
  <2>1. k * (k + 1) <= 19 * (k + 1)
    BY <1>1
  <2>2. QED
    BY <2>1, <1>1
<1> DEFINE sq == k * (k + 1)
<1>5. sq \in Nat
  BY <1>1
<1> HIDE DEF sq
<1>6. 2 * s2 <= 974 + 552 * k + 255 * sq /\ sq <= 380
  BY <1>2, <1>4 DEF sq
<1>7. 2 * (s2 + (s1 + byte)) <= 974 + 552 * (k + 1) + 255 * (sq + 2 * k + 2)
  BY <1>1, <1>2, <1>5, <1>6
<1>8. (k + 1) * ((k + 1) + 1) = sq + 2 * k + 2
  BY <1>3 DEF sq
<1>9. WithinBlock(k + 1, s1 + byte, s2 + (s1 + byte))
  BY <1>1, <1>2, <1>7, <1>8 DEF WithinBlock
<1>10. QED
  BY <1>1, <1>2, <1>5, <1>6, <1>7, <1>9

LEMMA FoldKeepsBounds ==
    ASSUME NEW s \in Nat, s > 0
    PROVE  /\ s <= 5376 => Fold(s) \in 1..276
           /\ s <= 59557 => Fold(s) \in 1..487
<1> DEFINE low == s % 256
           high == s \div 256
<1>1. s = 256 * high + low /\ low \in Nat /\ low <= 255 /\ high \in Nat
  OBVIOUS
<1>2. low + high = Fold(s)
  BY DEF Fold
<1> HIDE DEF low, high
<1>3. low + high \in Nat /\ low + high > 0
  BY <1>1
<1>4. ASSUME s <= 5376
      PROVE  low + high <= 276
  <2>1. high <= 21
    BY <1>1, <1>4
  <2>2. QED
    BY <2>1, <1>1
<1>5. ASSUME s <= 59557
      PROVE  low + high <= 487
  <2>1. high <= 232
    BY <1>1, <1>5
  <2>2. QED
    BY <2>1, <1>1
<1>6. QED
  BY <1>2, <1>3, <1>4, <1>5

(***************************************************************************)
(* Folded sums are within the bounds wherever a block stands.              *)
(***************************************************************************)
LEMMA FoldedFits ==
    ASSUME NEW k \in Nat, NEW s1, NEW s2, Folded(s1, s2)
    PROVE  WithinBlock(k, s1, s2)
<1>1. k * (k + 1) \in Nat
  OBVIOUS
<1>2. QED
  BY <1>1 DEF Folded, WithinBlock

-----------------------------------------------------------------------------
(***************************************************************************)
(* The invariant of the loop: the sums are within the bounds of a block    *)
(* wherever it stands, and folded when it is over.                         *)
(***************************************************************************)
SumInv ==
    /\ buf \in Seq(Byte)
    /\ pos \in 0..Len(buf)
    /\ WithinBlock(pos % Block, sum1, sum2)
    /\ Summed => Folded(sum1, sum2)

LEMMA StartBegins ==
    ASSUME NEW x \in Seq(Byte), Start(x)
    PROVE  SumInv' /\ F!Begin
<1>1. buf' = x /\ pos' = 0 /\ sum1' = 255 /\ sum2' = 255
  BY DEF Start
<1>2. Folded(255, 255) /\ WithinBlock(0, 255, 255)
  BY FoldedFits DEF Folded
<1>3. SumInv'
  BY <1>1, <1>2 DEF SumInv, Summed, Block
<1>4. F!Begin
  <2>1. <<sum1' % 255, sum2' % 255>> = <<0, 0>>
    BY <1>1
  <2>2. buf' \in Seq(F!Byte)
    BY <1>1 DEF Byte, F!Byte
  <2>3. QED
    BY <1>1, <2>1, <2>2 DEF F!Begin
<1>5. QED
  BY <1>3, <1>4

(***************************************************************************)
(* One byte more: neither sum is cut to its 16 bits.                       *)
(***************************************************************************)
LEMMA AddByteAdds ==
    ASSUME SumInv, AddByte
    PROVE  SumInv' /\ F!Add
<1> DEFINE k == pos % Block
           byte == buf[pos + 1]
           s1 == sum1 + byte
           s2 == sum2 + s1
<1>1. /\ pos \in Nat /\ pos < Len(buf) /\ pos' = pos + 1
      /\ buf' = buf /\ buf \in Seq(Byte) /\ Len(buf) \in Nat
      /\ byte \in Byte
  BY DEF SumInv, AddByte
<1>2. k \in 0..19 /\ WithinBlock(k, sum1, sum2)
  BY <1>1 DEF SumInv, Block
<1> HIDE DEF k
<1>3. sum1 \in Nat /\ sum2 \in Nat /\ sum1 > 0 /\ sum2 > 0 /\ byte \in Nat
  <2>1. byte \in Nat
    BY <1>1, ByteIsNat
  <2>2. sum1 \in Nat /\ sum2 \in Nat /\ sum1 > 0 /\ sum2 > 0
    BY <1>2, ZenonT(30) DEF WithinBlock
  <2>3. QED
    BY <2>1, <2>2
<1>4. /\ WithinBlock(k + 1, s1, s2)
      /\ s1 <= 5376 /\ s2 <= 59557
  <2> HIDE DEF byte
  <2>1. k \in 0..19 /\ byte \in Byte /\ WithinBlock(k, sum1, sum2)
    BY <1>1, <1>2
  <2>2. QED
    BY <2>1, ByteKeepsBounds, SMTT(30)
<1>5. s1 \in Nat /\ s2 \in Nat /\ s1 > 0 /\ s2 > 0
  BY <1>3
<1>6. Word(s1) = s1 /\ Word(s2) = s2
  BY <1>4, <1>5 DEF Word, WordSize
<1>7. IF BlockEnds(pos + 1) THEN sum1' = Fold(s1) /\ sum2' = Fold(s2)
                            ELSE sum1' = s1 /\ sum2' = s2
  BY <1>1, <1>6 DEF AddByte
<1>8. /\ Fold(s1) \in Nat /\ Fold(s1) % 255 = s1 % 255
      /\ Fold(s2) \in Nat /\ Fold(s2) % 255 = s2 % 255
      /\ Folded(Fold(s1), Fold(s2))
  BY <1>4, <1>5, FoldKeepsResidue, FoldKeepsBounds, SMTT(30) DEF Folded
<1>9. sum1' % 255 = s1 % 255 /\ sum2' % 255 = s2 % 255
  BY <1>7, <1>8
<1>10. (pos + 1) % Block \in Nat
       /\ (~BlockEnds(pos + 1) => (pos + 1) % Block = k + 1)
  BY <1>1 DEF Block, BlockEnds, k
<1>11. SumInv'
  <2>1. CASE BlockEnds(pos + 1)
    <3>1. sum1' = Fold(s1) /\ sum2' = Fold(s2)
      BY <1>7, <2>1
    <3>2. Folded(sum1', sum2') /\ WithinBlock((pos + 1) % Block, sum1', sum2')
      BY <3>1, <1>8, <1>10, FoldedFits
    <3>3. QED
      BY <1>1, <3>2 DEF SumInv
  <2>2. CASE ~BlockEnds(pos + 1)
    <3>1. sum1' = s1 /\ sum2' = s2
      BY <1>7, <2>2
    <3>2. WithinBlock((pos + 1) % Block, sum1', sum2')
      BY <3>1, <1>4, <1>10, <2>2
    <3>3. ~Summed'
      BY <1>1, <2>2 DEF Summed, BlockEnds
    <3>4. QED
      BY <1>1, <3>2, <3>3 DEF SumInv
  <2>3. QED
    BY <2>1, <2>2
<1>12. F!Add
  <2> DEFINE a == ((sum1 % 255) + byte) % 255
  <2>1. s1 % 255 = a
    BY <1>3
  <2>2. s2 % 255 = ((sum2 % 255) + a) % 255
    BY <1>3, <2>1
  <2>3. <<sum1' % 255, sum2' % 255>> = <<a, ((sum2 % 255) + a) % 255>>
    BY <1>9, <2>1, <2>2
  <2>4. QED
    BY <1>1, <2>3 DEF F!Add
<1>13. QED
  BY <1>11, <1>12

(***************************************************************************)
(* What is compared in the end are Fletcher's two sums, a byte each.       *)
(***************************************************************************)
LEMMA ResultIsCheck ==
    ASSUME SumInv, Summed
    PROVE  /\ Result = F!Check
           /\ Result \in Seq(Byte) /\ Len(Result) = 2
<1>1. Folded(sum1, sum2)
  BY DEF SumInv
<1>2. sum1 \in 1..487 /\ sum2 \in 1..487
  BY <1>1 DEF Folded
<1>3. /\ Fold(sum1) = F!Stored(sum1 % 255)
      /\ Fold(sum2) = F!Stored(sum2 % 255)
  BY <1>2, FoldedIsStored, ZenonT(30)
<1>4. Fold(sum1) \in Byte /\ Fold(sum2) \in Byte
  BY <1>2, SMTT(30) DEF Fold, Byte
<1>5. QED
  BY <1>3, <1>4 DEF Result, F!Check

-----------------------------------------------------------------------------
(***************************************************************************)
(* Coding and decoding make bytes of bytes, and read no frame or word that *)
(* is not there.                                                           *)
(***************************************************************************)
LEMMA WordsAreWords ==
    ASSUME NEW x \in Seq(Byte)
    PROVE  WordsOf(x) \in Seq(Nat) /\ Len(WordsOf(x)) = Len(x) \div 2
<1>1. Len(x) \in Nat /\ Len(x) \div 2 \in Nat
  OBVIOUS
<1>2. \A i \in 1..(Len(x) \div 2) : x[2 * i - 1] + 256 * x[2 * i] \in Nat
  <2>1. TAKE i \in 1..(Len(x) \div 2)
  <2>2. 2 * i - 1 \in 1..Len(x) /\ 2 * i \in 1..Len(x)
    BY <1>1
  <2>3. x[2 * i - 1] \in Nat /\ x[2 * i] \in Nat
    BY <2>2, ElementOfSeq, ByteIsNat
  <2>4. QED
    BY <2>3
<1>3. QED
  BY <1>1, <1>2 DEF WordsOf

LEMMA LowByte == \A v \in Int : v % 256 \in Byte /\ v \div 256 \in Int
BY DEF Byte

LEMMA BytesAreBytes ==
    ASSUME NEW w \in Seq(Int)
    PROVE  BytesOf(w) \in Seq(Byte) /\ Len(BytesOf(w)) = 2 * Len(w)
<1> DEFINE byte(b) == IF b % 2 = 1 THEN w[(b + 1) \div 2] % 256
                                   ELSE (w[b \div 2] \div 256) % 256
<1>1. Len(w) \in Nat /\ 2 * Len(w) \in Nat
  OBVIOUS
<1>2. \A b \in 1..(2 * Len(w)) : byte(b) \in Byte
  <2>1. TAKE b \in 1..(2 * Len(w))
  <2>2. CASE b % 2 = 1
    <3>1. (b + 1) \div 2 \in 1..Len(w)
      BY <1>1, <2>2
    <3>2. w[(b + 1) \div 2] \in Int
      BY <3>1, ElementOfSeq
    <3>3. QED
      BY <2>2, <3>2, LowByte
  <2>3. CASE b % 2 # 1
    <3>1. b \div 2 \in 1..Len(w)
      BY <1>1, <2>3
    <3>2. w[b \div 2] \in Int
      BY <3>1, ElementOfSeq
    <3>3. w[b \div 2] \div 256 \in Int
      BY <3>2
    <3>4. (w[b \div 2] \div 256) % 256 \in Byte
      BY <3>3, LowByte
    <3>5. QED
      BY <2>3, <3>4
  <2>4. QED
    BY <2>2, <2>3
<1> HIDE DEF byte
<1>3. [b \in 1..(2 * Len(w)) |-> byte(b)] \in Seq(Byte)
      /\ Len([b \in 1..(2 * Len(w)) |-> byte(b)]) = 2 * Len(w)
  BY <1>1, <1>2
<1>4. QED
  BY <1>3 DEF BytesOf, byte

LEMMA GroupInside ==
    ASSUME NEW w \in Seq(Nat), NEW n \in Nat, NEW g \in Nat,
           g * n \in Nat, (g + 1) * n = g * n + n, g * n + n <= Len(w)
    PROVE  \A i \in 1..n : /\ Group(w, g, n)[i] \in Nat
                             /\ Group(w, g, n)[i] = w[g * n + i]
<1> DEFINE m == g * n
<1>1. m \in Nat /\ m + n <= Len(w)
  OBVIOUS
<1>2. Group(w, g, n) = SubSeq(w, m + 1, m + n)
  BY DEF Group
<1> HIDE DEF m
<1>3. TAKE i \in 1..n
<1>4. m + i \in 1..Len(w)
  BY <1>1
<1>5. SubSeq(w, m + 1, m + n)[i] = w[m + i]
  <2>1. /\ m + 1 \in 1..(Len(w) + 1) /\ m + n \in (m + 1) - 1..Len(w)
        /\ i \in 1..((m + n) - (m + 1) + 1)
        /\ (m + 1) + i - 1 = m + i
    BY <1>1
  <2>2. SubSeq(w, m + 1, m + n)[i] = w[(m + 1) + i - 1]
    BY <2>1, SubSeqProperties, SMTT(30)
  <2>3. QED
    BY <2>1, <2>2
<1>6. Group(w, g, n)[i] = w[m + i] /\ w[m + i] \in Nat
  BY <1>2, <1>4, <1>5, ElementOfSeq
<1>7. QED
  BY <1>6 DEF m

LEMMA ShiftPositive == \A i \in 1..9 : Shift[i] \in Nat /\ Shift[i] > 0
<1> SUFFICES ASSUME NEW i \in 1..9
             PROVE  Shift[i] \in Nat /\ Shift[i] > 0
  OBVIOUS
<1>1. i = 1 \/ i = 2 \/ i = 3 \/ i = 4 \/ i = 5 \/ i = 6 \/ i = 7 \/ i = 8 \/ i = 9
  OBVIOUS
<1>2. QED
  BY <1>1 DEF Shift

LEMMA PackedIsInt ==
    ASSUME NEW g, \A i \in 1..8 : g[i] \in Nat, NEW i \in 1..7
    PROVE  PackedWord(g, i) \in Int
<1>1. g[i] \in Nat /\ g[i + 1] \in Nat
  OBVIOUS
<1>2. /\ Shift[10 - i] \in Nat /\ Shift[10 - i] > 0
      /\ Shift[9 - i] \in Nat /\ Shift[9 - i] > 0
      /\ Shift[i] \in Nat
  <2>1. 10 - i \in 1..9 /\ 9 - i \in 1..9 /\ i \in 1..9
    OBVIOUS
  <2>2. QED
    BY <2>1, ShiftPositive
<1> DEFINE high == (g[i] % Shift[10 - i]) - (g[i] % 4)
           low == g[i + 1] \div Shift[9 - i]
<1>3. high \in Int /\ low \in Int
  BY <1>1, <1>2
<1> HIDE DEF high, low
<1>4. high * Shift[i] + low \in Int
  BY <1>2, <1>3
<1>5. QED
  BY <1>4 DEF PackedWord, high, low

LEMMA UnpackedIsInt ==
    ASSUME NEW g, \A i \in 1..7 : g[i] \in Nat, NEW i \in 1..8
    PROVE  UnpackedWord(g, i) \in Int
<1> DEFINE high == IF i = 1 THEN 0 ELSE (g[i - 1] % Shift[i]) * Shift[10 - i]
           low == IF i = 8 THEN 0 ELSE (g[i] \div Shift[i + 1]) * 4
<1>1. high \in Int
  <2>1. CASE i = 1
    BY <2>1
  <2>2. CASE i # 1
    <3>1. g[i - 1] \in Nat /\ i \in 1..9 /\ 10 - i \in 1..9
      BY <2>2
    <3>2. Shift[i] \in Nat /\ Shift[i] > 0 /\ Shift[10 - i] \in Nat
      BY <3>1, ShiftPositive
    <3>3. g[i - 1] % Shift[i] \in Int
      BY <3>1, <3>2
    <3>4. (g[i - 1] % Shift[i]) * Shift[10 - i] \in Int
      BY <3>2, <3>3
    <3>5. QED
      BY <2>2, <3>4
  <2>3. QED
    BY <2>1, <2>2
<1>2. low \in Int
  <2>1. CASE i = 8
    BY <2>1
  <2>2. CASE i # 8
    <3>1. g[i] \in Nat /\ i + 1 \in 1..9
      BY <2>2
    <3>2. Shift[i + 1] \in Nat /\ Shift[i + 1] > 0
      BY <3>1, ShiftPositive
    <3>3. g[i] \div Shift[i + 1] \in Int
      BY <3>1, <3>2
    <3>4. QED
      BY <2>2, <3>3
  <2>3. QED
    BY <2>1, <2>2
<1> HIDE DEF high, low
<1>3. high + low \in Int
  BY <1>1, <1>2
<1>4. QED
  BY <1>3 DEF UnpackedWord, high, low

LEMMA CompressMakesBytes ==
    ASSUME NEW x \in Seq(Byte)
    PROVE  Compress(x) \in Seq(Byte)
<1> DEFINE w == WordsOf(x)
           q == Len(x) \div 16
           word(i) == PackedWord(Group(w, (i - 1) \div 7, 8), ((i - 1) % 7) + 1)
<1>1. w \in Seq(Nat) /\ Len(w) = Len(x) \div 2
  BY WordsAreWords
<1>2. q \in Nat /\ q * 7 \in Nat /\ Len(w) \in Nat /\ 8 * q <= Len(w)
  BY <1>1
<1> HIDE DEF w, q
<1>3. \A i \in 1..(q * 7) : word(i) \in Int
  <2>1. TAKE i \in 1..(q * 7)
  <2> DEFINE g == (i - 1) \div 7
             j == ((i - 1) % 7) + 1
  <2>2. g \in Nat /\ g + 1 <= q /\ j \in 1..7
    BY <1>2
  <2> HIDE DEF g, j
  <2>3. \A k \in 1..8 : Group(w, g, 8)[k] \in Nat
    <3>1. /\ g * 8 \in Nat /\ (g + 1) * 8 = g * 8 + 8
          /\ g * 8 + 8 <= Len(w)
      BY <1>2, <2>2
    <3>2. QED
      BY <1>1, <2>2, <3>1, GroupInside
  <2>4. PackedWord(Group(w, g, 8), j) \in Int
    BY <2>2, <2>3, PackedIsInt
  <2>5. QED
    BY <2>4 DEF g, j
<1> HIDE DEF word
<1>4. [i \in 1..(q * 7) |-> word(i)] \in Seq(Int)
  BY <1>2, <1>3
<1>5. BytesOf([i \in 1..(q * 7) |-> word(i)]) \in Seq(Byte)
  BY <1>4, BytesAreBytes
<1>6. QED
  BY <1>5 DEF Compress, w, q, word

LEMMA DecompressMakesBytes ==
    ASSUME NEW x \in Seq(Byte)
    PROVE  Decompress(x) \in Seq(Byte)
<1> DEFINE w == WordsOf(x)
           q == Len(x) \div 14
           word(i) == UnpackedWord(Group(w, (i - 1) \div 8, 7), ((i - 1) % 8) + 1)
<1>1. w \in Seq(Nat) /\ Len(w) = Len(x) \div 2
  BY WordsAreWords
<1>2. q \in Nat /\ q * 8 \in Nat /\ Len(w) \in Nat /\ 7 * q <= Len(w)
  BY <1>1
<1> HIDE DEF w, q
<1>3. \A i \in 1..(q * 8) : word(i) \in Int
  <2>1. TAKE i \in 1..(q * 8)
  <2> DEFINE g == (i - 1) \div 8
             j == ((i - 1) % 8) + 1
  <2>2. g \in Nat /\ g + 1 <= q /\ j \in 1..8
    BY <1>2
  <2> HIDE DEF g, j
  <2>3. \A k \in 1..7 : Group(w, g, 7)[k] \in Nat
    <3>1. /\ g * 7 \in Nat /\ (g + 1) * 7 = g * 7 + 7
          /\ g * 7 + 7 <= Len(w)
      BY <1>2, <2>2
    <3>2. QED
      BY <1>1, <2>2, <3>1, GroupInside
  <2>4. UnpackedWord(Group(w, g, 7), j) \in Int
    BY <2>2, <2>3, UnpackedIsInt
  <2>5. QED
    BY <2>4 DEF g, j
<1> HIDE DEF word
<1>4. [i \in 1..(q * 8) |-> word(i)] \in Seq(Int)
  BY <1>2, <1>3
<1>5. BytesOf([i \in 1..(q * 8) |-> word(i)]) \in Seq(Byte)
  BY <1>4, BytesAreBytes
<1>6. QED
  BY <1>5 DEF Decompress, w, q, word

LEMMA DownsampleMakesBytes ==
    ASSUME NEW x \in Seq(Byte)
    PROVE  Downsample(x) \in Seq(Byte)
<1> DEFINE n == Len(x)
           byte(b) == IF b > Copied(n) THEN 0
                      ELSE x[b + 4 * (FrameOf(b) \div 7 + 1)]
<1>1. n \in Nat /\ DownsampledSize(n) \in Nat
  BY DEF DownsampledSize
<1> HIDE DEF n
<1>2. \A b \in 1..DownsampledSize(n) : byte(b) \in Byte
  <2>1. TAKE b \in 1..DownsampledSize(n)
  <2>2. CASE b > Copied(n)
    BY <2>2 DEF Byte
  <2>3. CASE ~(b > Copied(n))
    <3>1. b + 4 * (FrameOf(b) \div 7 + 1) \in 1..n
      BY <1>1, <2>3 DEF Copied, Frames, FrameOf
    <3>2. QED
      BY <2>3, <3>1, ElementOfSeq DEF n
  <2>4. QED
    BY <2>2, <2>3
<1> HIDE DEF byte
<1>3. [b \in 1..DownsampledSize(n) |-> byte(b)] \in Seq(Byte)
  BY <1>1, <1>2
<1>4. QED
  BY <1>3 DEF Downsample, n, byte

LEMMA ResampleMakesBytes ==
    ASSUME NEW x \in Seq(Byte)
    PROVE  Resample(x) \in Seq(Byte)
<1> DEFINE n == Len(x)
           byte(b) == IF FrameOf(b) % 8 = 0 THEN 0
                      ELSE x[b - 4 * (FrameOf(b) \div 8 + 1)]
<1>1. n \in Nat /\ ResampledSize(n) \in Nat
  BY DEF ResampledSize
<1> HIDE DEF n
<1>2. \A b \in 1..ResampledSize(n) : byte(b) \in Byte
  <2>1. TAKE b \in 1..ResampledSize(n)
  <2>2. CASE FrameOf(b) % 8 = 0
    BY <2>2 DEF Byte
  <2>3. CASE FrameOf(b) % 8 # 0
    <3>1. b - 4 * (FrameOf(b) \div 8 + 1) \in 1..n
      BY <1>1, <2>3 DEF ResampledSize, FrameOf
    <3>2. QED
      BY <2>3, <3>1, ElementOfSeq DEF n
  <2>4. QED
    BY <2>2, <2>3
<1> HIDE DEF byte
<1>3. [b \in 1..ResampledSize(n) |-> byte(b)] \in Seq(Byte)
  BY <1>1, <1>2
<1>4. QED
  BY <1>3 DEF Resample, n, byte

LEMMA CodingMakesBytes ==
    ASSUME NEW x \in Seq(Byte), NEW quality \in 1..5
    PROVE  Encoded(x, quality) \in Seq(Byte) /\ Decoded(x, quality) \in Seq(Byte)
<1>1. CASE quality = 1
  BY <1>1, CompressMakesBytes, DownsampleMakesBytes, DecompressMakesBytes,
     ResampleMakesBytes DEF Encoded, Decoded
<1>2. CASE quality = 2
  BY <1>2, CompressMakesBytes, DecompressMakesBytes DEF Encoded, Decoded
<1>3. CASE quality \in 3..5
  BY <1>3 DEF Encoded, Decoded
<1>4. QED
  BY <1>1, <1>2, <1>3

LEMMA FlippedIsByte ==
    ASSUME NEW byte \in Byte, NEW k \in 0..7
    PROVE  WithBitFlipped(byte, k) \in Byte
<1>1. byte \in Nat /\ byte <= 255
  BY ByteIsNat
<1>2. k = 0 \/ k = 1 \/ k = 2 \/ k = 3 \/ k = 4 \/ k = 5 \/ k = 6 \/ k = 7
  OBVIOUS
<1>3. ASSUME NEW w \in {1, 2, 4, 8, 16, 32, 64, 128}
      PROVE  (IF (byte \div w) % 2 = 0 THEN byte + w ELSE byte - w) \in 0..255
  BY <1>1
<1> DEFINE b == Bit[k + 1]
<1>4. b \in {1, 2, 4, 8, 16, 32, 64, 128}
  BY <1>2 DEF Bit
<1>5. WithBitFlipped(byte, k) = IF (byte \div b) % 2 = 0 THEN byte + b ELSE byte - b
  BY DEF WithBitFlipped
<1> HIDE DEF b
<1>6. (IF (byte \div b) % 2 = 0 THEN byte + b ELSE byte - b) \in 0..255
  BY <1>3, <1>4
<1>7. QED
  BY <1>5, <1>6, Zenon DEF Byte

LEMMA PairIsSeq ==
    ASSUME NEW a \in Byte, NEW b \in Byte
    PROVE  <<a, b>> \in Seq(Byte) /\ Len(<<a, b>>) = 2
OBVIOUS

LEMMA ConcatAt ==
    \A x, y \in Seq(Byte) :
        /\ Len(x \o y) = Len(x) + Len(y)
        /\ \A i \in 1..(Len(x) + Len(y)) :
              (x \o y)[i] = IF i <= Len(x) THEN x[i] ELSE y[i - Len(x)]
<1> SUFFICES ASSUME NEW x \in Seq(Byte), NEW y \in Seq(Byte)
             PROVE  /\ Len(x \o y) = Len(x) + Len(y)
                    /\ \A i \in 1..(Len(x) + Len(y)) :
                          (x \o y)[i] = IF i <= Len(x) THEN x[i] ELSE y[i - Len(x)]
  OBVIOUS
<1>1. Len(x) \in Nat /\ Len(y) \in Nat
  OBVIOUS
<1>2. Len(x \o y) = Len(x) + Len(y)
  OBVIOUS
<1>3. ASSUME NEW i \in 1..(Len(x) + Len(y))
      PROVE  (x \o y)[i] = IF i <= Len(x) THEN x[i] ELSE y[i - Len(x)]
  BY <1>1
<1>4. QED
  BY <1>2, <1>3

LEMMA ConcatIsSeq ==
    \A x, y \in Seq(Byte) :
        x \o y \in Seq(Byte) /\ Len(x \o y) = Len(x) + Len(y)
BY ConcatProperties

-----------------------------------------------------------------------------
(***************************************************************************)
(* The invariant of a packet's way.                                        *)
(***************************************************************************)
PacketInv ==
    /\ SumInv
    /\ packet \in Packets /\ pc \in Pcs
    /\ data \in Seq(Byte) /\ wire \in Seq(Byte) /\ sent \in Seq(Byte)
    /\ flipped \in SUBSET Nat
    /\ pc \in {"underway", "testHeader", "testData", "decode", "accepted", "faulty"}
          => Len(wire) >= 8
    /\ pc = "sumHeader" => Len(wire) = 6

LEMMA PacketBounds ==
    \A p \in Packets : /\ p.flags \in Byte /\ p.nr \in Byte
                       /\ p.quality \in 1..5 /\ p.music \in Seq(Byte)
BY PacketAssumption DEF PacketAssumption

LEMMA InitMeetsPacketInv == Init => PacketInv /\ F!Init
<1> SUFFICES ASSUME Init
             PROVE  PacketInv /\ F!Init
  OBVIOUS
<1>1. /\ buf = <<>> /\ pos = 0 /\ sum1 = 255 /\ sum2 = 255
      /\ Len(buf) = 0 /\ buf \in Seq(Byte)
  BY DEF Init
<1>2. Folded(255, 255) /\ WithinBlock(0, 255, 255)
  BY FoldedFits DEF Folded
<1>3. SumInv
  BY <1>1, <1>2 DEF SumInv, Block
<1>4. F!Init
  <2>1. <<sum1 % 255, sum2 % 255>> = <<0, 0>>
    BY <1>1
  <2>2. QED
    BY <1>1, <2>1 DEF F!Init
<1>5. packet.music \in Seq(Byte)
  BY PacketBounds DEF Init
<1>6. QED
  BY <1>3, <1>4, <1>5 DEF Init, PacketInv, Pcs

LEMMA NextKeepsPacketInv ==
    ASSUME PacketInv, [Next]_vars
    PROVE  PacketInv' /\ [F!Next]_(F!vars)
<1>0. /\ wire \in Seq(Byte) /\ data \in Seq(Byte)
      /\ Len(wire) \in Nat /\ Len(data) \in Nat
      /\ \A i \in 1..Len(wire) : wire[i] \in Byte
  <2>1. wire \in Seq(Byte) /\ data \in Seq(Byte)
    BY DEF PacketInv
  <2>2. QED
    BY <2>1, ElementOfSeq
<1>1. CASE Add
  <2>1. SumInv' /\ F!Add
    BY <1>1, AddByteAdds DEF Add, PacketInv
  <2>2. PacketInv'
    BY <1>1, <2>1 DEF Add, PacketInv
  <2>3. QED
    BY <2>1, <2>2 DEF F!Next
<1>2. CASE Encode
  <2>1. data' \in Seq(Byte) /\ Start(data')
    BY <1>2, CodingMakesBytes, PacketBounds DEF Encode, PacketInv
  <2>2. SumInv' /\ F!Begin
    BY <2>1, StartBegins
  <2>3. PacketInv'
    BY <1>2, <2>1, <2>2 DEF Encode, PacketInv, Pcs
  <2>4. QED
    BY <2>2, <2>3 DEF F!Next
<1>3. CASE SumData
  <2>1. Result \in Seq(Byte) /\ Len(Result) = 2
    BY <1>3, ResultIsCheck DEF SumData, PacketInv
  <2> DEFINE header == SizeField(Len(data)) \o <<packet.flags, packet.nr>> \o Result
  <2>2. header \in Seq(Byte) /\ Len(header) = 6
    <3>1. Len(data) \in Int /\ Len(data) \div 256 \in Int
      BY <1>0
    <3>2. Len(data) % 256 \in Byte /\ (Len(data) \div 256) % 256 \in Byte
      BY <3>1, LowByte
    <3>3. SizeField(Len(data)) \in Seq(Byte) /\ Len(SizeField(Len(data))) = 2
      BY <3>2, PairIsSeq DEF SizeField
    <3>4. /\ <<packet.flags, packet.nr>> \in Seq(Byte)
          /\ Len(<<packet.flags, packet.nr>>) = 2
      BY PacketBounds, PairIsSeq DEF PacketInv
    <3> DEFINE front == SizeField(Len(data)) \o <<packet.flags, packet.nr>>
    <3>5. front \in Seq(Byte)
          /\ Len(front) = Len(SizeField(Len(data))) + Len(<<packet.flags, packet.nr>>)
      BY <3>3, <3>4, ConcatIsSeq
    <3> HIDE DEF front
    <3>6. front \o Result \in Seq(Byte)
          /\ Len(front \o Result) = Len(front) + Len(Result)
      BY <2>1, <3>5, ConcatIsSeq
    <3>7. Len(front \o Result) = 6
      BY <2>1, <3>3, <3>4, <3>5, <3>6
    <3>8. QED
      BY <3>6, <3>7 DEF front
  <2>3. wire' = header /\ Start(header)
    BY <1>3 DEF SumData
  <2> HIDE DEF header
  <2>4. SumInv' /\ F!Begin
    BY <2>2, <2>3, StartBegins
  <2>5. PacketInv'
    BY <1>3, <2>2, <2>3, <2>4 DEF SumData, PacketInv, Pcs
  <2>6. QED
    BY <2>4, <2>5 DEF F!Next
<1>4. CASE Send
  <2>1. Result \in Seq(Byte) /\ Len(Result) = 2 /\ Len(wire) = 6
    BY <1>4, ResultIsCheck DEF Send, PacketInv
  <2>2. sent' = Result \o wire \o data /\ wire' = sent'
    BY <1>4 DEF Send
  <2>3. Result \o wire \in Seq(Byte)
        /\ Len(Result \o wire) = Len(Result) + Len(wire)
    BY <1>0, <2>1, ConcatIsSeq
  <2>4. sent' \in Seq(Byte) /\ Len(sent') >= 8
    <3>1. sent' \in Seq(Byte) /\ Len(sent') = Len(Result \o wire) + Len(data)
      BY <1>0, <2>2, <2>3, ConcatIsSeq
    <3>2. QED
      BY <1>0, <2>1, <2>3, <3>1
  <2>5. UNCHANGED sumVars /\ SumInv'
    BY <1>4 DEF Send, sumVars, PacketInv, SumInv, Summed
  <2>6. PacketInv'
    BY <1>4, <2>2, <2>4, <2>5 DEF Send, PacketInv, Pcs
  <2>7. QED
    BY <2>5, <2>6 DEF sumVars, F!vars
<1>5. CASE Flip
  <2>1. PICK i \in packet.mayFlip \cap (1..Len(wire)), k \in 0..7 :
            /\ flipped' = flipped \cup {8 * (i - 1) + k}
            /\ wire' = [wire EXCEPT ![i] = WithBitFlipped(wire[i], k)]
    BY <1>5 DEF Flip
  <2>2. i \in Nat /\ i > 0 /\ i \in 1..Len(wire) /\ wire[i] \in Byte
    BY <1>0
  <2>3. wire' \in Seq(Byte) /\ Len(wire') = Len(wire)
    <3>1. WithBitFlipped(wire[i], k) \in Byte
      BY <2>2, FlippedIsByte
    <3>2. QED
      BY <1>0, <2>1, <2>2, <3>1, ExceptSeq
  <2>4. flipped' \in SUBSET Nat
    <3>1. 8 * (i - 1) + k \in Nat
      BY <2>2
    <3>2. QED
      BY <2>1, <3>1 DEF PacketInv
  <2>5. UNCHANGED sumVars /\ SumInv'
    BY <1>5 DEF Flip, sumVars, PacketInv, SumInv, Summed
  <2>6. PacketInv'
    BY <1>5, <2>3, <2>4, <2>5 DEF Flip, PacketInv
  <2>7. QED
    BY <2>5, <2>6 DEF sumVars, F!vars
<1>6. CASE Receive
  <2>1. Header(wire) \in Seq(Byte)
    <3>1. \A i \in 3..8 : wire[i] \in Byte
      <4>1. Len(wire) >= 8
        BY <1>6 DEF Receive, PacketInv
      <4>2. QED
        BY <1>0, <4>1
    <3>2. QED
      BY <3>1, SubSeqProperties DEF Header
  <2>2. SumInv' /\ F!Begin
    BY <1>6, <2>1, StartBegins DEF Receive
  <2>3. PacketInv'
    BY <1>6, <2>2 DEF Receive, PacketInv, Pcs
  <2>4. QED
    BY <2>2, <2>3 DEF F!Next
<1>7. CASE TestHeader
  <2>1. CASE Result = SubSeq(wire, 1, 2)
    <3>1. PICK rest \in [1..(8 + SizeOf(wire) - Len(wire)) -> Leftover] :
              Start(SubSeq(wire \o rest, 9, 8 + SizeOf(wire)))
      BY <1>7, <2>1 DEF TestHeader
    <3> DEFINE n == 8 + SizeOf(wire) - Len(wire)
               bytes == SubSeq(wire \o rest, 9, 8 + SizeOf(wire))
    <3>2. /\ Len(wire) \in Nat /\ Len(wire) >= 8 /\ wire \in Seq(Byte)
          /\ wire[3] \in Nat /\ wire[4] \in Nat
      <4>1. Len(wire) >= 8
        BY <1>7 DEF TestHeader, PacketInv
      <4>2. QED
        BY <1>0, <4>1, ByteIsNat
    <3>3. SizeOf(wire) \in Nat /\ n \in Int
      BY <3>2 DEF SizeOf
    <3>4. rest \in Seq(Byte) /\ Len(rest) = IF n > 0 THEN n ELSE 0
      <4>1. CASE n > 0
        BY <3>3, <4>1, LeftoverAssumption
      <4>2. CASE ~(n > 0)
        BY <3>3, <4>2, EmptySeq
      <4>3. QED
        BY <4>1, <4>2
    <3>5. /\ wire \o rest \in Seq(Byte)
          /\ Len(wire \o rest) = Len(wire) + Len(rest)
      BY <3>2, <3>4, ConcatIsSeq
    <3>6. \A i \in 9..(8 + SizeOf(wire)) : i \in 1..Len(wire \o rest)
      BY <3>2, <3>3, <3>4, <3>5
    <3>7. bytes \in Seq(Byte)
      BY <3>3, <3>5, <3>6, ElementOfSeq, SubSeqProperties
    <3> HIDE DEF bytes
    <3>8. SumInv' /\ F!Begin
      BY <3>1, <3>7, StartBegins DEF bytes
    <3>9. PacketInv'
      BY <1>7, <2>1, <3>8 DEF TestHeader, PacketInv, Pcs
    <3>10. QED
      BY <3>8, <3>9 DEF F!Next
  <2>2. CASE Result # SubSeq(wire, 1, 2)
    <3>1. UNCHANGED sumVars /\ SumInv'
      BY <1>7, <2>2 DEF TestHeader, sumVars, PacketInv, SumInv, Summed
    <3>2. PacketInv'
      BY <1>7, <2>2, <3>1 DEF TestHeader, PacketInv, Pcs
    <3>3. QED
      BY <3>1, <3>2 DEF sumVars, F!vars
  <2>3. QED
    BY <2>1, <2>2
<1>8. CASE TestData
  <2>1. UNCHANGED sumVars /\ SumInv'
    BY <1>8 DEF TestData, sumVars, PacketInv, SumInv, Summed
  <2>2. data' \in Seq(Byte) /\ pc' \in {"decode", "faulty"}
    BY <1>8 DEF TestData, PacketInv, SumInv
  <2>3. PacketInv'
    BY <1>8, <2>1, <2>2 DEF TestData, PacketInv, Pcs
  <2>4. QED
    BY <2>1, <2>3 DEF sumVars, F!vars
<1>9. CASE Decode
  <2>1. UNCHANGED sumVars /\ SumInv'
    BY <1>9 DEF Decode, sumVars, PacketInv, SumInv, Summed
  <2>2. data' \in Seq(Byte)
    <3>1. data \in Seq(Byte) /\ packet.quality \in 1..5
          /\ data' = Decoded(data, packet.quality)
      BY <1>9, PacketBounds DEF Decode, PacketInv
    <3>2. QED
      BY <3>1, CodingMakesBytes, SMTT(30)
  <2>3. PacketInv'
    BY <1>9, <2>1, <2>2 DEF Decode, PacketInv, Pcs
  <2>4. QED
    BY <2>1, <2>3 DEF sumVars, F!vars
<1>10. CASE UNCHANGED vars
  <2>1. UNCHANGED sumVars /\ SumInv'
    BY <1>10 DEF vars, sumVars, PacketInv, SumInv, Summed
  <2>2. PacketInv'
    BY <1>10, <2>1 DEF vars, PacketInv
  <2>3. QED
    BY <2>1, <2>2 DEF sumVars, F!vars
<1>11. QED
  BY <1>1, <1>2, <1>3, <1>4, <1>5, <1>6, <1>7, <1>8, <1>9, <1>10 DEF Next, Over

LEMMA PacketInvGivesProperties ==
    ASSUME PacketInv
    PROVE  TypeOK /\ ChecksumIsFletcher /\ CopiesStayInside
<1>1. sum1 \in Nat /\ sum1 < WordSize /\ sum2 \in Nat /\ sum2 < WordSize
  <2> DEFINE k == pos % Block
  <2>1. pos \in Nat /\ WithinBlock(k, sum1, sum2)
    <3>1. buf \in Seq(Byte) /\ pos \in 0..Len(buf)
      BY DEF PacketInv, SumInv
    <3>2. WithinBlock(pos % Block, sum1, sum2)
      BY DEF PacketInv, SumInv
    <3>3. QED
      BY <3>1, <3>2
  <2>2. k \in 0..19
    BY <2>1 DEF Block
  <2> HIDE DEF k
  <2>3. sum1 \in Nat /\ sum2 \in Nat
    BY <2>1 DEF WithinBlock
  <2>4. sum1 + 0 <= 5376 /\ sum2 + (sum1 + 0) <= 59557
    <3>1. 0 \in Byte /\ k \in 0..19 /\ WithinBlock(k, sum1, sum2)
      BY <2>1, <2>2 DEF Byte
    <3>2. QED
      BY <3>1, ByteKeepsBounds, SMTT(30)
  <2>5. QED
    BY <2>3, <2>4 DEF WordSize
<1>2. TypeOK
  <2>1. SumTypeOK
    BY <1>1, Zenon DEF PacketInv, SumInv, SumTypeOK
  <2>2. QED
    BY <2>1, Zenon DEF PacketInv, TypeOK
<1>3. ChecksumIsFletcher
  BY ResultIsCheck DEF PacketInv, ChecksumIsFletcher
<1>4. \A n \in Nat : Copied(n) <= Allocated(DownsampledSize(n))
  BY DEF Copied, Frames, Allocated, DownsampledSize
<1>5. \A n \in Nat : Copied(ResampledSize(n)) <= n
  BY DEF Copied, Frames, ResampledSize
<1>6. Len(data) \in Nat /\ Len(Decompress(data)) \in Nat
  <2>1. data \in Seq(Byte)
    BY DEF PacketInv
  <2>2. Decompress(data) \in Seq(Byte)
    BY <2>1, DecompressMakesBytes
  <2>3. QED
    BY <2>1, <2>2, LenProperties
<1>7. CopiesStayInside
  BY <1>4, <1>5, <1>6 DEF CopiesStayInside
<1>8. QED
  BY <1>2, <1>3, <1>7

-----------------------------------------------------------------------------
LEMMA PacketInvHolds == Spec => []PacketInv
<1>1. Init => PacketInv
  BY InitMeetsPacketInv
<1>2. PacketInv /\ [Next]_vars => PacketInv'
  BY NextKeepsPacketInv
<1>3. QED
  BY <1>1, <1>2, PTL DEF Spec

(***************************************************************************)
(* generate_16bit_fletcher and the path of a packet keep to their types:   *)
(* the two sums never outgrow uint16_t, what a datagram carries are bytes. *)
(***************************************************************************)
THEOREM PacketTypesHold == Spec => []TypeOK
<1>1. PacketInv => TypeOK
  BY PacketInvGivesProperties
<1>2. QED
  BY <1>1, PacketInvHolds, PTL

(***************************************************************************)
(* The loop of checksum.c, with its 16-bit sums and its blocks of 20,      *)
(* implements Fletcher's sums modulo 255, for every content and length.    *)
(***************************************************************************)
THEOREM LoopImplementsFletcher == Spec => SumsAreFletchers
<1>1. Init => F!Init
  BY InitMeetsPacketInv
<1>2. PacketInv /\ [Next]_vars => [F!Next]_(F!vars)
  BY NextKeepsPacketInv
<1>3. QED
  BY <1>1, <1>2, PacketInvHolds, PTL DEF Spec, SumsAreFletchers, F!Spec

(***************************************************************************)
(* The two bytes put into the header, and compared on arrival, are those   *)
(* sums, folded to a byte each.                                            *)
(***************************************************************************)
THEOREM ChecksumHolds == Spec => []ChecksumIsFletcher
<1>1. PacketInv => ChecksumIsFletcher
  BY PacketInvGivesProperties
<1>2. QED
  BY <1>1, PacketInvHolds, PTL

(***************************************************************************)
(* downsample and resample stay inside what malloc gives them, for a       *)
(* packet of any length.                                                   *)
(***************************************************************************)
THEOREM CopiesHold == Spec => []CopiesStayInside
<1>1. PacketInv => CopiesStayInside
  BY PacketInvGivesProperties
<1>2. QED
  BY <1>1, PacketInvHolds, PTL

-----------------------------------------------------------------------------
(***************************************************************************)
(* Packing: of a word and the one after it, the packed word keeps all but  *)
(* the two low bits of what the one before left of the first, and as many  *)
(* of the second's high bits as fit.                                       *)
(***************************************************************************)
IsWord(v) == v \in Nat /\ v < WordSize

PacksWell(a, b, t, s, r, q) ==
    LET p == ((a % t) - (a % 4)) * s + b \div r
    IN  /\ IsWord(p)
        /\ p % q = b \div r
        /\ (p \div q) * 4 = (a % t) - (a % 4)

LEMMA EachPacksWell ==
    ASSUME NEW a, NEW b, IsWord(a), IsWord(b)
    PROVE  /\ PacksWell(a, b, 65536, 1, 16384, 4)
           /\ PacksWell(a, b, 16384, 4, 4096, 16)
           /\ PacksWell(a, b, 4096, 16, 1024, 64)
           /\ PacksWell(a, b, 1024, 64, 256, 256)
           /\ PacksWell(a, b, 256, 256, 64, 1024)
           /\ PacksWell(a, b, 64, 1024, 16, 4096)
           /\ PacksWell(a, b, 16, 4096, 4, 16384)
<1>1. PacksWell(a, b, 65536, 1, 16384, 4)
  BY SMT DEF PacksWell, IsWord, WordSize
<1>2. PacksWell(a, b, 16384, 4, 4096, 16)
  BY SMT DEF PacksWell, IsWord, WordSize
<1>3. PacksWell(a, b, 4096, 16, 1024, 64)
  BY SMT DEF PacksWell, IsWord, WordSize
<1>4. PacksWell(a, b, 1024, 64, 256, 256)
  BY SMT DEF PacksWell, IsWord, WordSize
<1>5. PacksWell(a, b, 256, 256, 64, 1024)
  BY SMT DEF PacksWell, IsWord, WordSize
<1>6. PacksWell(a, b, 64, 1024, 16, 4096)
  BY SMT DEF PacksWell, IsWord, WordSize
<1>7. PacksWell(a, b, 16, 4096, 4, 16384)
  BY SMT DEF PacksWell, IsWord, WordSize
<1>8. QED
  BY <1>1, <1>2, <1>3, <1>4, <1>5, <1>6, <1>7

LEMMA PackedHalves ==
    ASSUME NEW g, NEW i \in 1..7, IsWord(g[i]), IsWord(g[i + 1])
    PROVE  PacksWell(g[i], g[i + 1], Shift[10 - i], Shift[i], Shift[9 - i], Shift[i + 1])
<1>1. i = 1 \/ i = 2 \/ i = 3 \/ i = 4 \/ i = 5 \/ i = 6 \/ i = 7
  OBVIOUS
<1>2. QED
  BY <1>1, EachPacksWell DEF Shift

(***************************************************************************)
(* What unpacking puts together again.                                     *)
(***************************************************************************)
Powers == {1, 4, 16, 64, 256, 1024, 4096, 16384}

LEMMA EachJoins ==
    \A a : IsWord(a) => \A r \in Powers :
        /\ (a \div r) * r \in Int /\ a % r \in Int /\ a % 4 \in Int
        /\ (a \div r) * r + (a % r) = a
BY DEF IsWord, Powers

LEMMA UnpackingUndoesPacking ==
    ASSUME NEW g, \A k \in 1..8 : IsWord(g[k]),
           NEW p, \A k \in 1..7 : p[k] = PackedWord(g, k),
           NEW j \in 1..8
    PROVE  UnpackedWord(p, j) = g[j] - (g[j] % 4)
<1> DEFINE a == g[j]
           high == IF j = 1 THEN 0 ELSE (p[j - 1] % Shift[j]) * Shift[10 - j]
           low == IF j = 8 THEN 0 ELSE (p[j] \div Shift[j + 1]) * 4
<1>1. IsWord(a) /\ a \in Nat /\ a < 65536
  BY DEF IsWord, WordSize
<1>2. ASSUME NEW i \in 1..7
      PROVE  /\ p[i] % Shift[i + 1] = g[i + 1] \div Shift[9 - i]
             /\ (p[i] \div Shift[i + 1]) * 4
                   = (g[i] % Shift[10 - i]) - (g[i] % 4)
  <2>1. p[i] = PackedWord(g, i)
    BY <1>2
  <2>2. PacksWell(g[i], g[i + 1], Shift[10 - i], Shift[i], Shift[9 - i], Shift[i + 1])
    <3>1. IsWord(g[i]) /\ IsWord(g[i + 1])
      BY <1>2
    <3>2. QED
      BY <1>2, <3>1, PackedHalves
  <2>3. QED
    BY <2>1, <2>2 DEF PacksWell, PackedWord
<1>3. ASSUME j # 1
      PROVE  high = (a \div Shift[10 - j]) * Shift[10 - j]
  <2>1. j - 1 \in 1..7 /\ (j - 1) + 1 = j /\ 9 - (j - 1) = 10 - j
    BY <1>3
  <2>2. p[j - 1] % Shift[(j - 1) + 1] = g[(j - 1) + 1] \div Shift[9 - (j - 1)]
    BY <1>2, <2>1
  <2>3. QED
    BY <1>3, <2>1, <2>2
<1>4. ASSUME j # 8
      PROVE  low = (a % Shift[10 - j]) - (a % 4)
  <2>1. j \in 1..7
    BY <1>4
  <2>2. QED
    BY <1>2, <1>4, <2>1
<1>5. UnpackedWord(p, j) = high + low
  BY DEF UnpackedWord
<1>6. CASE j = 1
  <2>1. high = 0 /\ low = (a % 65536) - (a % 4)
    BY <1>4, <1>6 DEF Shift
  <2>2. a % 65536 = a
    BY <1>1
  <2> HIDE DEF a, high, low
  <2>3. high + low = a - (a % 4)
    BY <1>1, <2>1, <2>2
  <2>4. QED
    BY <1>5, <2>3 DEF a
<1>7. CASE j = 8
  <2>1. high = (a \div 4) * 4 /\ low = 0
    BY <1>3, <1>7 DEF Shift
  <2> HIDE DEF a, high, low
  <2>2. high + low = a - (a % 4)
    BY <1>1, <2>1
  <2>3. QED
    BY <1>5, <2>2 DEF a
<1>8. CASE j # 1 /\ j # 8
  <2> DEFINE r == Shift[10 - j]
  <2>1. r \in Powers
    <3>1. j = 2 \/ j = 3 \/ j = 4 \/ j = 5 \/ j = 6 \/ j = 7
      BY <1>8
    <3>2. QED
      BY <3>1 DEF Shift, Powers
  <2>2. high = (a \div r) * r /\ low = (a % r) - (a % 4)
    BY <1>3, <1>4, <1>8
  <2> HIDE DEF r
  <2> DEFINE u == (a \div r) * r
             v == a % r
             w == a % 4
  <2>3. IsWord(a)
    BY <1>1
  <2>4. u \in Int /\ v \in Int /\ w \in Int /\ u + v = a
    <3> HIDE DEF a
    <3> QED
      BY <2>1, <2>3, EachJoins, Zenon
  <2>5. high = u /\ low = v - w
    BY <2>2
  <2>6. high + low = u + (v - w)
    BY <2>5
  <2> HIDE DEF a, high, low, u, v, w
  <2>7. high + low = a - w
    BY <2>4, <2>6
  <2>8. QED
    BY <1>5, <2>7 DEF a, w
<1>9. QED
  BY <1>6, <1>7, <1>8

LEMMA WordAt ==
    ASSUME NEW x \in Seq(Byte), NEW i \in 1..(Len(x) \div 2)
    PROVE  /\ WordsOf(x)[i] = x[2 * i - 1] + 256 * x[2 * i]
           /\ IsWord(WordsOf(x)[i])
<1>1. Len(x) \in Nat
  OBVIOUS
<1>2. 2 * i - 1 \in 1..Len(x) /\ 2 * i \in 1..Len(x)
  BY <1>1
<1>3. x[2 * i - 1] \in Byte /\ x[2 * i] \in Byte
  BY <1>2, ElementOfSeq
<1>4. \A lo, hi \in Byte : IsWord(lo + 256 * hi)
  BY DEF Byte, IsWord, WordSize
<1>5. WordsOf(x)[i] = x[2 * i - 1] + 256 * x[2 * i]
  BY DEF WordsOf
<1>6. QED
  BY <1>3, <1>4, <1>5

(***************************************************************************)
(* Words put into memory and read again are the same.                      *)
(***************************************************************************)
LEMMA BytesAt ==
    ASSUME NEW w \in Seq(Int), NEW i \in 1..Len(w)
    PROVE  /\ BytesOf(w)[2 * i - 1] = w[i] % 256
           /\ BytesOf(w)[2 * i] = (w[i] \div 256) % 256
<1>1. Len(w) \in Nat
  OBVIOUS
<1>2. /\ 2 * i - 1 \in 1..(2 * Len(w)) /\ 2 * i \in 1..(2 * Len(w))
      /\ (2 * i - 1) % 2 = 1 /\ (2 * i) % 2 # 1
      /\ ((2 * i - 1) + 1) \div 2 = i /\ (2 * i) \div 2 = i
  BY <1>1
<1>3. QED
  BY <1>2 DEF BytesOf

LEMMA WordsComeBack ==
    ASSUME NEW w \in Seq(Int), NEW i \in 1..Len(w), IsWord(w[i])
    PROVE  WordsOf(BytesOf(w))[i] = w[i]
<1>1. BytesOf(w) \in Seq(Byte) /\ Len(BytesOf(w)) = 2 * Len(w)
  BY BytesAreBytes
<1>2. Len(w) \in Nat /\ i \in 1..(Len(BytesOf(w)) \div 2)
  BY <1>1
<1>3. WordsOf(BytesOf(w))[i] = (w[i] % 256) + 256 * ((w[i] \div 256) % 256)
  <2> DEFINE c == BytesOf(w)
  <2>1. c \in Seq(Byte) /\ i \in 1..(Len(c) \div 2)
    BY <1>1, <1>2
  <2>2. c[2 * i - 1] = w[i] % 256 /\ c[2 * i] = (w[i] \div 256) % 256
    BY BytesAt
  <2> HIDE DEF c
  <2>3. WordsOf(c)[i] = c[2 * i - 1] + 256 * c[2 * i]
    BY <2>1, WordAt
  <2>4. QED
    BY <2>2, <2>3 DEF c
<1>4. \A v : IsWord(v) => (v % 256) + 256 * ((v \div 256) % 256) = v
  BY DEF IsWord, WordSize
<1>5. QED
  BY <1>3, <1>4

(***************************************************************************)
(* Of a word whose two low bits are gone: its bytes.                       *)
(***************************************************************************)
LEMMA LowBitsGone ==
    \A lo, hi \in Byte :
        LET v == lo + 256 * hi
        IN  /\ (v - (v % 4)) % 256 = lo - (lo % 4)
            /\ ((v - (v % 4)) \div 256) % 256 = hi
            /\ v - (v % 4) \in Int
BY DEF Byte

(***************************************************************************)
(* The words of a packed packet, and of the packet unpacked.               *)
(***************************************************************************)
GroupOfWords(x, g) ==
    \A k \in 1..8 : /\ Group(WordsOf(x), g, 8)[k] = WordsOf(x)[8 * g + k]
                    /\ 8 * g + k \in 1..(Len(x) \div 2)
                    /\ IsWord(WordsOf(x)[8 * g + k])

LEMMA GroupsAreWords ==
    ASSUME NEW x \in Seq(Byte), NEW g \in Nat, g + 1 <= Len(x) \div 16
    PROVE  GroupOfWords(x, g)
<1>1. Len(x) \in Nat /\ WordsOf(x) \in Seq(Nat) /\ Len(WordsOf(x)) = Len(x) \div 2
  BY WordsAreWords
<1>2. /\ g * 8 \in Nat /\ (g + 1) * 8 = g * 8 + 8 /\ g * 8 = 8 * g
      /\ g * 8 + 8 <= Len(WordsOf(x))
  BY <1>1
<1>3. \A k \in 1..8 : Group(WordsOf(x), g, 8)[k] = WordsOf(x)[g * 8 + k]
  <2> DEFINE w == WordsOf(x)
  <2>1. w \in Seq(Nat) /\ g * 8 + 8 <= Len(w)
    BY <1>1, <1>2
  <2> HIDE DEF w
  <2>2. \A k \in 1..8 : Group(w, g, 8)[k] = w[g * 8 + k]
    BY <1>2, <2>1, GroupInside, SMTT(30)
  <2>3. QED
    BY <2>2 DEF w
<1>4. \A k \in 1..8 : 8 * g + k \in 1..(Len(x) \div 2)
  BY <1>1, <1>2
<1>5. \A k \in 1..8 : IsWord(WordsOf(x)[8 * g + k])
  BY <1>4, WordAt, ZenonT(30)
<1>6. QED
  BY <1>2, <1>3, <1>4, <1>5 DEF GroupOfWords

LEMMA PackedWords ==
    ASSUME NEW x \in Seq(Byte)
    PROVE  /\ Compress(x) \in Seq(Byte)
           /\ Len(Compress(x)) = 14 * (Len(x) \div 16)
           /\ \A g \in Nat : g + 1 <= Len(x) \div 16 => \A k \in 1..7 :
                  WordsOf(Compress(x))[7 * g + k]
                     = PackedWord(Group(WordsOf(x), g, 8), k)
<1> DEFINE q == Len(x) \div 16
           word(i) == PackedWord(Group(WordsOf(x), (i - 1) \div 7, 8), ((i - 1) % 7) + 1)
           pw == [i \in 1..(q * 7) |-> word(i)]
<1>1. Compress(x) = BytesOf(pw)
  BY DEF Compress
<1>2. q \in Nat /\ q * 7 \in Nat
  OBVIOUS
<1> HIDE DEF q
<1>3. ASSUME NEW g \in Nat, g + 1 <= q, NEW k \in 1..7
      PROVE  /\ 7 * g + k \in 1..(q * 7)
             /\ word(7 * g + k) = PackedWord(Group(WordsOf(x), g, 8), k)
             /\ IsWord(PackedWord(Group(WordsOf(x), g, 8), k))
  <2>1. 7 * g + k \in 1..(q * 7)
    BY <1>2, <1>3
  <2>2. ((7 * g + k) - 1) \div 7 = g /\ (((7 * g + k) - 1) % 7) + 1 = k
    BY <1>3
  <2>3. GroupOfWords(x, g)
    BY <1>3, GroupsAreWords DEF q
  <2>4. /\ IsWord(Group(WordsOf(x), g, 8)[k])
        /\ IsWord(Group(WordsOf(x), g, 8)[k + 1])
    <3>1. k \in 1..8 /\ k + 1 \in 1..8
      BY <1>3
    <3>2. QED
      BY <2>3, <3>1 DEF GroupOfWords
  <2>5. IsWord(PackedWord(Group(WordsOf(x), g, 8), k))
    BY <2>4, PackedHalves DEF PacksWell, PackedWord
  <2>6. QED
    BY <2>1, <2>2, <2>5
<1>4. \A i \in 1..(q * 7) : word(i) \in Int
  <2>1. TAKE i \in 1..(q * 7)
  <2> DEFINE g == (i - 1) \div 7
             k == ((i - 1) % 7) + 1
  <2>2. g \in Nat /\ g + 1 <= q /\ k \in 1..7
    BY <1>2
  <2>3. word(i) = PackedWord(Group(WordsOf(x), g, 8), k)
    OBVIOUS
  <2> HIDE DEF g, k
  <2>4. IsWord(PackedWord(Group(WordsOf(x), g, 8), k))
    BY <1>3, <2>2
  <2>5. QED
    BY <2>3, <2>4 DEF IsWord
<1> HIDE DEF word
<1>5. pw \in Seq(Int) /\ Len(pw) = q * 7
  BY <1>2, <1>4
<1>6. Compress(x) \in Seq(Byte) /\ Len(Compress(x)) = 2 * (q * 7)
  BY <1>1, <1>5, BytesAreBytes
<1>7. ASSUME NEW g \in Nat, g + 1 <= q, NEW k \in 1..7
      PROVE  WordsOf(Compress(x))[7 * g + k]
                = PackedWord(Group(WordsOf(x), g, 8), k)
  <2>1. pw[7 * g + k] = PackedWord(Group(WordsOf(x), g, 8), k)
    BY <1>3, <1>7
  <2>2. IsWord(pw[7 * g + k]) /\ 7 * g + k \in 1..Len(pw)
    BY <1>3, <1>5, <1>7, <2>1
  <2> HIDE DEF pw
  <2>3. WordsOf(BytesOf(pw))[7 * g + k] = pw[7 * g + k]
    BY <1>5, <2>2, WordsComeBack
  <2>4. QED
    BY <1>1, <2>1, <2>3
<1>8. 2 * (q * 7) = 14 * q
  BY <1>2
<1>9. QED
  BY <1>6, <1>7, <1>8 DEF q

(***************************************************************************)
(* decompress undoes compress, but for the two low bits of each word and   *)
(* for what is less than a group.                                          *)
(***************************************************************************)
LEMMA PackingRoundTrip ==
    ASSUME NEW x \in Seq(Byte)
    PROVE  LET y == Decompress(Compress(x))
           IN  /\ y \in Seq(Byte)
               /\ Len(y) = 16 * (Len(x) \div 16)
               /\ \A b \in 1..Len(y) : y[b] = WithoutLowBits(x, b)
<1> DEFINE q == Len(x) \div 16
           c == Compress(x)
           word(i) == UnpackedWord(Group(WordsOf(c), (i - 1) \div 8, 7), ((i - 1) % 8) + 1)
           uw == [i \in 1..(q * 8) |-> word(i)]
           y == Decompress(c)
<1>1. c \in Seq(Byte) /\ Len(c) = 14 * q
  BY PackedWords
<1>2. q \in Nat /\ q * 8 \in Nat /\ Len(x) \in Nat /\ 16 * q <= Len(x)
  OBVIOUS
<1>3. \A g \in Nat : g + 1 <= q => \A k \in 1..7 :
          WordsOf(c)[7 * g + k] = PackedWord(Group(WordsOf(x), g, 8), k)
  BY PackedWords
<1>4. WordsOf(c) \in Seq(Nat) /\ Len(WordsOf(c)) = 7 * q
  <2>1. WordsOf(c) \in Seq(Nat) /\ Len(WordsOf(c)) = Len(c) \div 2
    BY <1>1, WordsAreWords
  <2>2. (14 * q) \div 2 = 7 * q
    BY <1>2
  <2>3. QED
    BY <1>1, <2>1, <2>2
<1>5. y = BytesOf(uw)
  <2>1. Len(c) \div 14 = q
    BY <1>1, <1>2
  <2>2. QED
    BY <2>1 DEF Decompress
<1>6. y \in Seq(Byte)
  BY <1>1, DecompressMakesBytes
<1> HIDE DEF q, c, y
<1>7. ASSUME NEW i \in 1..(q * 8)
      PROVE  word(i) = WordsOf(x)[i] - (WordsOf(x)[i] % 4)
  <2> DEFINE g == (i - 1) \div 8
             j == ((i - 1) % 8) + 1
             p == Group(WordsOf(c), g, 7)
             w == Group(WordsOf(x), g, 8)
  <2>1. g \in Nat /\ g + 1 <= q /\ j \in 1..8 /\ 8 * g + j = i
    BY <1>2, <1>7
  <2>2. word(i) = UnpackedWord(p, j)
    OBVIOUS
  <2> HIDE DEF g, j
  <2>3. GroupOfWords(x, g)
    BY <2>1, GroupsAreWords DEF q
  <2>4. \A k \in 1..8 : IsWord(w[k]) /\ w[k] = WordsOf(x)[8 * g + k]
    BY <2>3 DEF GroupOfWords
  <2>5. \A k \in 1..7 : p[k] = PackedWord(w, k)
    <3>1. /\ g * 7 \in Nat /\ (g + 1) * 7 = g * 7 + 7 /\ g * 7 = 7 * g
          /\ g * 7 + 7 <= Len(WordsOf(c))
      BY <1>2, <1>4, <2>1
    <3>2. \A k \in 1..7 : p[k] = WordsOf(c)[g * 7 + k]
      <4> DEFINE v == WordsOf(c)
      <4>1. v \in Seq(Nat) /\ g * 7 + 7 <= Len(v)
        BY <1>4, <3>1
      <4> HIDE DEF v
      <4>2. \A k \in 1..7 : Group(v, g, 7)[k] = v[g * 7 + k]
        BY <2>1, <3>1, <4>1, GroupInside, SMTT(30)
      <4>3. QED
        BY <4>2 DEF v
    <3>3. QED
      BY <1>3, <2>1, <3>1, <3>2
  <2> HIDE DEF p, w, word
  <2>6. UnpackedWord(p, j) = w[j] - (w[j] % 4)
    BY <2>1, <2>4, <2>5, UnpackingUndoesPacking
  <2>7. w[j] = WordsOf(x)[i]
    BY <2>1, <2>4
  <2>8. QED
    BY <2>2, <2>6, <2>7
<1>8. ASSUME NEW i \in 1..(q * 8)
      PROVE  /\ 2 * i - 1 \in 1..Len(x) /\ 2 * i \in 1..Len(x)
             /\ x[2 * i - 1] \in Byte /\ x[2 * i] \in Byte
             /\ WordsOf(x)[i] = x[2 * i - 1] + 256 * x[2 * i]
             /\ word(i) \in Int
  <2>1. /\ 2 * i - 1 \in 1..Len(x) /\ 2 * i \in 1..Len(x)
        /\ i \in 1..(Len(x) \div 2)
    BY <1>2, <1>8
  <2>2. x[2 * i - 1] \in Byte /\ x[2 * i] \in Byte
    BY <2>1, ElementOfSeq
  <2>3. WordsOf(x)[i] = x[2 * i - 1] + 256 * x[2 * i]
    BY <2>1, WordAt
  <2>4. word(i) \in Int
    <3> HIDE DEF word
    <3> DEFINE lo == x[2 * i - 1]
               hi == x[2 * i]
               v == WordsOf(x)[i]
    <3>1. word(i) = v - (v % 4) /\ lo \in Byte /\ hi \in Byte /\ v = lo + 256 * hi
      BY <1>7, <1>8, <2>2, <2>3
    <3> HIDE DEF lo, hi, v
    <3>2. v - (v % 4) \in Int
      BY <3>1, LowBitsGone
    <3>3. QED
      BY <3>1, <3>2
  <2>5. QED
    BY <2>1, <2>2, <2>3, <2>4
<1> HIDE DEF word
<1>9. uw \in Seq(Int) /\ Len(uw) = q * 8
  BY <1>2, <1>8
<1>10. Len(y) = 16 * q
  <2>1. Len(y) = 2 * (q * 8)
    BY <1>5, <1>9, BytesAreBytes
  <2>2. QED
    BY <1>2, <2>1
<1>11. ASSUME NEW i \in 1..(q * 8)
       PROVE  /\ y[2 * i - 1] = x[2 * i - 1] - (x[2 * i - 1] % 4)
              /\ y[2 * i] = x[2 * i]
  <2>1. uw[i] = WordsOf(x)[i] - (WordsOf(x)[i] % 4) /\ i \in 1..Len(uw)
    BY <1>7, <1>9, <1>11
  <2> HIDE DEF uw
  <2>2. y[2 * i - 1] = uw[i] % 256 /\ y[2 * i] = (uw[i] \div 256) % 256
    <3>1. uw \in Seq(Int) /\ i \in 1..Len(uw)
      BY <1>9, <2>1
    <3>2. /\ BytesOf(uw)[2 * i - 1] = uw[i] % 256
          /\ BytesOf(uw)[2 * i] = (uw[i] \div 256) % 256
      BY <3>1, BytesAt
    <3>3. QED
      BY <1>5, <3>2, Zenon
  <2> DEFINE lo == x[2 * i - 1]
             hi == x[2 * i]
  <2>3. lo \in Byte /\ hi \in Byte /\ WordsOf(x)[i] = lo + 256 * hi
    BY <1>8, <1>11
  <2> HIDE DEF lo, hi
  <2>4. uw[i] % 256 = lo - (lo % 4) /\ (uw[i] \div 256) % 256 = hi
    BY <2>1, <2>3, LowBitsGone
  <2>5. QED
    BY <2>2, <2>4 DEF lo, hi
<1>12. ASSUME NEW b \in 1..Len(y)
       PROVE  y[b] = WithoutLowBits(x, b)
  <2>1. CASE b % 2 = 1
    <3>1. PICK i \in 1..(q * 8) : b = 2 * i - 1
      <4>1. (b + 1) \div 2 \in 1..(q * 8) /\ b = 2 * ((b + 1) \div 2) - 1
        BY <1>2, <1>10, <1>12, <2>1
      <4>2. QED
        BY <4>1
    <3>2. y[b] = x[b] - (x[b] % 4)
      BY <1>11, <3>1
    <3>3. QED
      BY <2>1, <3>2 DEF WithoutLowBits
  <2>2. CASE b % 2 # 1
    <3>1. PICK i \in 1..(q * 8) : b = 2 * i
      <4>1. b \div 2 \in 1..(q * 8) /\ b = 2 * (b \div 2)
        BY <1>2, <1>10, <1>12, <2>2
      <4>2. QED
        BY <4>1
    <3>2. y[b] = x[b]
      BY <1>11, <3>1
    <3>3. QED
      BY <2>2, <3>2 DEF WithoutLowBits
  <2>3. QED
    BY <2>1, <2>2
<1>13. QED
  BY <1>6, <1>10, <1>12 DEF q, c, y

(***************************************************************************)
(* What is played of a packet that has not been disturbed.                 *)
(***************************************************************************)
LEMMA CompressedHeard ==
    ASSUME NEW x \in Seq(Byte)
    PROVE  HeardAs(x, 2, Decompress(Compress(x)))
<1> DEFINE y == Decompress(Compress(x))
           n == Len(x)
<1>1. /\ y \in Seq(Byte) /\ Len(y) = 16 * (n \div 16)
      /\ \A b \in 1..Len(y) : y[b] = WithoutLowBits(x, b)
  BY PackingRoundTrip
<1>2. n \in Nat
  OBVIOUS
<1> HIDE DEF y
<1>3. n - 16 < Len(y) /\ Len(y) <= n /\ (n = 256 => Len(y) = 256)
  <2> HIDE DEF n
  <2> QED
    BY <1>1, <1>2
<1>4. QED
  BY <1>1, <1>3 DEF HeardAs, Heard, MayBeLost, y, n

LEMMA DownsampledAt ==
    ASSUME NEW x \in Seq(Byte), NEW a \in 1..DownsampledSize(Len(x)),
           a <= Copied(Len(x))
    PROVE  Downsample(x)[a] = x[a + 4 * (FrameOf(a) \div 7 + 1)]
<1>1. Copied(Len(x)) \in Int
  BY DEF Copied, Frames
<1>2. ~(a > Copied(Len(x)))
  BY <1>1 DEF DownsampledSize
<1>3. QED
  BY <1>2 DEF Downsample

\* The byte that resample puts at b.
SourceOf(b) == b - 4 * (FrameOf(b) \div 8 + 1)

LEMMA ThinnedIndex ==
    ASSUME NEW n \in Nat, NEW l \in Nat, NEW b \in 1..l, FrameOf(b) % 8 # 0,
           l = ((16 * (((n \div 8) * 7) \div 16)) \div 7) * 8
    PROVE  /\ SourceOf(b) \in 1..(16 * (((n \div 8) * 7) \div 16))
           /\ SourceOf(b) \in 1..((n \div 8) * 7)
           /\ SourceOf(b) <= Copied(n)
           /\ SourceOf(b) + 4 * (FrameOf(SourceOf(b)) \div 7 + 1) = b
           /\ SourceOf(b) % 2 = b % 2
<1> DEFINE a == b - 4 * (FrameOf(b) \div 8 + 1)
           e == 16 * (((n \div 8) * 7) \div 16)
<1>1. e \in Nat /\ e <= (n \div 8) * 7 /\ l = (e \div 7) * 8
  OBVIOUS
<1> HIDE DEF e
<1>2. a \in 1..e
  BY <1>1 DEF FrameOf
<1>3. a \in 1..((n \div 8) * 7)
  BY <1>1, <1>2
<1>4. l <= 8 * (n \div 8)
  BY <1>1
<1>5. a <= Copied(n)
  BY <1>4 DEF FrameOf, Copied, Frames
<1>6. a + 4 * (FrameOf(a) \div 7 + 1) = b
  BY DEF FrameOf
<1>7. a % 2 = b % 2
  BY DEF FrameOf
<1>8. QED
  BY <1>2, <1>3, <1>5, <1>6, <1>7 DEF e, SourceOf

LEMMA ThinnedHeard ==
    ASSUME NEW x \in Seq(Byte)
    PROVE  HeardAs(x, 1, Resample(Decompress(Compress(Downsample(x)))))
<1> DEFINE n == Len(x)
           t == Downsample(x)
           z == Decompress(Compress(t))
           y == Resample(z)
<1>1. n \in Nat
  OBVIOUS
<1>2. t \in Seq(Byte) /\ Len(t) = DownsampledSize(n)
  <2>1. DownsampledSize(n) \in Nat
    BY <1>1 DEF DownsampledSize
  <2>2. QED
    BY <2>1, DownsampleMakesBytes DEF Downsample
<1>3. /\ z \in Seq(Byte) /\ Len(z) = 16 * (Len(t) \div 16)
      /\ \A b \in 1..Len(z) : z[b] = WithoutLowBits(t, b)
  <2> HIDE DEF t
  <2> QED
    BY <1>2, PackingRoundTrip
<1>4. y \in Seq(Byte) /\ Len(y) = ResampledSize(Len(z))
  <2>1. Len(z) \in Nat
    BY <1>3
  <2>2. ResampledSize(Len(z)) \in Nat
    BY <2>1 DEF ResampledSize
  <2> HIDE DEF z
  <2>3. Resample(z) \in Seq(Byte)
    BY <1>3, ResampleMakesBytes
  <2>4. Len(Resample(z)) = ResampledSize(Len(z))
    BY <2>2 DEF Resample
  <2>5. QED
    BY <2>3, <2>4
<1>5. Len(y) = ((16 * (((n \div 8) * 7) \div 16)) \div 7) * 8
  BY <1>2, <1>3, <1>4 DEF DownsampledSize, ResampledSize
<1>6. n - 32 < Len(y) /\ Len(y) <= n /\ (n = 256 => Len(y) = 256)
  <2> HIDE DEF n, y
  <2> QED
    BY <1>1, <1>5
<1>7. ASSUME NEW b \in 1..Len(y), FrameOf(b) % 8 # 0
      PROVE  y[b] = WithoutLowBits(x, b)
  <2> DEFINE a == SourceOf(b)
  <2>1. y[b] = z[a]
    BY <1>4, <1>7 DEF Resample, SourceOf
  <2>2. /\ a \in 1..Len(z) /\ a \in 1..Len(t) /\ a <= Copied(n)
        /\ a + 4 * (FrameOf(a) \div 7 + 1) = b /\ a % 2 = b % 2
    <3>1. Len(z) = 16 * (((n \div 8) * 7) \div 16) /\ Len(t) = (n \div 8) * 7
      BY <1>2, <1>3 DEF DownsampledSize
    <3>2. Len(y) \in Nat
      BY <1>4
    <3> HIDE DEF n, t, z, y
    <3>3. QED
      BY <1>1, <1>5, <1>7, <3>1, <3>2, ThinnedIndex, ZenonT(30)
  <2>3. t[a] = x[b]
    <3> HIDE DEF a
    <3> QED
      BY <1>2, <2>2, DownsampledAt
  <2>4. z[a] = WithoutLowBits(t, a)
    BY <1>3, <2>2
  <2>5. QED
    BY <2>1, <2>2, <2>3, <2>4 DEF WithoutLowBits
<1>8. ASSUME NEW b \in 1..Len(y), FrameOf(b) % 8 = 0
      PROVE  y[b] = 0
  BY <1>4, <1>8 DEF Resample
<1> HIDE DEF y
<1>9. HeardAs(x, 1, y)
  <2>1. \A b \in 1..Len(y) :
            y[b] = IF FrameOf(b) % 8 = 0 THEN 0 ELSE WithoutLowBits(x, b)
    BY <1>7, <1>8
  <2>2. QED
    BY <1>4, <1>6, <2>1 DEF HeardAs, Heard, MayBeLost
<1>10. QED
  BY <1>9 DEF y

LEMMA CodedHeard ==
    ASSUME NEW x \in Seq(Byte), NEW quality \in 1..5
    PROVE  HeardAs(x, quality, Decoded(Encoded(x, quality), quality))
<1>1. CASE quality = 1
  BY <1>1, ThinnedHeard DEF Encoded, Decoded
<1>2. CASE quality = 2
  BY <1>2, CompressedHeard DEF Encoded, Decoded
<1>3. CASE quality \in 3..5
  <2>1. Encoded(x, quality) = x /\ Decoded(x, quality) = x
    BY <1>3 DEF Encoded, Decoded
  <2>2. HeardAs(x, quality, x)
    <3>1. Len(x) \in Nat
      OBVIOUS
    <3>2. MayBeLost(quality) = 1 /\ \A b \in 1..Len(x) : Heard(x, quality, b) = x[b]
      BY <1>3 DEF MayBeLost, Heard
    <3>3. QED
      BY <3>1, <3>2 DEF HeardAs
  <2>3. QED
    BY <2>1, <2>2
<1>4. QED
  BY <1>1, <1>2, <1>3

LEMMA EncodedFits ==
    ASSUME NEW x \in Seq(Byte), Len(x) <= 256, NEW quality \in 1..5
    PROVE  Len(Encoded(x, quality)) \in Nat /\ Len(Encoded(x, quality)) <= 256
<1>1. Len(x) \in Nat
  OBVIOUS
<1>2. CASE quality = 1
  <2> DEFINE t == Downsample(x)
  <2>1. DownsampledSize(Len(x)) \in Nat
    BY <1>1 DEF DownsampledSize
  <2>2. t \in Seq(Byte) /\ Len(t) = DownsampledSize(Len(x))
    BY <2>1, DownsampleMakesBytes DEF Downsample
  <2> HIDE DEF t
  <2>3. Len(Compress(t)) = 14 * (Len(t) \div 16)
    BY <2>2, PackedWords
  <2>4. Encoded(x, quality) = Compress(t)
    BY <1>2 DEF Encoded, t
  <2>5. QED
    BY <1>1, <2>2, <2>3, <2>4 DEF DownsampledSize
<1>3. CASE quality = 2
  <2>1. Len(Compress(x)) = 14 * (Len(x) \div 16)
    BY PackedWords
  <2>2. Encoded(x, quality) = Compress(x)
    BY <1>3 DEF Encoded
  <2>3. QED
    BY <1>1, <2>1, <2>2
<1>4. CASE quality \in 3..5
  BY <1>1, <1>4 DEF Encoded
<1>5. QED
  BY <1>2, <1>3, <1>4

(***************************************************************************)
(* The datagram of a packet: its size in the header, its data behind it.   *)
(***************************************************************************)
Carries(w, d) ==
    /\ Len(w) = 8 + Len(d)
    /\ SizeOf(w) = Len(d)
    /\ \A i \in 1..Len(d) : w[8 + i] = d[i]

Coded == Encoded(packet.music, packet.quality)

(***************************************************************************)
(* As long as no bit flips, what the server coded is what arrives.         *)
(***************************************************************************)
CarriedInv ==
    /\ pc = "encode" => data = packet.music
    /\ pc \in {"sumData", "sumHeader", "underway", "testHeader", "testData"}
          => data = Coded
    /\ pc = "sumHeader" => wire[1] + 256 * wire[2] = Len(data)
    /\ pc \in {"underway", "testHeader"} /\ flipped = {} => Carries(wire, data)
    /\ pc = "testData" /\ flipped = {} => buf = data
    /\ pc = "decode" /\ flipped = {} => data = Coded
    /\ pc = "accepted" /\ flipped = {} => data = Decoded(Coded, packet.quality)

LEMMA NextKeepsCarried ==
    ASSUME PacketInv, CarriedInv, [Next]_vars
    PROVE  CarriedInv'
<1>0. /\ wire \in Seq(Byte) /\ data \in Seq(Byte)
      /\ Len(wire) \in Nat /\ Len(data) \in Nat
  <2>1. wire \in Seq(Byte) /\ data \in Seq(Byte)
    BY DEF PacketInv
  <2>2. QED
    BY <2>1
<1>1. CASE Add
  <2>1. buf' = buf
    BY <1>1 DEF Add, AddByte
  <2>2. QED
    BY <1>1, <2>1 DEF Add, CarriedInv, Coded, Carries
<1>2. CASE Encode
  BY <1>2 DEF Encode, CarriedInv, Coded
<1>3. CASE SumData
  <2>1. Result \in Seq(Byte) /\ Len(Result) = 2
    BY <1>3, ResultIsCheck DEF SumData, PacketInv
  <2> DEFINE size == SizeField(Len(data))
             front == size \o <<packet.flags, packet.nr>>
  <2>2. size \in Seq(Byte) /\ Len(size) = 2
    <3>1. Len(data) % 256 \in Byte /\ (Len(data) \div 256) % 256 \in Byte
      BY <1>0, LowByte
    <3>2. QED
      BY <3>1, PairIsSeq DEF SizeField
  <2>3. data = Coded /\ packet \in Packets
    BY <1>3 DEF SumData, CarriedInv, PacketInv
  <2>4. Len(data) <= 256
    <3>1. packet.music \in Seq(Byte) /\ Len(packet.music) <= 256 /\ packet.quality \in 1..5
      BY <2>3, PacketAssumption DEF PacketAssumption
    <3>2. QED
      BY <2>3, <3>1, EncodedFits DEF Coded
  <2>5. size[1] + 256 * size[2] = Len(data)
    <3>1. size[1] = Len(data) % 256 /\ size[2] = (Len(data) \div 256) % 256
      BY DEF SizeField
    <3>2. QED
      BY <1>0, <2>4, <3>1
  <2>6. <<packet.flags, packet.nr>> \in Seq(Byte)
    BY <2>3, PacketBounds, PairIsSeq
  <2> HIDE DEF size
  <2>7. front \in Seq(Byte) /\ front[1] = size[1] /\ front[2] = size[2] /\ Len(front) >= 2
    BY <2>2, <2>6, ConcatProperties
  <2> HIDE DEF front
  <2>8. (front \o Result)[1] = front[1] /\ (front \o Result)[2] = front[2]
    BY <2>1, <2>7, ConcatProperties
  <2>9. wire' = front \o Result
    BY <1>3 DEF SumData, front, size
  <2>10. wire'[1] + 256 * wire'[2] = Len(data)
    BY <2>5, <2>7, <2>8, <2>9
  <2>11. QED
    BY <1>3, <2>3, <2>10 DEF SumData, CarriedInv, Coded
<1>4. CASE Send
  <2>1. Result \in Seq(Byte) /\ Len(Result) = 2 /\ Len(wire) = 6
    BY <1>4, ResultIsCheck DEF Send, PacketInv
  <2> DEFINE front == Result \o wire
  <2>2. front \in Seq(Byte) /\ Len(front) = Len(Result) + Len(wire)
    BY <1>0, <2>1, ConcatIsSeq
  <2>3. Len(front) = 8
    BY <2>1, <2>2
  <2>4. front[3] = wire[1] /\ front[4] = wire[2]
    <3>1. \A i \in 1..(Len(Result) + Len(wire)) :
              front[i] = IF i <= Len(Result) THEN Result[i] ELSE wire[i - Len(Result)]
      BY <1>0, <2>1, ConcatProperties
    <3> HIDE DEF front
    <3>2. 3 \in 1..(Len(Result) + Len(wire)) /\ 4 \in 1..(Len(Result) + Len(wire))
          /\ ~(3 <= Len(Result)) /\ ~(4 <= Len(Result))
          /\ 3 - Len(Result) = 1 /\ 4 - Len(Result) = 2
      BY <2>1
    <3>3. QED
      BY <3>1, <3>2
  <2> HIDE DEF front
  <2>5. /\ Len(front \o data) = Len(front) + Len(data)
        /\ \A i \in 1..(Len(front) + Len(data)) :
              (front \o data)[i] = IF i <= Len(front) THEN front[i] ELSE data[i - Len(front)]
    <3>1. front \in Seq(Byte) /\ data \in Seq(Byte)
      BY <1>0, <2>2
    <3>2. QED
      BY <3>1, ConcatAt
  <2>6. Carries(front \o data, data)
    <3>1. Len(front \o data) = 8 + Len(data)
      BY <2>3, <2>5
    <3>2. (front \o data)[3] = wire[1] /\ (front \o data)[4] = wire[2]
      BY <1>0, <2>3, <2>4, <2>5
    <3>3. \A i \in 1..Len(data) : (front \o data)[8 + i] = data[i]
      BY <1>0, <2>3, <2>5
    <3>4. wire[1] + 256 * wire[2] = Len(data)
      BY <1>4 DEF Send, CarriedInv
    <3>5. QED
      BY <3>1, <3>2, <3>3, <3>4 DEF Carries, SizeOf
  <2>7. wire' = front \o data
    BY <1>4 DEF Send, front
  <2>8. QED
    BY <1>4, <2>6, <2>7 DEF Send, CarriedInv, Coded
<1>5. CASE Flip
  <2>1. flipped' # {}
    BY <1>5 DEF Flip
  <2>2. QED
    BY <1>5, <2>1 DEF Flip, CarriedInv, Coded
<1>6. CASE Receive
  BY <1>6 DEF Receive, CarriedInv, Coded, Carries
<1>7. CASE TestHeader
  <2>1. CASE pc' = "faulty"
    BY <1>7, <2>1 DEF TestHeader, CarriedInv
  <2>2. CASE pc' # "faulty"
    <3>1. /\ pc = "testHeader" /\ pc' = "testData"
          /\ UNCHANGED <<packet, data, flipped>>
      BY <1>7, <2>2 DEF TestHeader
    <3>2. PICK rest \in [1..(8 + SizeOf(wire) - Len(wire)) -> Leftover] :
              buf' = SubSeq(wire \o rest, 9, 8 + SizeOf(wire))
      BY <1>7, <2>2 DEF TestHeader, Start
    <3>3. ASSUME flipped = {}
          PROVE  buf' = data
      <4>1. Carries(wire, data)
        BY <3>1, <3>3 DEF CarriedInv
      <4>2. SizeOf(wire) = Len(data) /\ Len(wire) = 8 + Len(data)
            /\ \A i \in 1..Len(data) : wire[8 + i] = data[i]
        BY <4>1 DEF Carries
      <4>3. 8 + SizeOf(wire) - Len(wire) = 0
        BY <1>0, <4>2
      <4>4. rest = <<>>
        BY <3>2, <4>3
      <4>5. wire \o rest = wire
        BY <1>0, <4>4, ConcatEmptySeq
      <4>6. buf' = SubSeq(wire, 9, 8 + Len(data))
        BY <3>2, <4>2, <4>5
      <4> DEFINE s == SubSeq(wire, 9, 8 + Len(data))
      <4>7. \A i \in 9..(8 + Len(data)) : wire[i] \in Byte
        BY <1>0, <4>2, ElementOfSeq
      <4>8. /\ s \in Seq(Byte)
            /\ Len(s) = IF 9 <= 8 + Len(data) THEN (8 + Len(data)) - 9 + 1 ELSE 0
            /\ \A i \in 1..((8 + Len(data)) - 9 + 1) : s[i] = wire[9 + i - 1]
        BY <1>0, <4>7, SubSeqProperties
      <4> HIDE DEF s
      <4>9. Len(s) = Len(data) /\ \A i \in 1..Len(data) : s[i] = wire[8 + i]
        BY <1>0, <4>8
      <4>10. s = data
        BY <1>0, <4>2, <4>8, <4>9, SeqEqual
      <4>11. QED
        BY <4>6, <4>10 DEF s
    <3>4. QED
      BY <3>1, <3>3 DEF CarriedInv, Coded
  <2>3. QED
    BY <2>1, <2>2
<1>8. CASE TestData
  BY <1>8 DEF TestData, CarriedInv, Coded
<1>9. CASE Decode
  BY <1>9 DEF Decode, CarriedInv, Coded
<1>10. CASE UNCHANGED vars
  BY <1>10 DEF vars, sumVars, CarriedInv, Coded, Carries
<1>11. QED
  BY <1>1, <1>2, <1>3, <1>4, <1>5, <1>6, <1>7, <1>8, <1>9, <1>10 DEF Next, Over

LEMMA CarriedInvHolds == Spec => []CarriedInv
<1>1. Init => CarriedInv
  BY DEF Init, CarriedInv
<1>2. PacketInv /\ CarriedInv /\ [Next]_vars => CarriedInv'
  BY NextKeepsCarried
<1>3. QED
  BY <1>1, <1>2, PacketInvHolds, PTL DEF Spec

(***************************************************************************)
(* What the listener hears of a packet that no bit of has flipped, for     *)
(* every content, length and quality: PackingRoundTrip and ThinnedHeard    *)
(* carried through com_send and com_receive.                               *)
(***************************************************************************)
THEOREM PlayedHolds == Spec => []PlayedAsPromised
<1>1. PacketInv /\ CarriedInv => PlayedAsPromised
  <2> SUFFICES ASSUME PacketInv, CarriedInv, pc = "accepted", flipped = {}
               PROVE  HeardAs(packet.music, packet.quality, data)
    BY DEF PlayedAsPromised
  <2>1. packet.music \in Seq(Byte) /\ packet.quality \in 1..5
    BY PacketBounds DEF PacketInv
  <2>2. data = Decoded(Coded, packet.quality)
    BY DEF CarriedInv
  <2>3. QED
    BY <2>1, <2>2, CodedHeard DEF Coded
<1>2. QED
  BY <1>1, PacketInvHolds, CarriedInvHolds, PTL
=============================================================================
