----------------------------- MODULE FlipProofs -----------------------------
(***************************************************************************)
(* One or two bits of a datagram that flip underway do not pass the two    *)
(* checksums, for every packet, wherever the bits lie.                     *)
(***************************************************************************)
EXTENDS PacketProofs, FiniteSetTheorems, WellFoundedInduction

-----------------------------------------------------------------------------
(***************************************************************************)
(* Induction up to n, from the least element of what would be left out.    *)
(***************************************************************************)
LEMMA LeastNumber ==
    ASSUME NEW T \in SUBSET Nat, T # {}
    PROVE  \E m \in T : \A k \in T : m <= k
<1> DEFINE R == OpToRel(<, Nat)
<1>1. IsWellFoundedOn(R, Nat)
  BY NatLessThanWellFounded
<1>2. \A x, y \in Nat : x < y => <<x, y>> \in R
  BY DEF OpToRel
<1> HIDE DEF R
<1>3. PICK m \in T : \A y \in T : ~(<<y, m>> \in R)
  BY <1>1, WFMin
<1>4. ASSUME NEW k \in T PROVE m <= k
  <2>1. m \in Nat /\ k \in Nat
    OBVIOUS
  <2>2. ~(k < m)
    BY <1>2, <1>3, <2>1
  <2>3. QED
    BY <2>1, <2>2
<1>5. QED
  BY <1>4

LEMMA InductionUpTo ==
    ASSUME NEW n \in Nat, NEW S, 0 \in S,
           \A k \in 1..n : k - 1 \in S => k \in S
    PROVE  n \in S
<1> DEFINE T == {k \in 0..n : k \notin S}
<1>1. SUFFICES ASSUME T # {} PROVE FALSE
  OBVIOUS
<1>2. PICK m \in T : \A k \in T : m <= k
  <2>1. T \in SUBSET Nat
    OBVIOUS
  <2> HIDE DEF T
  <2>2. QED
    BY <1>1, <2>1, LeastNumber
<1>3. m \in 1..n /\ m - 1 \in 0..n /\ ~(m <= m - 1)
  BY <1>2
<1>4. m - 1 \in S
  BY <1>2, <1>3
<1>5. QED
  BY <1>2, <1>3, <1>4

-----------------------------------------------------------------------------
(***************************************************************************)
(* One byte added to the two sums, and the sums of the first n bytes of x, *)
(* with all the sums on the way.                                           *)
(***************************************************************************)
Residue == 0..254

Added(s, t, byte, s1, t1) == s1 = (s + byte) % 255 /\ t1 = (t + s1) % 255

IsTrace(x, n, a, b) ==
    /\ a[0] = 0 /\ b[0] = 0
    /\ \A k \in 1..n : Added(a[k - 1], b[k - 1], x[k], a[k], b[k])

SumsTo(x, n, s, t) ==
    \E a, b \in [0..n -> Residue] : IsTrace(x, n, a, b) /\ a[n] = s /\ b[n] = t

LEMMA SumsOfNothing == \A x : SumsTo(x, 0, 0, 0)
<1> TAKE x
<1> DEFINE a == [k \in 0..0 |-> 0]
<1>1. a \in [0..0 -> Residue] /\ a[0] = 0 /\ 1..0 = {}
  BY DEF Residue
<1> HIDE DEF a
<1>2. IsTrace(x, 0, a, a)
  BY <1>1 DEF IsTrace
<1>3. QED
  BY <1>1, <1>2 DEF SumsTo

LEMMA SumsGrow ==
    ASSUME NEW x, NEW n \in Nat, NEW s, NEW t, SumsTo(x, n, s, t),
           NEW s1 \in Residue, NEW t1 \in Residue, Added(s, t, x[n + 1], s1, t1)
    PROVE  SumsTo(x, n + 1, s1, t1)
<1>1. PICK a \in [0..n -> Residue], b \in [0..n -> Residue] :
          IsTrace(x, n, a, b) /\ a[n] = s /\ b[n] = t
  BY Zenon DEF SumsTo
<1> DEFINE c == [k \in 0..(n + 1) |-> IF k = n + 1 THEN s1 ELSE a[k]]
           d == [k \in 0..(n + 1) |-> IF k = n + 1 THEN t1 ELSE b[k]]
<1>2. c \in [0..(n + 1) -> Residue] /\ d \in [0..(n + 1) -> Residue]
  OBVIOUS
<1>3. /\ c[n + 1] = s1 /\ d[n + 1] = t1
      /\ \A k \in 0..n : c[k] = a[k] /\ d[k] = b[k]
  OBVIOUS
<1> HIDE DEF c, d
<1>4. IsTrace(x, n + 1, c, d)
  <2>1. c[0] = 0 /\ d[0] = 0
    BY <1>1, <1>3 DEF IsTrace
  <2>2. ASSUME NEW k \in 1..(n + 1)
        PROVE  Added(c[k - 1], d[k - 1], x[k], c[k], d[k])
    <3>1. CASE k = n + 1
      <4>1. k - 1 = n /\ n \in 0..n
        BY <3>1
      <4>2. QED
        BY <1>1, <1>3, <3>1, <4>1
    <3>2. CASE k # n + 1
      <4>1. k \in 1..n /\ k \in 0..n /\ k - 1 \in 0..n
        BY <3>2
      <4>2. Added(a[k - 1], b[k - 1], x[k], a[k], b[k])
        BY <1>1, <4>1 DEF IsTrace
      <4>3. QED
        BY <1>3, <4>1, <4>2
    <3>3. QED
      BY <3>1, <3>2
  <2>3. QED
    BY <2>1, <2>2 DEF IsTrace
<1>5. QED
  BY <1>2, <1>3, <1>4, Zenon DEF SumsTo

-----------------------------------------------------------------------------
(***************************************************************************)
(* How far the sums of two rows of bytes drift apart that differ in up to  *)
(* two places, modulo 255.                                                 *)
(***************************************************************************)
Near(p, q, drift) ==
    /\ p \in Int /\ q \in Int /\ drift \in Int
    /\ \E m \in Int : p = q + drift + 255 * m

LEMMA ResidueIsNear ==
    ASSUME NEW v \in Int
    PROVE  \E m \in Int : v % 255 = v + 255 * m
<1>1. -(v \div 255) \in Int /\ v % 255 = v + 255 * (-(v \div 255))
  OBVIOUS
<1>2. QED
  BY <1>1

LEMMA NearAdds ==
    ASSUME NEW p, NEW q, NEW u, Near(p, q, u),
           NEW r, NEW w, NEW v, Near(r, w, v)
    PROVE  Near((p + r) % 255, (q + w) % 255, u + v)
<1>0. /\ p \in Int /\ q \in Int /\ u \in Int
      /\ r \in Int /\ w \in Int /\ v \in Int
  BY DEF Near
<1>1. PICK m1 \in Int : p = q + u + 255 * m1
  BY DEF Near
<1>2. PICK m2 \in Int : r = w + v + 255 * m2
  BY DEF Near
<1> DEFINE a == (p + r) % 255
           b == (q + w) % 255
<1>3. PICK m3 \in Int : a = p + r + 255 * m3
  BY <1>0, ResidueIsNear
<1>4. PICK m4 \in Int : b = q + w + 255 * m4
  BY <1>0, ResidueIsNear
<1> DEFINE m == m1 + m2 + m3 - m4
           drift == u + v
<1>5. a \in Int /\ b \in Int /\ drift \in Int
  BY <1>0
<1> HIDE DEF a, b
<1>6. a = b + drift + 255 * m /\ m \in Int
  BY <1>0, <1>1, <1>2, <1>3, <1>4, <1>5
<1> HIDE DEF m, drift
<1>7. Near(a, b, drift)
  BY <1>5, <1>6, ZenonT(30) DEF Near
<1>8. QED
  BY <1>7 DEF a, b, drift

LEMMA NearByOffset ==
    ASSUME NEW p \in Int, NEW u \in Int
    PROVE  Near(p + u, p, u)
<1>1. p + u = p + u + 255 * 0
  OBVIOUS
<1>2. QED
  BY <1>1 DEF Near

(***************************************************************************)
(* The bytes of y are those of x, except that d is added to the i-th and e *)
(* to the j-th.                                                            *)
(***************************************************************************)
DiffersBy(x, y, n, i, d, j, e) ==
    \A k \in 1..n : /\ x[k] \in Int /\ y[k] \in Int
                    /\ y[k] = x[k] + ((IF k = i THEN d ELSE 0)
                                        + (IF k = j THEN e ELSE 0))

\* What d, added to the i-th byte, does to the two sums of k bytes.
First(k, i, d) == IF i <= k THEN d ELSE 0

Second(k, i, d) == IF i <= k THEN d * (k - i + 1) ELSE 0

OneDrifts(k, i, d) ==
    /\ First(k, i, d) \in Int /\ Second(k, i, d) \in Int
    /\ First(k - 1, i, d) \in Int /\ Second(k - 1, i, d) \in Int
    /\ First(k, i, d) = First(k - 1, i, d) + (IF k = i THEN d ELSE 0)
    /\ Second(k, i, d) = Second(k - 1, i, d) + First(k, i, d)

LEMMA EachDrifts ==
    \A k, i \in Nat \ {0}, d \in Int : OneDrifts(k, i, d)
<1> TAKE k, i \in Nat \ {0}, d \in Int
<1>1. d * (k - i + 1) \in Int /\ d * ((k - 1) - i + 1) \in Int
  OBVIOUS
<1>2. d * (k - i + 1) = d * ((k - 1) - i + 1) + d
  OBVIOUS
<1>3. k = i => d * (k - i + 1) = d
  OBVIOUS
<1>4. QED
  BY <1>1, <1>2, <1>3 DEF OneDrifts, First, Second

LEMMA ResidueIsInt == \A v \in Residue : v \in Int
BY DEF Residue

LEMMA Drift ==
    ASSUME NEW n \in Nat, NEW x, NEW y,
           NEW i \in Nat \ {0}, NEW d \in Int,
           NEW j \in Nat \ {0}, NEW e \in Int,
           DiffersBy(x, y, n, i, d, j, e),
           NEW s, NEW t, SumsTo(x, n, s, t),
           NEW u, NEW v, SumsTo(y, n, u, v)
    PROVE  /\ Near(u, s, First(n, i, d) + First(n, j, e))
           /\ Near(v, t, Second(n, i, d) + Second(n, j, e))
<1>1. PICK a \in [0..n -> Residue], b \in [0..n -> Residue] :
          IsTrace(x, n, a, b) /\ a[n] = s /\ b[n] = t
  BY Zenon DEF SumsTo
<1>2. PICK f \in [0..n -> Residue], g \in [0..n -> Residue] :
          IsTrace(y, n, f, g) /\ f[n] = u /\ g[n] = v
  BY Zenon DEF SumsTo
<1> DEFINE A(k) == First(k, i, d) + First(k, j, e)
           B(k) == Second(k, i, d) + Second(k, j, e)
           S == {k \in 0..n : Near(f[k], a[k], A(k)) /\ Near(g[k], b[k], B(k))}
<1>3. 0 \in S
  <2>1. A(0) = 0 /\ B(0) = 0
    BY DEF First, Second
  <2>2. f[0] = 0 /\ a[0] = 0 /\ g[0] = 0 /\ b[0] = 0
    BY <1>1, <1>2 DEF IsTrace
  <2>3. Near(0, 0, 0)
    <3>1. 0 = 0 + 0 + 255 * 0
      OBVIOUS
    <3>2. QED
      BY <3>1 DEF Near
  <2> HIDE DEF A, B
  <2>4. 0 \in 0..n
    OBVIOUS
  <2>5. QED
    BY <2>1, <2>2, <2>3, <2>4
<1>4. ASSUME NEW k \in 1..n, k - 1 \in S
      PROVE  k \in S
  <2>1. k \in 0..n /\ k - 1 \in 0..n /\ k \in Nat \ {0}
    OBVIOUS
  <2>2. /\ a[k] \in Int /\ b[k] \in Int /\ f[k] \in Int /\ g[k] \in Int
        /\ a[k - 1] \in Int /\ b[k - 1] \in Int
        /\ f[k - 1] \in Int /\ g[k - 1] \in Int
    <3> HIDE DEF A, B, S
    <3>1. QED
      BY <1>1, <1>2, <2>1, ResidueIsInt
  <2> DEFINE h == (IF k = i THEN d ELSE 0) + (IF k = j THEN e ELSE 0)
  <2>3. x[k] \in Int /\ y[k] \in Int /\ h \in Int /\ y[k] = x[k] + h
    BY DEF DiffersBy
  <2>4. /\ A(k - 1) \in Int /\ B(k - 1) \in Int /\ A(k) \in Int /\ B(k) \in Int
        /\ A(k) = A(k - 1) + h /\ B(k) = B(k - 1) + A(k)
    <3> DEFINE h1 == IF k = i THEN d ELSE 0
               h2 == IF k = j THEN e ELSE 0
               p == First(k - 1, i, d)
               p1 == First(k, i, d)
               q == First(k - 1, j, e)
               q1 == First(k, j, e)
               r == Second(k - 1, i, d)
               r1 == Second(k, i, d)
               w == Second(k - 1, j, e)
               w1 == Second(k, j, e)
    <3>1. OneDrifts(k, i, d) /\ OneDrifts(k, j, e)
      BY <2>1, EachDrifts
    <3>2. /\ p \in Int /\ q \in Int /\ r \in Int /\ w \in Int
          /\ p1 \in Int /\ q1 \in Int /\ r1 \in Int /\ w1 \in Int
          /\ p1 = p + h1 /\ q1 = q + h2 /\ r1 = r + p1 /\ w1 = w + q1
      BY <3>1 DEF OneDrifts
    <3>3. /\ h = h1 + h2 /\ h1 \in Int /\ h2 \in Int
          /\ A(k - 1) = p + q /\ A(k) = p1 + q1
          /\ B(k - 1) = r + w /\ B(k) = r1 + w1
      OBVIOUS
    <3> HIDE DEF A, B, h, h1, h2, p, p1, q, q1, r, r1, w, w1
    <3>4. QED
      BY <3>2, <3>3
  <2>5. /\ Added(a[k - 1], b[k - 1], x[k], a[k], b[k])
        /\ Added(f[k - 1], g[k - 1], y[k], f[k], g[k])
    BY <1>1, <1>2 DEF IsTrace
  <2>6. Near(f[k - 1], a[k - 1], A(k - 1)) /\ Near(g[k - 1], b[k - 1], B(k - 1))
    BY <1>4
  <2> HIDE DEF A, B, h, S
  <2>7. Near(f[k], a[k], A(k))
    <3>1. Near(y[k], x[k], h)
      BY <2>3, NearByOffset
    <3>2. Near((f[k - 1] + y[k]) % 255, (a[k - 1] + x[k]) % 255, A(k - 1) + h)
      BY <2>6, <3>1, NearAdds
    <3>3. QED
      BY <2>4, <2>5, <3>2 DEF Added
  <2>8. Near(g[k], b[k], B(k))
    <3>1. Near((g[k - 1] + f[k]) % 255, (b[k - 1] + a[k]) % 255, B(k - 1) + A(k))
      BY <2>6, <2>7, NearAdds
    <3>2. QED
      BY <2>4, <2>5, <3>1 DEF Added
  <2>9. QED
    BY <2>1, <2>7, <2>8 DEF S
<1> HIDE DEF A, B
<1>5. n \in S
  <2> HIDE DEF S
  <2>1. QED
    BY <1>3, <1>4, InductionUpTo
<1>6. QED
  BY <1>1, <1>2, <1>5 DEF A, B

-----------------------------------------------------------------------------
(***************************************************************************)
(* What the flip of bit k adds to its byte.                                *)
(***************************************************************************)
Amounts(k) == {Bit[k + 1], -Bit[k + 1]}

AllAmounts == {1, 2, 4, 8, 16, 32, 64, 128, -1, -2, -4, -8, -16, -32, -64, -128}

LEMMA AmountsAre ==
    ASSUME NEW k \in 0..7, NEW d \in Amounts(k)
    PROVE  d \in AllAmounts /\ d \in Int
<1>1. k = 0 \/ k = 1 \/ k = 2 \/ k = 3 \/ k = 4 \/ k = 5 \/ k = 6 \/ k = 7
  OBVIOUS
<1>2. QED
  BY <1>1 DEF Amounts, AllAmounts, Bit

LEMMA OppositeAmounts ==
    ASSUME NEW k \in 0..7, NEW d \in Amounts(k),
           NEW l \in 0..7, NEW e \in Amounts(l), e = -d
    PROVE  k = l
<1>1. k = 0 \/ k = 1 \/ k = 2 \/ k = 3 \/ k = 4 \/ k = 5 \/ k = 6 \/ k = 7
  OBVIOUS
<1>2. l = 0 \/ l = 1 \/ l = 2 \/ l = 3 \/ l = 4 \/ l = 5 \/ l = 6 \/ l = 7
  OBVIOUS
<1>3. QED
  BY <1>1, <1>2 DEF Amounts, Bit

LEMMA FlipAddsAmount ==
    ASSUME NEW byte \in Byte, NEW k \in 0..7
    PROVE  \E d \in Amounts(k) : WithBitFlipped(byte, k) = byte + d
<1>1. byte \in Int /\ Bit[k + 1] \in Int
  <2>1. k = 0 \/ k = 1 \/ k = 2 \/ k = 3 \/ k = 4 \/ k = 5 \/ k = 6 \/ k = 7
    OBVIOUS
  <2>2. QED
    BY <2>1, ByteIsNat DEF Bit
<1> DEFINE b == Bit[k + 1]
<1>2. WithBitFlipped(byte, k) = byte + b \/ WithBitFlipped(byte, k) = byte - b
  BY DEF WithBitFlipped
<1>3. b \in Amounts(k) /\ -b \in Amounts(k)
  BY DEF Amounts
<1> HIDE DEF b
<1>4. b \in Int
  BY <1>1 DEF b
<1>5. byte - b = byte + (-b)
  BY <1>1, <1>4
<1>6. QED
  BY <1>2, <1>3, <1>5

(***************************************************************************)
(* The numbers: two amounts whose sum is a multiple of 255 cancel, and no  *)
(* distance under 255 makes a multiple of 255 out of one.                  *)
(***************************************************************************)
LEMMA SumOfAmounts ==
    ASSUME NEW d \in AllAmounts, NEW e \in AllAmounts \cup {0}, NEW m \in Int
    PROVE  /\ d + e = 255 * m => e = -d
           /\ d # 255 * m
           /\ d - e = 255 * m => e = d
BY DEF AllAmounts

LEMMA TimesDistance ==
    ASSUME NEW d \in AllAmounts, NEW w \in 1..255, NEW m \in Int,
           d * w = 255 * m
    PROVE  w = 255
<1> USE DEF AllAmounts
<1>1. CASE d = 1 BY <1>1
<1>2. CASE d = 2 BY <1>2
<1>3. CASE d = 4 BY <1>3
<1>4. CASE d = 8 BY <1>4
<1>5. CASE d = 16 BY <1>5
<1>6. CASE d = 32 BY <1>6
<1>7. CASE d = 64 BY <1>7
<1>8. CASE d = 128 BY <1>8
<1>9. CASE d = -1 BY <1>9
<1>10. CASE d = -2 BY <1>10
<1>11. CASE d = -4 BY <1>11
<1>12. CASE d = -8 BY <1>12
<1>13. CASE d = -16 BY <1>13
<1>14. CASE d = -32 BY <1>14
<1>15. CASE d = -64 BY <1>15
<1>16. CASE d = -128 BY <1>16
<1>17. QED
  BY <1>1, <1>2, <1>3, <1>4, <1>5, <1>6, <1>7, <1>8,
     <1>9, <1>10, <1>11, <1>12, <1>13, <1>14, <1>15, <1>16

(***************************************************************************)
(* What a change of the i-th byte does to the test of the header: to the   *)
(* first sum less what is stored of it in byte 1, to the second less what  *)
(* is stored of it in byte 2.  Bytes 3 to 8 are summed.                    *)
(***************************************************************************)
FirstWeight(i) == IF i = 1 THEN -1 ELSE IF i \in 3..8 THEN 1 ELSE 0

SecondWeight(i) == IF i = 2 THEN -1 ELSE IF i \in 3..8 THEN 9 - i ELSE 0

LEMMA HeaderNumbers ==
    ASSUME NEW i \in 1..8, NEW j \in Nat, j >= i,
           NEW d \in AllAmounts, NEW e \in AllAmounts \cup {0}, j = i => e # -d,
           NEW m1 \in Int, NEW m2 \in Int
    PROVE  ~ /\ d * FirstWeight(i) + e * FirstWeight(j) = 255 * m1
             /\ d * SecondWeight(i) + e * SecondWeight(j) = 255 * m2
<1> SUFFICES ASSUME d * FirstWeight(i) + e * FirstWeight(j) = 255 * m1,
                    d * SecondWeight(i) + e * SecondWeight(j) = 255 * m2
             PROVE  FALSE
  OBVIOUS
<1>0. d \in Int /\ e \in Int /\ e \in AllAmounts \cup {0} /\ e * 0 = 0 /\ d * 0 = 0
  BY DEF AllAmounts
<1> DEFINE n1 == -m1
           n2 == -m2
<1>a. n1 \in Int /\ n2 \in Int /\ 255 * n1 = -(255 * m1) /\ 255 * n2 = -(255 * m2)
  OBVIOUS
<1> HIDE DEF n1, n2
<1>1. CASE i = 1
  <2>1. FirstWeight(i) = -1 /\ SecondWeight(i) = 0
    BY <1>1 DEF FirstWeight, SecondWeight
  <2>2. CASE j \in 3..8
    <3>1. FirstWeight(j) = 1 /\ SecondWeight(j) = 9 - j /\ 9 - j \in 1..6
      BY <2>2 DEF FirstWeight, SecondWeight
    <3>2. e - d = 255 * m1 /\ e * (9 - j) = 255 * m2
      BY <1>0, <2>1, <3>1
    <3>3. e # 0
      <4>1. d # 255 * n1
        BY <1>a, SumOfAmounts
      <4>2. QED
        BY <1>0, <1>a, <3>2, <4>1
    <3>4. e \in AllAmounts /\ 9 - j \in 1..255 /\ 9 - j # 255
      BY <1>0, <3>1, <3>3
    <3>5. QED
      BY <3>2, <3>4, TimesDistance
  <2>3. CASE j = 1
    <3>1. d * (-1) + e * (-1) = 255 * m1
      BY <1>1, <2>1, <2>3
    <3>2. d + e = 255 * n1
      BY <1>0, <1>a, <3>1
    <3>3. e = -d
      BY <1>a, <3>2, SumOfAmounts
    <3>4. QED
      BY <1>1, <2>3, <3>3
  <2>4. CASE j \notin 3..8 /\ j # 1
    <3>1. FirstWeight(j) = 0
      BY <2>4 DEF FirstWeight
    <3>2. d = 255 * n1
      BY <1>0, <1>a, <2>1, <3>1
    <3>3. QED
      BY <1>a, <3>2, SumOfAmounts
  <2>5. QED
    BY <2>2, <2>3, <2>4
<1>2. CASE i = 2
  <2>1. FirstWeight(i) = 0 /\ SecondWeight(i) = -1
    BY <1>2 DEF FirstWeight, SecondWeight
  <2>2. CASE j \in 3..8
    <3>1. FirstWeight(j) = 1
      BY <2>2 DEF FirstWeight
    <3>2. e = 255 * m1
      BY <1>0, <2>1, <3>1
    <3>3. e = 0
      <4>1. CASE e \in AllAmounts
        BY <3>2, <4>1, SumOfAmounts
      <4>2. QED
        BY <1>0, <4>1
    <3>4. d = 255 * n2
      <4>1. SecondWeight(j) \in Int
        BY DEF SecondWeight
      <4>2. QED
        BY <1>0, <1>a, <2>1, <3>3, <4>1
    <3>5. QED
      BY <1>a, <3>4, SumOfAmounts
  <2>3. CASE j = 2
    <3>1. d * (-1) + e * (-1) = 255 * m2
      BY <1>2, <2>1, <2>3
    <3>2. d + e = 255 * n2
      BY <1>0, <1>a, <3>1
    <3>3. e = -d
      BY <1>a, <3>2, SumOfAmounts
    <3>4. QED
      BY <1>2, <2>3, <3>3
  <2>4. CASE j > 8
    <3>1. SecondWeight(j) = 0
      BY <2>4 DEF SecondWeight
    <3>2. d = 255 * n2
      BY <1>0, <1>a, <2>1, <3>1
    <3>3. QED
      BY <1>a, <3>2, SumOfAmounts
  <2>5. QED
    BY <1>2, <2>2, <2>3, <2>4
<1>3. CASE i \in 3..8
  <2>1. FirstWeight(i) = 1 /\ SecondWeight(i) = 9 - i
    BY <1>3 DEF FirstWeight, SecondWeight
  <2>2. CASE j \in 3..8
    <3>1. FirstWeight(j) = 1 /\ SecondWeight(j) = 9 - j
      BY <2>2 DEF FirstWeight, SecondWeight
    <3>2. d + e = 255 * m1 /\ d * (9 - i) + e * (9 - j) = 255 * m2
      BY <1>0, <2>1, <3>1
    <3>3. e = -d
      BY <3>2, SumOfAmounts
    <3>4. j - i \in 1..255 /\ j - i # 255
      BY <1>3, <2>2, <3>3
    <3>5. d * (9 - i) + (-d) * (9 - j) = d * (j - i)
      BY <1>0, <1>3, <2>2
    <3>6. d * (j - i) = 255 * m2
      BY <3>2, <3>3, <3>5
    <3>7. QED
      BY <3>4, <3>6, TimesDistance
  <2>3. CASE j > 8
    <3>1. FirstWeight(j) = 0
      BY <2>3 DEF FirstWeight
    <3>2. d = 255 * m1
      BY <1>0, <2>1, <3>1
    <3>3. QED
      BY <3>2, SumOfAmounts
  <2>4. QED
    BY <1>3, <2>2, <2>3
<1>4. QED
  BY <1>1, <1>2, <1>3

(***************************************************************************)
(* A section of the datagram: the n bytes after the first off.             *)
(***************************************************************************)
Inside(i, off, n, d) == IF i - off \in 1..n THEN d ELSE 0

Weighted(i, off, n, d) == IF i - off \in 1..n THEN d * (n - (i - off) + 1) ELSE 0

IsSection(z, x, off, n) == \A k \in 1..n : z[k] = x[off + k]

\* Where the i-th byte is in the section; outside of it nothing is added.
Place(i, off, n) == IF i - off \in 1..n THEN i - off ELSE 1

LEMMA PlaceDrifts ==
    ASSUME NEW i \in Nat, NEW off \in Nat, NEW n \in Nat, n > 0, NEW d \in Int
    PROVE  /\ Place(i, off, n) \in Nat \ {0} /\ Inside(i, off, n, d) \in Int
           /\ First(n, Place(i, off, n), Inside(i, off, n, d))
                = Inside(i, off, n, d)
           /\ Second(n, Place(i, off, n), Inside(i, off, n, d))
                = Weighted(i, off, n, d)
<1>1. CASE i - off \in 1..n
  <2> DEFINE p == i - off
  <2>1. p \in Nat \ {0} /\ p <= n
    BY <1>1
  <2>2. Place(i, off, n) = p /\ Inside(i, off, n, d) = d
        /\ Weighted(i, off, n, d) = d * (n - p + 1)
    BY <1>1 DEF Place, Inside, Weighted
  <2> HIDE DEF p
  <2>3. First(n, p, d) = d /\ Second(n, p, d) = d * (n - p + 1)
    BY <2>1 DEF First, Second
  <2>4. QED
    BY <2>1, <2>2, <2>3
<1>2. CASE i - off \notin 1..n
  <2>1. Place(i, off, n) = 1 /\ Inside(i, off, n, d) = 0
        /\ Weighted(i, off, n, d) = 0
    BY <1>2 DEF Place, Inside, Weighted
  <2>2. 0 * (n - 1 + 1) = 0
    OBVIOUS
  <2>3. First(n, 1, 0) = 0 /\ Second(n, 1, 0) = 0
    BY <2>2 DEF First, Second
  <2>4. QED
    BY <2>1, <2>3
<1>3. QED
  BY <1>1, <1>2

LEMMA SectionDiffers ==
    ASSUME NEW x, NEW y, NEW N \in Nat, NEW off \in Nat, NEW n \in Nat,
           n > 0, off + n <= N,
           NEW i \in Nat, NEW d \in Int, NEW j \in Nat, NEW e \in Int,
           DiffersBy(x, y, N, i, d, j, e),
           NEW z, IsSection(z, x, off, n), NEW w, IsSection(w, y, off, n)
    PROVE  DiffersBy(z, w, n, Place(i, off, n), Inside(i, off, n, d),
                              Place(j, off, n), Inside(j, off, n, e))
<1> SUFFICES ASSUME NEW k \in 1..n
             PROVE  /\ z[k] \in Int /\ w[k] \in Int
                    /\ w[k] = z[k]
                         + ((IF k = Place(i, off, n) THEN Inside(i, off, n, d) ELSE 0)
                            + (IF k = Place(j, off, n) THEN Inside(j, off, n, e) ELSE 0))
  BY DEF DiffersBy
<1>1. off + k \in 1..N
  OBVIOUS
<1>2. /\ x[off + k] \in Int /\ y[off + k] \in Int
      /\ y[off + k] = x[off + k] + ((IF off + k = i THEN d ELSE 0)
                                      + (IF off + k = j THEN e ELSE 0))
  BY <1>1 DEF DiffersBy
<1>3. z[k] = x[off + k] /\ w[k] = y[off + k]
  BY DEF IsSection
<1>4. (IF k = Place(i, off, n) THEN Inside(i, off, n, d) ELSE 0)
         = (IF off + k = i THEN d ELSE 0)
  BY DEF Place, Inside
<1>5. (IF k = Place(j, off, n) THEN Inside(j, off, n, e) ELSE 0)
         = (IF off + k = j THEN e ELSE 0)
  BY DEF Place, Inside
<1>6. QED
  BY <1>2, <1>3, <1>4, <1>5

LEMMA SectionDrift ==
    ASSUME NEW x, NEW y, NEW N \in Nat, NEW off \in Nat, NEW n \in Nat,
           n > 0, off + n <= N,
           NEW i \in Nat, NEW d \in Int, NEW j \in Nat, NEW e \in Int,
           DiffersBy(x, y, N, i, d, j, e),
           NEW z, IsSection(z, x, off, n), NEW w, IsSection(w, y, off, n),
           NEW s, NEW t, SumsTo(z, n, s, t),
           NEW u, NEW v, SumsTo(w, n, u, v)
    PROVE  /\ Near(u, s, Inside(i, off, n, d) + Inside(j, off, n, e))
           /\ Near(v, t, Weighted(i, off, n, d) + Weighted(j, off, n, e))
<1>1. DiffersBy(z, w, n, Place(i, off, n), Inside(i, off, n, d),
                         Place(j, off, n), Inside(j, off, n, e))
  BY SectionDiffers
<1>2. /\ Place(i, off, n) \in Nat \ {0} /\ Inside(i, off, n, d) \in Int
      /\ First(n, Place(i, off, n), Inside(i, off, n, d))
           = Inside(i, off, n, d)
      /\ Second(n, Place(i, off, n), Inside(i, off, n, d))
           = Weighted(i, off, n, d)
  BY PlaceDrifts
<1>3. /\ Place(j, off, n) \in Nat \ {0} /\ Inside(j, off, n, e) \in Int
      /\ First(n, Place(j, off, n), Inside(j, off, n, e))
           = Inside(j, off, n, e)
      /\ Second(n, Place(j, off, n), Inside(j, off, n, e))
           = Weighted(j, off, n, e)
  BY PlaceDrifts
<1> DEFINE p == Place(i, off, n)
           q == Place(j, off, n)
           D == Inside(i, off, n, d)
           E == Inside(j, off, n, e)
<1>4. DiffersBy(z, w, n, p, D, q, E) /\ p \in Nat \ {0} /\ q \in Nat \ {0}
      /\ D \in Int /\ E \in Int
  BY <1>1, <1>2, <1>3
<1> HIDE DEF p, q, D, E
<1>5. /\ Near(u, s, First(n, p, D) + First(n, q, E))
      /\ Near(v, t, Second(n, p, D) + Second(n, q, E))
  BY <1>4, Drift
<1>6. QED
  BY <1>2, <1>3, <1>5 DEF p, q, D, E

-----------------------------------------------------------------------------
(***************************************************************************)
(* c1 and c2 are the checksum of the section of w.                         *)
(***************************************************************************)
IsChecksum(w, off, n, c1, c2) ==
    \E z, s, t : /\ IsSection(z, w, off, n) /\ SumsTo(z, n, s, t)
                 /\ c1 = F!Stored(s) /\ c2 = F!Stored(t)

LEMMA StoredNear ==
    ASSUME NEW s \in Residue
    PROVE  \E m \in Int : F!Stored(s) = s + 255 * m
<1>1. CASE s = 0
  <2>1. F!Stored(s) = s + 255 * 1
    BY <1>1 DEF F!Stored
  <2>2. QED
    BY <2>1
<1>2. CASE s # 0
  <2>1. F!Stored(s) = s + 255 * 0
    BY <1>2 DEF F!Stored, Residue
  <2>2. QED
    BY <2>1
<1>3. QED
  BY <1>1, <1>2

(***************************************************************************)
(* A stored sum that has changed by h while the sum drifted by drift.      *)
(***************************************************************************)
LEMMA StoredDrift ==
    ASSUME NEW s \in Residue, NEW u \in Residue, NEW drift \in Int, NEW h \in Int,
           Near(u, s, drift), F!Stored(u) = F!Stored(s) + h
    PROVE  \E m \in Int : drift - h = 255 * m
<1>1. s \in Int /\ u \in Int
  BY ResidueIsInt
<1>2. PICK p \in Int : u = s + drift + 255 * p
  BY DEF Near
<1>3. PICK a \in Int : F!Stored(u) = u + 255 * a
  BY StoredNear
<1>4. PICK b \in Int : F!Stored(s) = s + 255 * b
  BY StoredNear
<1> DEFINE m == b - a - p
<1>5. drift - h = 255 * m /\ m \in Int
  BY <1>1, <1>2, <1>3, <1>4
<1> HIDE DEF m
<1>6. QED
  BY <1>5

LEMMA SumsAreResidues ==
    ASSUME NEW x, NEW n \in Nat, NEW s, NEW t, SumsTo(x, n, s, t)
    PROVE  s \in Residue /\ t \in Residue
<1>1. PICK a \in [0..n -> Residue], b \in [0..n -> Residue] : a[n] = s /\ b[n] = t
  BY Zenon DEF SumsTo
<1>2. n \in 0..n
  OBVIOUS
<1>3. QED
  BY <1>1, <1>2

\* What a change of the i-th byte does to a byte where a sum is stored.
There(k, i, d) == IF k = i THEN d ELSE 0

LEMMA WeightsAre ==
    ASSUME NEW i \in Nat \ {0}, NEW d \in Int
    PROVE  /\ d * FirstWeight(i) = Inside(i, 2, 6, d) - There(1, i, d)
           /\ d * SecondWeight(i) = Weighted(i, 2, 6, d) - There(2, i, d)
           /\ Inside(i, 2, 6, d) \in Int /\ Weighted(i, 2, 6, d) \in Int
           /\ There(1, i, d) \in Int /\ There(2, i, d) \in Int
<1>1. CASE i = 1
  BY <1>1 DEF FirstWeight, SecondWeight, Inside, Weighted, There
<1>2. CASE i = 2
  BY <1>2 DEF FirstWeight, SecondWeight, Inside, Weighted, There
<1>3. CASE i \in 3..8
  <2>1. i - 2 \in 1..6 /\ i # 1 /\ i # 2 /\ 6 - (i - 2) + 1 = 9 - i
    BY <1>3
  <2>2. Inside(i, 2, 6, d) = d /\ Weighted(i, 2, 6, d) = d * (9 - i)
    BY <2>1 DEF Inside, Weighted
  <2>3. FirstWeight(i) = 1 /\ SecondWeight(i) = 9 - i
    BY <1>3, <2>1 DEF FirstWeight, SecondWeight
  <2>4. There(1, i, d) = 0 /\ There(2, i, d) = 0
    BY <2>1 DEF There
  <2>5. d * (9 - i) \in Int /\ d * 1 = d
    BY <1>3
  <2>6. QED
    BY <2>2, <2>3, <2>4, <2>5
<1>4. CASE i > 8
  <2>1. i - 2 \notin 1..6 /\ i # 1 /\ i # 2 /\ i \notin 3..8 /\ d * 0 = 0
    BY <1>4
  <2>2. QED
    BY <2>1 DEF FirstWeight, SecondWeight, Inside, Weighted, There
<1>5. QED
  BY <1>1, <1>2, <1>3, <1>4

(***************************************************************************)
(* One or two flips, the first of them in byte i, do not pass the test of  *)
(* the header if byte i is in it.                                          *)
(***************************************************************************)
LEMMA HeaderTest ==
    ASSUME NEW x, NEW y, NEW N \in Nat, N >= 8,
           NEW i \in Nat \ {0}, NEW j \in Nat \ {0}, j >= i,
           NEW d \in AllAmounts, NEW e \in AllAmounts \cup {0}, j = i => e # -d,
           DiffersBy(x, y, N, i, d, j, e),
           IsChecksum(x, 2, 6, x[1], x[2]), IsChecksum(y, 2, 6, y[1], y[2])
    PROVE  i > 8
<1> SUFFICES ASSUME i <= 8 PROVE FALSE
  OBVIOUS
<1>1. d \in Int /\ e \in Int
  BY DEF AllAmounts
<1>2. PICK z, s, t : /\ IsSection(z, x, 2, 6) /\ SumsTo(z, 6, s, t)
                     /\ x[1] = F!Stored(s) /\ x[2] = F!Stored(t)
  BY DEF IsChecksum
<1>3. PICK w, u, v : /\ IsSection(w, y, 2, 6) /\ SumsTo(w, 6, u, v)
                     /\ y[1] = F!Stored(u) /\ y[2] = F!Stored(v)
  BY DEF IsChecksum
<1>4. s \in Residue /\ t \in Residue /\ u \in Residue /\ v \in Residue
  BY <1>2, <1>3, SumsAreResidues
<1> DEFINE drift1 == Inside(i, 2, 6, d) + Inside(j, 2, 6, e)
           drift2 == Weighted(i, 2, 6, d) + Weighted(j, 2, 6, e)
           h1 == There(1, i, d) + There(1, j, e)
           h2 == There(2, i, d) + There(2, j, e)
<1>5. Near(u, s, drift1) /\ Near(v, t, drift2)
  <2>1. /\ 2 \in Nat /\ 6 \in Nat /\ 6 > 0 /\ 2 + 6 <= N
        /\ i \in Nat /\ j \in Nat
    OBVIOUS
  <2>2. /\ Near(u, s, Inside(i, 2, 6, d) + Inside(j, 2, 6, e))
        /\ Near(v, t, Weighted(i, 2, 6, d) + Weighted(j, 2, 6, e))
    <3> HIDE DEF drift1, drift2, h1, h2
    <3>1. QED
      BY <1>1, <1>2, <1>3, <2>1, SectionDrift, ZenonT(30)
  <2>3. QED
    BY <2>2
<1>6. y[1] = x[1] + h1 /\ y[2] = x[2] + h2
  BY DEF DiffersBy, There
<1>7. /\ d * FirstWeight(i) + e * FirstWeight(j) = drift1 - h1
      /\ d * SecondWeight(i) + e * SecondWeight(j) = drift2 - h2
      /\ drift1 \in Int /\ drift2 \in Int /\ h1 \in Int /\ h2 \in Int
  <2>1. /\ d * FirstWeight(i) = Inside(i, 2, 6, d) - There(1, i, d)
        /\ d * SecondWeight(i) = Weighted(i, 2, 6, d) - There(2, i, d)
        /\ Inside(i, 2, 6, d) \in Int /\ Weighted(i, 2, 6, d) \in Int
        /\ There(1, i, d) \in Int /\ There(2, i, d) \in Int
    BY <1>1, WeightsAre
  <2>2. /\ e * FirstWeight(j) = Inside(j, 2, 6, e) - There(1, j, e)
        /\ e * SecondWeight(j) = Weighted(j, 2, 6, e) - There(2, j, e)
        /\ Inside(j, 2, 6, e) \in Int /\ Weighted(j, 2, 6, e) \in Int
        /\ There(1, j, e) \in Int /\ There(2, j, e) \in Int
    BY <1>1, WeightsAre
  <2>3. QED
    BY <2>1, <2>2
<1> HIDE DEF drift1, drift2, h1, h2
<1>8. PICK m1 \in Int : drift1 - h1 = 255 * m1
  <2>1. F!Stored(u) = F!Stored(s) + h1
    BY <1>2, <1>3, <1>6
  <2>2. QED
    BY <1>4, <1>5, <1>7, <2>1, StoredDrift
<1>9. PICK m2 \in Int : drift2 - h2 = 255 * m2
  <2>1. F!Stored(v) = F!Stored(t) + h2
    BY <1>2, <1>3, <1>6
  <2>2. QED
    BY <1>4, <1>5, <1>7, <2>1, StoredDrift
<1>10. /\ d * FirstWeight(i) + e * FirstWeight(j) = 255 * m1
       /\ d * SecondWeight(i) + e * SecondWeight(j) = 255 * m2
  BY <1>7, <1>8, <1>9
<1>11. i \in 1..8 /\ j \in Nat
  OBVIOUS
<1>12. QED
  BY <1>10, <1>11, HeaderNumbers

(***************************************************************************)
(* Nor the test of the data, unless they cancel out: a full packet, its    *)
(* first byte and its last, changed by opposite amounts.                   *)
(***************************************************************************)
LEMMA DataTest ==
    ASSUME NEW x, NEW y, NEW N \in Nat, N >= 8, N <= 264,
           NEW i \in Nat, NEW j \in Nat, 8 < i, i <= j, j <= N,
           NEW d \in AllAmounts, NEW e \in AllAmounts \cup {0}, j = i => e # -d,
           DiffersBy(x, y, N, i, d, j, e),
           IsChecksum(x, 8, N - 8, x[7], x[8]), IsChecksum(y, 8, N - 8, y[7], y[8])
    PROVE  j = i + 255 /\ e = -d
<1> DEFINE n == N - 8
<1>1. n \in Nat /\ n > 0 /\ 8 + n <= N
  OBVIOUS
<1>2. d \in Int /\ e \in Int
  BY DEF AllAmounts
<1>3. PICK z, s, t : /\ IsSection(z, x, 8, n) /\ SumsTo(z, n, s, t)
                     /\ x[7] = F!Stored(s) /\ x[8] = F!Stored(t)
  BY DEF IsChecksum
<1>4. PICK w, u, v : /\ IsSection(w, y, 8, n) /\ SumsTo(w, n, u, v)
                     /\ y[7] = F!Stored(u) /\ y[8] = F!Stored(v)
  BY DEF IsChecksum
<1>5. y[7] = x[7] /\ y[8] = x[8]
  <2>1. 7 \in 1..N /\ 8 \in 1..N /\ 7 # i /\ 8 # i /\ 7 # j /\ 8 # j
    OBVIOUS
  <2>2. QED
    BY <2>1 DEF DiffersBy
<1> DEFINE p == i - 8
           q == j - 8
<1>6. p \in 1..n /\ q \in 1..n /\ p <= q /\ q - p = j - i
  OBVIOUS
<1>7. /\ Inside(i, 8, n, d) = d /\ Weighted(i, 8, n, d) = d * (n - p + 1)
      /\ Inside(j, 8, n, e) = e /\ Weighted(j, 8, n, e) = e * (n - q + 1)
  BY <1>6 DEF Inside, Weighted
<1> HIDE DEF n, p, q
<1>8. s \in Residue /\ t \in Residue /\ u \in Residue /\ v \in Residue
  BY <1>1, <1>3, <1>4, SumsAreResidues
<1>9. Near(u, s, d + e) /\ Near(v, t, d * (n - p + 1) + e * (n - q + 1))
  <2>1. /\ Near(u, s, Inside(i, 8, n, d) + Inside(j, 8, n, e))
        /\ Near(v, t, Weighted(i, 8, n, d) + Weighted(j, 8, n, e))
    BY <1>1, <1>2, <1>3, <1>4, SectionDrift, ZenonT(30)
  <2>2. QED
    BY <1>7, <2>1
<1>10. PICK m1 \in Int : d + e = 255 * m1
  <2>1. d + e \in Int /\ F!Stored(u) = F!Stored(s) + 0
    BY <1>2, <1>3, <1>4, <1>5, <1>8 DEF F!Stored, Residue
  <2>2. PICK m \in Int : (d + e) - 0 = 255 * m
    <3> DEFINE drift == d + e
    <3>1. drift \in Int /\ Near(u, s, drift)
      BY <1>9, <2>1
    <3> HIDE DEF drift
    <3>2. \E m \in Int : drift - 0 = 255 * m
      BY <1>8, <2>1, <3>1, StoredDrift, SMTT(30)
    <3>3. QED
      BY <3>2 DEF drift
  <2>3. QED
    BY <1>2, <2>2
<1>11. e = -d
  BY <1>10, SumOfAmounts
<1>12. d * (n - p + 1) + e * (n - q + 1) = d * (q - p)
  BY <1>1, <1>2, <1>6, <1>11
<1>13. PICK m2 \in Int : d * (q - p) = 255 * m2
  <2>1. d * (q - p) \in Int /\ F!Stored(v) = F!Stored(t) + 0
    BY <1>2, <1>3, <1>4, <1>5, <1>6, <1>8 DEF F!Stored, Residue
  <2>2. Near(v, t, d * (q - p))
    BY <1>9, <1>12
  <2>3. PICK m \in Int : d * (q - p) - 0 = 255 * m
    BY <1>8, <2>1, <2>2, StoredDrift
  <2>4. QED
    BY <2>1, <2>3
<1>14. q - p \in 1..255
  <2>1. j # i /\ j - i <= 255
    BY <1>11
  <2>2. QED
    BY <1>6, <2>1
<1>15. q - p = 255
  BY <1>13, <1>14, TimesDistance
<1>16. QED
  BY <1>6, <1>11, <1>15

-----------------------------------------------------------------------------
(***************************************************************************)
(* The sums the loop has are those of the bytes it has passed.             *)
(***************************************************************************)
RunInv == SumsTo(buf, pos, sum1 % 255, sum2 % 255)

LEMMA StartBeginsRun ==
    ASSUME NEW x, Start(x)
    PROVE  RunInv'
<1>1. buf' = x /\ pos' = 0 /\ sum1' = 255 /\ sum2' = 255 /\ 255 % 255 = 0
  BY DEF Start
<1>2. QED
  BY <1>1, SumsOfNothing DEF RunInv

LEMMA RemainderIsResidue == \A v \in Int : v % 255 \in Residue
BY DEF Residue

LEMMA AddKeepsRun ==
    ASSUME SumInv, RunInv, AddByte
    PROVE  RunInv'
<1> DEFINE s == sum1 % 255
           t == sum2 % 255
           s1 == sum1' % 255
           t1 == sum2' % 255
<1>1. SumInv' /\ F!Add
  BY AddByteAdds
<1>2. pos \in Nat /\ pos' = pos + 1 /\ buf' = buf
  BY DEF SumInv, AddByte
<1>3. s1 \in Residue /\ t1 \in Residue
  <2>1. WithinBlock((pos % Block)', sum1', sum2')
    BY <1>1 DEF SumInv
  <2>2. sum1' \in Int /\ sum2' \in Int
    BY <2>1 DEF WithinBlock
  <2>3. QED
    BY <2>2, RemainderIsResidue
<1>4. Added(s, t, buf[pos + 1], s1, t1)
  BY <1>1, <1>2 DEF F!Add, Added
<1>5. SumsTo(buf, pos, s, t)
  BY DEF RunInv
<1> HIDE DEF s, t, s1, t1
<1>6. SumsTo(buf, pos + 1, s1, t1)
  BY <1>2, <1>3, <1>4, <1>5, SumsGrow
<1>7. QED
  BY <1>2, <1>6 DEF RunInv, s1, t1

(***************************************************************************)
(* When it is over, the two bytes it leaves are the checksum of what it    *)
(* was given.                                                              *)
(***************************************************************************)
LEMMA ResultIsChecksum ==
    ASSUME SumInv, RunInv, Summed, NEW w, NEW off, NEW n,
           n = Len(buf), IsSection(buf, w, off, n)
    PROVE  IsChecksum(w, off, n, Result[1], Result[2])
<1> DEFINE s == sum1 % 255
           t == sum2 % 255
<1>1. Result[1] = F!Stored(s) /\ Result[2] = F!Stored(t)
  BY ResultIsCheck DEF F!Check
<1>2. SumsTo(buf, n, s, t)
  BY DEF RunInv, Summed
<1> HIDE DEF s, t
<1>3. QED
  BY <1>1, <1>2 DEF IsChecksum

-----------------------------------------------------------------------------
(***************************************************************************)
(* A datagram as com_send makes it.                                        *)
(***************************************************************************)
Whole(w) ==
    /\ Len(w) \in 8..264
    /\ SizeOf(w) = Len(w) - 8
    /\ IsChecksum(w, 2, 6, w[1], w[2])
    /\ IsChecksum(w, 8, Len(w) - 8, w[7], w[8])

LEMMA SentIsWhole ==
    ASSUME NEW c \in Seq(Byte), Len(c) = 2,
           NEW h \in Seq(Byte), Len(h) = 6,
           NEW d \in Seq(Byte), Len(d) <= 256,
           h[1] + 256 * h[2] = Len(d),
           IsChecksum(h, 0, 6, c[1], c[2]), IsChecksum(d, 0, Len(d), h[5], h[6])
    PROVE  Whole(c \o h \o d) /\ c \o h \o d \in Seq(Byte)
<1> DEFINE f == c \o h
           w == f \o d
           n == Len(d)
<1>0. n \in Nat /\ n <= 256
  OBVIOUS
<1>1. /\ f \in Seq(Byte) /\ Len(f) = 8
      /\ \A i \in 1..8 : f[i] = IF i <= 2 THEN c[i] ELSE h[i - 2]
  <2>1. Len(c) = 2 /\ Len(c) + Len(h) = 8
    OBVIOUS
  <2>2. /\ f \in Seq(Byte) /\ Len(f) = Len(c) + Len(h)
        /\ \A i \in 1..(Len(c) + Len(h)) :
              f[i] = IF i <= Len(c) THEN c[i] ELSE h[i - Len(c)]
    BY ConcatAt, ConcatIsSeq, ZenonT(30)
  <2> HIDE DEF f
  <2>3. QED
    BY <2>1, <2>2
<1> HIDE DEF f
<1>2. /\ w \in Seq(Byte) /\ Len(w) = 8 + n
      /\ \A i \in 1..(8 + n) : w[i] = IF i <= 8 THEN f[i] ELSE d[i - 8]
  <2>1. /\ w \in Seq(Byte) /\ Len(w) = Len(f) + n
        /\ \A i \in 1..(Len(f) + n) :
              w[i] = IF i <= Len(f) THEN f[i] ELSE d[i - Len(f)]
    <3>1. f \in Seq(Byte)
      BY <1>1
    <3>2. QED
      BY <3>1, ConcatAt, ConcatIsSeq, ZenonT(30)
  <2> HIDE DEF w, n
  <2>2. QED
    BY <1>1, <2>1
<1> HIDE DEF w, n
<1>3. /\ w[1] = c[1] /\ w[2] = c[2]
      /\ \A k \in 1..6 : w[2 + k] = h[k]
      /\ \A k \in 1..n : w[8 + k] = d[k]
  <2>1. 1 \in 1..(8 + n) /\ 2 \in 1..(8 + n) /\ 1 \in 1..8 /\ 2 \in 1..8
    BY <1>0
  <2>2. w[1] = c[1] /\ w[2] = c[2]
    BY <1>1, <1>2, <2>1
  <2>3. ASSUME NEW k \in 1..6
        PROVE  w[2 + k] = h[k]
    <3>1. /\ 2 + k \in 1..(8 + n) /\ 2 + k \in 1..8 /\ 2 + k <= 8
          /\ ~(2 + k <= 2) /\ (2 + k) - 2 = k
      BY <1>0
    <3>2. w[2 + k] = f[2 + k]
      BY <1>2, <3>1
    <3>3. f[2 + k] = h[(2 + k) - 2]
      BY <1>1, <3>1
    <3>4. QED
      BY <3>1, <3>2, <3>3
  <2>4. ASSUME NEW k \in 1..n
        PROVE  w[8 + k] = d[k]
    <3>1. 8 + k \in 1..(8 + n) /\ ~(8 + k <= 8) /\ (8 + k) - 8 = k
      BY <1>0
    <3>2. QED
      BY <1>2, <3>1
  <2>5. QED
    BY <2>2, <2>3, <2>4
<1>4. w[3] = h[1] /\ w[4] = h[2] /\ w[7] = h[5] /\ w[8] = h[6]
  <2>1. /\ 2 + 1 = 3 /\ 2 + 2 = 4 /\ 2 + 5 = 7 /\ 2 + 6 = 8
        /\ 1 \in 1..6 /\ 2 \in 1..6 /\ 5 \in 1..6 /\ 6 \in 1..6
    OBVIOUS
  <2>2. QED
    BY <1>3, <2>1
<1>5. IsChecksum(w, 2, 6, w[1], w[2])
  <2>1. PICK z, s, t : /\ IsSection(z, h, 0, 6) /\ SumsTo(z, 6, s, t)
                       /\ c[1] = F!Stored(s) /\ c[2] = F!Stored(t)
    BY DEF IsChecksum
  <2>2. \A k \in 1..6 : z[k] = h[k]
    <3>1. \A k \in 1..6 : 0 + k = k
      OBVIOUS
    <3>2. QED
      BY <2>1, <3>1 DEF IsSection
  <2>3. IsSection(z, w, 2, 6)
    BY <1>3, <2>2, Zenon DEF IsSection
  <2>4. QED
    BY <1>3, <2>1, <2>3 DEF IsChecksum
<1>6. IsChecksum(w, 8, n, w[7], w[8])
  <2>1. PICK z, s, t : /\ IsSection(z, d, 0, n) /\ SumsTo(z, n, s, t)
                       /\ h[5] = F!Stored(s) /\ h[6] = F!Stored(t)
    BY DEF IsChecksum, n
  <2>2. IsSection(z, w, 8, n)
    BY <1>0, <1>3, <2>1 DEF IsSection
  <2>3. QED
    BY <1>4, <2>1, <2>2 DEF IsChecksum
<1>7. Len(w) \in 8..264 /\ Len(w) - 8 = n /\ SizeOf(w) = n
  <2>1. SizeOf(w) = n
    BY <1>4, SMTT(30) DEF SizeOf, n
  <2>2. QED
    BY <1>0, <1>2, <2>1
<1>8. Whole(w)
  BY <1>5, <1>6, <1>7 DEF Whole
<1>9. QED
  BY <1>2, <1>8 DEF w, f

-----------------------------------------------------------------------------
(***************************************************************************)
(* What the flips of the bits in S have made of x.                         *)
(***************************************************************************)
ByteOf(m) == m \div 8 + 1

Changed(x, y, m, d, n, e) == DiffersBy(x, y, Len(x), ByteOf(m), d, ByteOf(n), e)

OneFlip(x, y, S) ==
    \E m \in S : /\ S = {m}
                 /\ \E d \in Amounts(m % 8) : Changed(x, y, m, d, m, 0)

TwoFlips(x, y, S) ==
    \E m, n \in S :
        /\ m < n /\ S = {m, n}
        /\ \E d \in Amounts(m % 8), e \in Amounts(n % 8) : Changed(x, y, m, d, n, e)

Flips(x, y, S) ==
    /\ IsFiniteSet(S) /\ Len(y) = Len(x)
    /\ \A m \in S : ByteOf(m) \in 1..Len(x)
    /\ \/ S = {} /\ y = x
       \/ OneFlip(x, y, S)
       \/ TwoFlips(x, y, S)
       \/ Cardinality(S) > 2

LEMMA CardinalitiesAre ==
    /\ \A m : IsFiniteSet({m}) /\ Cardinality({m}) = 1
    /\ \A m, n : m # n => Cardinality({m, n}) = 2
<1>1. \A m : IsFiniteSet({m}) /\ Cardinality({m}) = 1
  BY FS_Singleton
<1>2. ASSUME NEW m, NEW n, m # n
      PROVE  Cardinality({m, n}) = 2
  <2>1. {m} \cup {n} = {m, n} /\ n \notin {m} /\ 1 + 1 = 2
    BY <1>2
  <2>2. Cardinality({m} \cup {n}) = Cardinality({m}) + 1
    BY <1>1, <2>1, FS_AddElement
  <2>3. QED
    BY <1>1, <2>1, <2>2
<1>3. QED
  BY <1>1, <1>2

LEMMA BytesAreInt ==
    ASSUME NEW x \in Seq(Byte)
    PROVE  \A k \in 1..Len(x) : x[k] \in Byte /\ x[k] \in Int
<1>1. \A k \in 1..Len(x) : x[k] \in Byte
  BY ElementOfSeq
<1>2. QED
  BY <1>1, ByteIsNat

(***************************************************************************)
(* One flip more, behind all the others.                                   *)
(***************************************************************************)
LEMMA FlipsGrow ==
    ASSUME NEW x \in Seq(Byte), NEW y \in Seq(Byte), NEW S \in SUBSET Nat,
           Flips(x, y, S), NEW i \in 1..Len(x), NEW k \in 0..7,
           NEW bit, bit = 8 * (i - 1) + k, \A earlier \in S : earlier < bit,
           NEW z, z = [y EXCEPT ![i] = WithBitFlipped(@, k)]
    PROVE  Flips(x, z, S \cup {bit})
<1>1. /\ bit \in Nat /\ bit \div 8 = i - 1 /\ bit % 8 = k /\ bit \notin S
      /\ ByteOf(bit) = i /\ Len(x) \in Nat
  <2>1. i \in Nat /\ i > 0 /\ Len(x) \in Nat
    OBVIOUS
  <2>2. bit \in Nat /\ bit \div 8 = i - 1 /\ bit % 8 = k
    BY <2>1
  <2>3. bit \notin S
    BY <2>2
  <2>4. QED
    BY <2>1, <2>2, <2>3 DEF ByteOf
<1>2. /\ Len(y) = Len(x) /\ Len(z) = Len(x)
      /\ \A l \in 1..Len(x) : z[l] = IF l = i THEN WithBitFlipped(y[i], k) ELSE y[l]
  <2>1. Len(y) = Len(x)
    BY DEF Flips
  <2>2. QED
    BY <2>1
<1>3. \A l \in 1..Len(x) : y[l] \in Byte /\ y[l] \in Int /\ x[l] \in Int
  BY <1>2, BytesAreInt
<1>4. PICK d \in Amounts(k) : WithBitFlipped(y[i], k) = y[i] + d
  BY <1>3, FlipAddsAmount
<1>5. d \in Int
  BY AmountsAre
<1>6. \A l \in 1..Len(x) : z[l] = y[l] + (IF l = i THEN d ELSE 0)
  BY <1>2, <1>3, <1>4, <1>5
<1>7. ASSUME NEW m, NEW a \in Int, Changed(x, y, m, a, m, 0)
      PROVE  Changed(x, z, m, a, bit, d)
  <2> DEFINE j == ByteOf(m)
  <2>1. ASSUME NEW l \in 1..Len(x)
        PROVE  /\ x[l] \in Int /\ z[l] \in Int
               /\ z[l] = x[l] + ((IF l = j THEN a ELSE 0)
                                   + (IF l = i THEN d ELSE 0))
    <3>1. y[l] = x[l] + ((IF l = j THEN a ELSE 0) + (IF l = j THEN 0 ELSE 0))
      BY <1>7 DEF Changed, DiffersBy
    <3>2. z[l] = y[l] + (IF l = i THEN d ELSE 0)
      BY <1>6
    <3>3. x[l] \in Int /\ y[l] \in Int
      BY <1>3
    <3> DEFINE h1 == IF l = j THEN a ELSE 0
               h2 == IF l = i THEN d ELSE 0
    <3>4. h1 \in Int /\ h2 \in Int /\ (IF l = j THEN 0 ELSE 0) = 0
      BY <1>5
    <3>5. y[l] = x[l] + (h1 + 0) /\ z[l] = y[l] + h2
      BY <3>1, <3>2, <3>4
    <3> HIDE DEF j, h1, h2
    <3>6. x[l] \in Int /\ z[l] \in Int /\ z[l] = x[l] + (h1 + h2)
      BY <3>3, <3>4, <3>5
    <3>7. QED
      BY <3>6 DEF h1, h2
  <2>2. QED
    BY <1>1, <2>1 DEF Changed, DiffersBy
<1> DEFINE T == S \cup {bit}
<1>8. IsFiniteSet(S) /\ IsFiniteSet(T) /\ Cardinality(T) = Cardinality(S) + 1
  <2>1. IsFiniteSet(S)
    BY DEF Flips
  <2>2. QED
    BY <1>1, <2>1, FS_AddElement
<1>9. \A m \in T : ByteOf(m) \in 1..Len(x)
  BY <1>1 DEF Flips
<1>10. \/ OneFlip(x, z, T)
       \/ TwoFlips(x, z, T)
       \/ Cardinality(T) > 2
  <2>1. CASE S = {} /\ y = x
    <3>1. T = {bit} /\ bit \in T
      BY <2>1
    <3>2. Changed(x, z, bit, d, bit, 0)
      <4>1. ASSUME NEW l \in 1..Len(x)
            PROVE  /\ x[l] \in Int /\ z[l] \in Int
                   /\ z[l] = x[l] + ((IF l = i THEN d ELSE 0)
                                       + (IF l = i THEN 0 ELSE 0))
        <5>1. z[l] = x[l] + (IF l = i THEN d ELSE 0) /\ x[l] \in Int
          BY <1>3, <1>6, <2>1
        <5>2. QED
          BY <1>5, <5>1
      <4>2. QED
        BY <1>1, <4>1 DEF Changed, DiffersBy
    <3>3. d \in Amounts(bit % 8)
      BY <1>1
    <3> HIDE DEF T
    <3>4. QED
      BY <3>1, <3>2, <3>3 DEF OneFlip
  <2>2. CASE OneFlip(x, y, S)
    <3>1. PICK m \in S : /\ S = {m}
                         /\ \E a \in Amounts(m % 8) : Changed(x, y, m, a, m, 0)
      BY <2>2 DEF OneFlip
    <3>2. PICK a \in Amounts(m % 8) : Changed(x, y, m, a, m, 0)
      BY <3>1
    <3>3. m \in Nat /\ m % 8 \in 0..7 /\ m < bit
      OBVIOUS
    <3>4. a \in Int
      BY <3>3, AmountsAre
    <3>5. Changed(x, z, m, a, bit, d)
      BY <1>7, <3>2, <3>4
    <3>6. T = {m, bit} /\ m \in T /\ bit \in T /\ d \in Amounts(bit % 8)
      BY <1>1, <3>1
    <3> HIDE DEF T
    <3>7. QED
      BY <3>3, <3>5, <3>6 DEF TwoFlips
  <2>3. CASE TwoFlips(x, y, S)
    <3>1. PICK m, n \in S : m < n /\ S = {m, n}
      BY <2>3 DEF TwoFlips
    <3>2. m # n
      BY <3>1
    <3>3. Cardinality(S) = 2
      BY <3>1, <3>2, CardinalitiesAre
    <3> HIDE DEF T
    <3>4. QED
      BY <1>8, <3>3
  <2>4. CASE Cardinality(S) > 2
    <3>1. Cardinality(S) \in Nat
      BY <1>8, FS_CardinalityType
    <3> HIDE DEF T
    <3>2. QED
      BY <1>8, <2>4, <3>1
  <2>5. QED
    BY <2>1, <2>2, <2>3, <2>4 DEF Flips
<1> HIDE DEF T
<1>11. Flips(x, z, T)
  BY <1>2, <1>8, <1>9, <1>10 DEF Flips
<1>12. QED
  BY <1>11 DEF T

(***************************************************************************)
(* One or two flips are what HeaderTest and DataTest are about.            *)
(***************************************************************************)
Pair(x, y, m, d, n, e) ==
    /\ ByteOf(m) \in 1..Len(x) /\ ByteOf(n) \in 1..Len(x)
    /\ ByteOf(m) <= ByteOf(n)
    /\ ByteOf(n) = ByteOf(m) => e # -d
    /\ e = -d => m % 8 = n % 8
    /\ Changed(x, y, m, d, n, e)

LEMMA FlipsAreAPair ==
    ASSUME NEW x, NEW y, NEW S \in SUBSET Nat, Flips(x, y, S), S # {},
           Cardinality(S) <= 2
    PROVE  \E m, n \in S : \E d \in AllAmounts, e \in AllAmounts \cup {0} :
               Pair(x, y, m, d, n, e)
<1>1. OneFlip(x, y, S) \/ TwoFlips(x, y, S)
  <2>1. Cardinality(S) \in Nat
    BY FS_CardinalityType DEF Flips
  <2>2. ~(Cardinality(S) > 2)
    BY <2>1
  <2>3. QED
    BY <2>2 DEF Flips
<1>2. CASE OneFlip(x, y, S)
  <2>1. PICK m \in S : \E d \in Amounts(m % 8) : Changed(x, y, m, d, m, 0)
    BY <1>2 DEF OneFlip
  <2>2. PICK d \in Amounts(m % 8) : Changed(x, y, m, d, m, 0)
    BY <2>1
  <2>3. m \in Nat /\ m % 8 \in 0..7 /\ ByteOf(m) \in 1..Len(x)
    BY DEF Flips
  <2>4. d \in AllAmounts
    BY <2>3, AmountsAre
  <2>5. 0 # -d
    BY <2>4 DEF AllAmounts
  <2>6. ByteOf(m) <= ByteOf(m)
    BY <2>3
  <2>7. Pair(x, y, m, d, m, 0)
    BY <2>2, <2>3, <2>5, <2>6 DEF Pair
  <2>8. QED
    BY <2>4, <2>7
<1>3. CASE TwoFlips(x, y, S)
  <2>1. PICK m, n \in S :
            /\ m < n
            /\ \E d \in Amounts(m % 8), e \in Amounts(n % 8) : Changed(x, y, m, d, n, e)
    BY <1>3 DEF TwoFlips
  <2>2. PICK d \in Amounts(m % 8), e \in Amounts(n % 8) : Changed(x, y, m, d, n, e)
    BY <2>1
  <2>3. /\ m \in Nat /\ m % 8 \in 0..7 /\ ByteOf(m) \in 1..Len(x)
        /\ n \in Nat /\ n % 8 \in 0..7 /\ ByteOf(n) \in 1..Len(x)
    BY DEF Flips
  <2>4. d \in AllAmounts /\ e \in AllAmounts /\ d \in Int /\ e \in Int
    BY <2>3, AmountsAre
  <2>5. ByteOf(m) <= ByteOf(n) /\ (ByteOf(n) = ByteOf(m) => m % 8 # n % 8)
    BY <2>1, <2>3 DEF ByteOf
  <2>6. ASSUME e = -d
        PROVE  m % 8 = n % 8
    <3> DEFINE k == m % 8
               l == n % 8
    <3>1. k \in 0..7 /\ l \in 0..7 /\ d \in Amounts(k) /\ e \in Amounts(l)
      BY <2>2, <2>3
    <3> HIDE DEF k, l
    <3>2. k = l
      BY <2>6, <3>1, OppositeAmounts
    <3>3. QED
      BY <3>2 DEF k, l
  <2>7. Pair(x, y, m, d, n, e)
    BY <2>2, <2>3, <2>5, <2>6 DEF Pair
  <2>8. QED
    BY <2>4, <2>7
<1>4. QED
  BY <1>1, <1>2, <1>3

(***************************************************************************)
(* What passes the test of the header has the header that was sent.        *)
(***************************************************************************)
LEMMA HeaderSurvives ==
    ASSUME NEW x, NEW y, Whole(x),
           IsChecksum(y, 2, 6, y[1], y[2]),
           NEW m \in Nat, NEW d \in AllAmounts,
           NEW n \in Nat, NEW e \in AllAmounts \cup {0}, Pair(x, y, m, d, n, e)
    PROVE  /\ ByteOf(m) > 8
           /\ \A k \in 1..8 : y[k] = x[k]
<1> DEFINE i == ByteOf(m)
           j == ByteOf(n)
           N == Len(x)
<1>0. N \in 8..264 /\ IsChecksum(x, 2, 6, x[1], x[2])
  BY DEF Whole
<1>1. /\ i \in 1..N /\ j \in 1..N /\ i <= j /\ (j = i => e # -d)
      /\ DiffersBy(x, y, N, i, d, j, e)
  BY Zenon DEF Pair, Changed
<1> HIDE DEF i, j, N
<1>2. i \in Nat \ {0} /\ j \in Nat \ {0} /\ j >= i /\ N \in Nat /\ N >= 8
  BY <1>0, <1>1
<1>3. i > 8
  BY <1>0, <1>1, <1>2, HeaderTest
<1>4. ASSUME NEW k \in 1..8
      PROVE  y[k] = x[k]
  <2>1. k \in 1..N /\ k # i /\ k # j
    BY <1>2, <1>3
  <2>2. x[k] \in Int /\ y[k] = x[k] + (0 + 0)
    BY <1>1, <2>1 DEF DiffersBy
  <2>3. QED
    BY <2>2
<1>5. QED
  BY <1>3, <1>4, Zenon DEF i

(***************************************************************************)
(* What passes the test of the data too is balanced.                       *)
(***************************************************************************)
LEMMA PassesOnlyIfBalanced ==
    ASSUME NEW x, NEW y, Whole(x), Len(y) = Len(x),
           IsChecksum(y, 2, 6, y[1], y[2]),
           IsChecksum(y, 8, Len(y) - 8, y[7], y[8]),
           NEW m \in Nat, NEW d \in AllAmounts,
           NEW n \in Nat, NEW e \in AllAmounts \cup {0}, Pair(x, y, m, d, n, e)
    PROVE  /\ n = m + 8 * 255 /\ m >= 64
           /\ y[ByteOf(m)] + y[ByteOf(n)] = x[ByteOf(m)] + x[ByteOf(n)]
<1> DEFINE i == ByteOf(m)
           j == ByteOf(n)
           N == Len(x)
<1>0. /\ N \in 8..264
      /\ IsChecksum(x, 8, N - 8, x[7], x[8])
      /\ IsChecksum(y, 8, N - 8, y[7], y[8])
  BY Zenon DEF Whole
<1>1. /\ i \in 1..N /\ j \in 1..N /\ i <= j
      /\ (j = i => e # -d) /\ (e = -d => m % 8 = n % 8)
      /\ DiffersBy(x, y, N, i, d, j, e)
  BY Zenon DEF Pair, Changed
<1>2. i > 8
  BY HeaderSurvives
<1> HIDE DEF i, j, N
<1>3. /\ i \in Nat /\ j \in Nat /\ 8 < i /\ j <= N
      /\ N \in Nat /\ N >= 8 /\ N <= 264
  BY <1>0, <1>1, <1>2
<1>4. j = i + 255 /\ e = -d
  BY <1>0, <1>1, <1>3, DataTest, ZenonT(30)
<1>5. n = m + 8 * 255 /\ m >= 64
  <2>1. m % 8 = n % 8 /\ n \div 8 = m \div 8 + 255 /\ m \div 8 >= 8
    BY <1>1, <1>3, <1>4 DEF i, j, ByteOf
  <2>2. QED
    BY <2>1
<1>6. y[i] + y[j] = x[i] + x[j]
  <2>1. d \in Int /\ i # j
    BY <1>3, <1>4 DEF AllAmounts
  <2>2. /\ x[i] \in Int /\ x[j] \in Int
        /\ y[i] = x[i] + (d + 0) /\ y[j] = x[j] + (0 + e)
    BY <1>1, <2>1 DEF DiffersBy
  <2> DEFINE p == x[i]
             q == x[j]
  <2>3. p \in Int /\ q \in Int /\ e \in Int /\ y[i] = p + d /\ y[j] = q + e
    <3>1. e \in Int /\ d + 0 = d /\ 0 + e = e
      BY <1>4, <2>1
    <3>2. QED
      BY <2>2, <3>1
  <2> HIDE DEF p, q
  <2>4. y[i] + y[j] = p + q
    BY <1>4, <2>1, <2>3, SMTT(30)
  <2>5. QED
    BY <2>4 DEF p, q
<1>7. QED
  BY <1>5, <1>6, Zenon DEF i, j

-----------------------------------------------------------------------------
(***************************************************************************)
(* What the checksums say of a packet on its way.                          *)
(***************************************************************************)
Underway == {"underway", "testHeader", "testData", "decode", "accepted", "faulty"}

Passed(w, off, n, k) == IsChecksum(w, off, n, w[k], w[k + 1])

WayInv ==
    /\ pc \notin Underway => flipped = {}
    /\ pc = "sumData" => buf = data
    /\ pc = "sumHeader" => buf = wire /\ IsChecksum(data, 0, Len(data), wire[5], wire[6])
    /\ pc \in Underway => Whole(sent) /\ Flips(sent, wire, flipped)
    /\ pc = "testHeader" => Len(buf) = 6 /\ IsSection(buf, wire, 2, 6)
    /\ pc \in {"testData", "decode", "accepted"} => Passed(wire, 2, 6, 1)
    /\ pc = "testData" /\ Cardinality(flipped) <= 2
          => Len(buf) = Len(wire) - 8 /\ IsSection(buf, wire, 8, Len(wire) - 8)
    /\ pc \in {"decode", "accepted"} /\ Cardinality(flipped) <= 2
          => Passed(wire, 8, Len(wire) - 8, 7)

(***************************************************************************)
(* Up to two flips that pass the test of the header leave it as it was.    *)
(***************************************************************************)
LEMMA HeaderAsSent ==
    ASSUME PacketInv, pc \in Underway, Whole(sent), Flips(sent, wire, flipped),
           Passed(wire, 2, 6, 1), Cardinality(flipped) <= 2
    PROVE  /\ \A k \in 1..8 : wire[k] = sent[k]
           /\ SizeOf(wire) = Len(wire) - 8
           /\ Len(wire) \in 8..264
<1>1. flipped \in SUBSET Nat /\ Len(wire) = Len(sent)
  BY DEF PacketInv, Flips
<1>2. \A k \in 1..8 : wire[k] = sent[k]
  <2>1. CASE flipped = {}
    <3>1. IsFiniteSet(flipped) /\ Cardinality(flipped) = 0
      BY <2>1, FS_EmptySet
    <3>2. ~(Cardinality(flipped) > 2)
      BY <3>1
    <3>3. wire = sent
      BY <2>1, <3>2 DEF Flips, OneFlip, TwoFlips
    <3>4. QED
      BY <3>3
  <2>2. CASE flipped # {}
    <3>1. PICK m, n \in flipped : \E d \in AllAmounts, e \in AllAmounts \cup {0} :
              Pair(sent, wire, m, d, n, e)
      BY <1>1, <2>2, FlipsAreAPair
    <3>2. PICK d \in AllAmounts, e \in AllAmounts \cup {0} :
              Pair(sent, wire, m, d, n, e)
      BY <3>1
    <3>3. m \in Nat /\ n \in Nat
      BY <1>1
    <3>4. IsChecksum(wire, 2, 6, wire[1], wire[2])
      BY DEF Passed
    <3>5. QED
      BY <3>2, <3>3, <3>4, HeaderSurvives
  <2>3. QED
    BY <2>1, <2>2
<1>3. SizeOf(wire) = SizeOf(sent)
  <2>1. 3 \in 1..8 /\ 4 \in 1..8
    OBVIOUS
  <2>2. QED
    BY <1>2, <2>1 DEF SizeOf
<1>4. QED
  BY <1>1, <1>2, <1>3 DEF Whole

(***************************************************************************)
(* com_receive takes the header, and then the data, out of the datagram.   *)
(***************************************************************************)
LEMMA HeaderIsSection ==
    ASSUME NEW w \in Seq(Byte), Len(w) >= 8
    PROVE  /\ Header(w) \in Seq(Byte) /\ Len(Header(w)) = 6
           /\ \A k \in 1..6 : Header(w)[k] = w[2 + k]
<1>1. Len(w) \in Nat /\ \A k \in 1..Len(w) : w[k] \in Byte
  BY ElementOfSeq
<1>2. \A k \in 3..8 : w[k] \in Byte
  BY <1>1
<1>3. /\ Header(w) \in Seq(Byte)
      /\ Len(Header(w)) = 8 - 3 + 1
      /\ \A k \in 1..(8 - 3 + 1) : Header(w)[k] = w[3 + k - 1]
  BY <1>2, SubSeqProperties DEF Header
<1>4. 8 - 3 + 1 = 6 /\ \A k \in 1..6 : 3 + k - 1 = 2 + k
  OBVIOUS
<1>5. QED
  BY <1>3, <1>4

LEMMA DataIsSection ==
    ASSUME NEW w \in Seq(Byte), NEW n \in Nat, Len(w) = 8 + n
    PROVE  /\ SubSeq(w, 9, 8 + n) \in Seq(Byte) /\ Len(SubSeq(w, 9, 8 + n)) = n
           /\ IsSection(SubSeq(w, 9, 8 + n), w, 8, n)
<1> DEFINE s == SubSeq(w, 9, 8 + n)
<1>1. Len(w) \in Nat /\ \A k \in 1..Len(w) : w[k] \in Byte
  BY ElementOfSeq
<1>2. \A k \in 9..(8 + n) : w[k] \in Byte
  BY <1>1
<1>3. /\ s \in Seq(Byte)
      /\ Len(s) = IF 9 <= 8 + n THEN (8 + n) - 9 + 1 ELSE 0
      /\ \A k \in 1..((8 + n) - 9 + 1) : s[k] = w[9 + k - 1]
  BY <1>2, SubSeqProperties
<1> HIDE DEF s
<1>4. Len(s) = n /\ \A k \in 1..n : s[k] = w[8 + k]
  BY <1>3
<1>5. QED
  BY <1>3, <1>4 DEF s, IsSection

LEMMA WayInvStart ==
    ASSUME Init
    PROVE  RunInv /\ WayInv
<1>1. buf = <<>> /\ pos = 0 /\ sum1 % 255 = 0 /\ sum2 % 255 = 0
  BY DEF Init
<1>2. RunInv
  BY <1>1, SumsOfNothing DEF RunInv
<1>3. pc = "encode" /\ flipped = {}
  BY DEF Init
<1>4. WayInv
  BY <1>3 DEF WayInv, Underway
<1>5. QED
  BY <1>2, <1>4

LEMMA NextKeepsRun ==
    ASSUME PacketInv, RunInv, [Next]_vars
    PROVE  RunInv'
<1>1. CASE Add
  BY <1>1, AddKeepsRun DEF Add, PacketInv
<1>2. CASE Encode
  BY <1>2, StartBeginsRun DEF Encode
<1>3. CASE SumData
  BY <1>3, StartBeginsRun DEF SumData
<1>4. CASE Receive
  BY <1>4, StartBeginsRun DEF Receive
<1>5. CASE TestHeader
  <2>1. UNCHANGED sumVars \/ \E x : Start(x)
    BY <1>5 DEF TestHeader
  <2>2. CASE UNCHANGED sumVars
    BY <2>2 DEF sumVars, RunInv
  <2>3. CASE \E x : Start(x)
    BY <2>3, StartBeginsRun
  <2>4. QED
    BY <2>1, <2>2, <2>3
<1>6. CASE Send \/ Flip \/ TestData \/ Decode \/ UNCHANGED vars
  <2>1. UNCHANGED sumVars
    BY <1>6 DEF Send, Flip, TestData, Decode, vars
  <2>2. QED
    BY <2>1 DEF sumVars, RunInv
<1>7. QED
  BY <1>1, <1>2, <1>3, <1>4, <1>5, <1>6 DEF Next, Over

LEMMA SumDataKeepsWay ==
    ASSUME PacketInv, RunInv, CarriedInv, WayInv, SumData
    PROVE  WayInv'
<1>1. /\ data \in Seq(Byte) /\ packet \in Packets
      /\ Result \in Seq(Byte) /\ Len(Result) = 2
  BY ResultIsCheck DEF SumData, PacketInv
<1>2. IsChecksum(data, 0, Len(data), Result[1], Result[2])
  <2>1. buf = data
    BY DEF WayInv, SumData
  <2>2. IsSection(buf, data, 0, Len(data))
    <3>1. \A k \in 1..Len(data) : 0 + k = k
      BY <1>1
    <3>2. QED
      BY <2>1, <3>1 DEF IsSection
  <2>3. SumInv /\ Summed
    BY DEF SumData, PacketInv
  <2>4. QED
    BY <2>1, <2>2, <2>3, ResultIsChecksum
<1> DEFINE size == SizeField(Len(data))
           flagsAndNr == <<packet.flags, packet.nr>>
           front == size \o flagsAndNr
<1>3. size \in Seq(Byte) /\ Len(size) = 2
  <2>1. Len(data) \in Nat
    BY <1>1
  <2>2. Len(data) % 256 \in Byte /\ (Len(data) \div 256) % 256 \in Byte
    BY <2>1, LowByte
  <2>3. QED
    BY <2>2, PairIsSeq DEF SizeField
<1>4. flagsAndNr \in Seq(Byte) /\ Len(flagsAndNr) = 2
  BY <1>1, PacketBounds, PairIsSeq
<1> HIDE DEF size, flagsAndNr
<1>5. front \in Seq(Byte) /\ Len(front) = 4
  <2>1. front \in Seq(Byte) /\ Len(front) = Len(size) + Len(flagsAndNr)
    BY <1>3, <1>4, ConcatIsSeq, Zenon
  <2>2. QED
    BY <1>3, <1>4, <2>1
<1> HIDE DEF front
<1>6. (front \o Result)[5] = Result[1] /\ (front \o Result)[6] = Result[2]
  <2>1. \A i \in 1..(Len(front) + Len(Result)) :
            (front \o Result)[i]
               = IF i <= Len(front) THEN front[i] ELSE Result[i - Len(front)]
    BY <1>1, <1>5, ConcatAt
  <2>2. /\ 5 \in 1..(Len(front) + Len(Result)) /\ 6 \in 1..(Len(front) + Len(Result))
        /\ ~(5 <= Len(front)) /\ ~(6 <= Len(front))
        /\ 5 - Len(front) = 1 /\ 6 - Len(front) = 2
    BY <1>1, <1>5
  <2>3. QED
    BY <2>1, <2>2
<1>7. /\ wire' = front \o Result /\ buf' = wire' /\ data' = data
      /\ pc' = "sumHeader"
  BY DEF SumData, Start, front, size, flagsAndNr
<1>8. IsChecksum(data', 0, Len(data'), wire'[5], wire'[6])
  BY <1>2, <1>6, <1>7
<1>9. flipped' = {}
  BY DEF SumData, WayInv, Underway
<1>10. QED
  BY <1>7, <1>8, <1>9 DEF WayInv, Underway

LEMMA SendKeepsWay ==
    ASSUME PacketInv, RunInv, CarriedInv, WayInv, Send
    PROVE  WayInv'
<1>1. /\ data \in Seq(Byte) /\ wire \in Seq(Byte) /\ Len(wire) = 6
      /\ Result \in Seq(Byte) /\ Len(Result) = 2 /\ pc = "sumHeader"
  BY ResultIsCheck DEF Send, PacketInv
<1>2. buf = wire /\ IsChecksum(data, 0, Len(data), wire[5], wire[6])
  BY <1>1 DEF WayInv
<1>3. IsChecksum(wire, 0, 6, Result[1], Result[2])
  <2>1. IsSection(buf, wire, 0, 6)
    <3>1. \A k \in 1..6 : 0 + k = k
      OBVIOUS
    <3>2. QED
      BY <1>2, <3>1 DEF IsSection
  <2>2. SumInv /\ Summed /\ Len(buf) = 6
    BY <1>1, <1>2 DEF Send, PacketInv
  <2>3. QED
    BY <2>1, <2>2, ResultIsChecksum
<1>4. Len(data) <= 256
  <2>1. data = Coded /\ packet \in Packets
    BY <1>1 DEF CarriedInv, PacketInv
  <2>2. packet.music \in Seq(Byte) /\ Len(packet.music) <= 256 /\ packet.quality \in 1..5
    BY <2>1, PacketAssumption DEF PacketAssumption
  <2>3. QED
    BY <2>1, <2>2, EncodedFits DEF Coded
<1>5. wire[1] + 256 * wire[2] = Len(data)
  BY <1>1 DEF CarriedInv
<1>6. /\ sent' = Result \o wire \o data /\ wire' = sent' /\ flipped' = flipped
      /\ pc' = "underway"
  BY DEF Send
<1>7. Whole(sent')
  BY <1>1, <1>2, <1>3, <1>4, <1>5, <1>6, SentIsWhole
<1>8. Flips(sent', wire', flipped')
  <2>1. flipped = {}
    BY <1>1 DEF WayInv, Underway
  <2>2. QED
    BY <1>6, <2>1, FS_EmptySet DEF Flips
<1>9. QED
  BY <1>6, <1>7, <1>8 DEF WayInv, Underway

LEMMA FlipKeepsWay ==
    ASSUME PacketInv, WayInv, Flip
    PROVE  WayInv'
<1>1. /\ pc = "underway" /\ pc' = pc /\ sent' = sent
      /\ sent \in Seq(Byte) /\ wire \in Seq(Byte) /\ flipped \in SUBSET Nat
      /\ Whole(sent) /\ Flips(sent, wire, flipped)
  BY DEF Flip, PacketInv, WayInv, Underway
<1>2. PICK i \in packet.mayFlip \cap (1..Len(wire)), k \in 0..7 :
          /\ \A earlier \in flipped : earlier < 8 * (i - 1) + k
          /\ flipped' = flipped \cup {8 * (i - 1) + k}
          /\ wire' = [wire EXCEPT ![i] = WithBitFlipped(@, k)]
  BY Zenon DEF Flip
<1>3. i \in 1..Len(sent)
  BY <1>1 DEF Flips
<1> DEFINE bit == 8 * (i - 1) + k
<1>4. Flips(sent, wire', flipped \cup {bit})
  <2>1. /\ bit = 8 * (i - 1) + k /\ \A earlier \in flipped : earlier < bit
        /\ wire' = [wire EXCEPT ![i] = WithBitFlipped(@, k)]
    BY <1>2
  <2> HIDE DEF bit
  <2>2. QED
    BY <1>1, <1>3, <2>1, FlipsGrow
<1>5. Whole(sent') /\ Flips(sent', wire', flipped')
  BY <1>1, <1>2, <1>4
<1>6. pc' = "underway"
  BY <1>1
<1>7. QED
  BY <1>5, <1>6 DEF WayInv, Underway

LEMMA ReceiveKeepsWay ==
    ASSUME PacketInv, WayInv, Receive
    PROVE  WayInv'
<1>1. /\ pc = "underway" /\ pc' = "testHeader"
      /\ UNCHANGED <<wire, sent, flipped>> /\ buf' = Header(wire)
      /\ wire \in Seq(Byte) /\ Len(wire) >= 8
  BY DEF Receive, Start, PacketInv
<1>2. Whole(sent') /\ Flips(sent', wire', flipped')
  BY <1>1 DEF WayInv, Underway
<1>3. Len(buf') = 6 /\ IsSection(buf', wire', 2, 6)
  BY <1>1, HeaderIsSection DEF IsSection
<1>4. QED
  BY <1>1, <1>2, <1>3 DEF WayInv, Underway

LEMMA TestHeaderKeepsWay ==
    ASSUME PacketInv, RunInv, WayInv, TestHeader
    PROVE  WayInv'
<1>1. /\ pc = "testHeader" /\ Summed /\ SumInv
      /\ UNCHANGED <<data, wire, sent, flipped>>
      /\ wire \in Seq(Byte) /\ Len(wire) >= 8
  BY DEF TestHeader, PacketInv
<1>2. /\ Whole(sent) /\ Flips(sent, wire, flipped)
      /\ Len(buf) = 6 /\ IsSection(buf, wire, 2, 6)
  BY <1>1 DEF WayInv, Underway
<1>3. Whole(sent') /\ Flips(sent', wire', flipped')
  BY <1>1, <1>2
<1>4. CASE pc' = "faulty"
  BY <1>3, <1>4 DEF WayInv, Underway
<1>5. CASE pc' # "faulty"
  <2>1. pc' = "testData" /\ Result = SubSeq(wire, 1, 2)
    BY <1>5 DEF TestHeader
  <2>2. PICK rest \in [1..(8 + SizeOf(wire) - Len(wire)) -> Leftover] :
            buf' = SubSeq(wire \o rest, 9, 8 + SizeOf(wire))
    BY <1>5 DEF TestHeader, Start
  <2>3. Passed(wire, 2, 6, 1)
    <3>1. IsChecksum(wire, 2, 6, Result[1], Result[2])
      BY <1>1, <1>2, ResultIsChecksum
    <3>2. SubSeq(wire, 1, 2)[1] = wire[1] /\ SubSeq(wire, 1, 2)[2] = wire[2]
      <4>1. \A k \in 1..2 : wire[k] \in Byte
        BY <1>1, ElementOfSeq
      <4>2. \A k \in 1..(2 - 1 + 1) : SubSeq(wire, 1, 2)[k] = wire[1 + k - 1]
        BY <4>1, SubSeqProperties
      <4>3. 1 \in 1..(2 - 1 + 1) /\ 2 \in 1..(2 - 1 + 1) /\ 1 + 1 - 1 = 1 /\ 1 + 2 - 1 = 2
        OBVIOUS
      <4>4. QED
        BY <4>2, <4>3
    <3>3. QED
      BY <2>1, <3>1, <3>2 DEF Passed
  <2>4. Passed(wire', 2, 6, 1)
    BY <1>1, <2>3
  <2>5. ASSUME Cardinality(flipped) <= 2
        PROVE  Len(buf') = Len(wire) - 8 /\ IsSection(buf', wire, 8, Len(wire) - 8)
    <3> DEFINE n == Len(wire) - 8
    <3>1. SizeOf(wire) = n /\ n \in Nat /\ Len(wire) = 8 + n
      <4>1. pc \in Underway
        BY <1>1, ZenonT(30) DEF Underway
      <4>2. SizeOf(wire) = Len(wire) - 8 /\ Len(wire) \in 8..264
        BY <1>2, <2>3, <2>5, <4>1, HeaderAsSent
      <4>3. Len(wire) - 8 \in Nat /\ Len(wire) = 8 + (Len(wire) - 8)
        BY <1>1
      <4>4. QED
        BY <4>2, <4>3
    <3> HIDE DEF n
    <3>2. 8 + SizeOf(wire) - Len(wire) = 0
      BY <3>1
    <3>3. rest = <<>>
      BY <2>2, <3>2
    <3>4. wire \o rest = wire
      BY <1>1, <3>3, ConcatEmptySeq
    <3>5. buf' = SubSeq(wire, 9, 8 + n)
      BY <2>2, <3>1, <3>4
    <3>6. Len(buf') = n /\ IsSection(buf', wire, 8, n)
      BY <1>1, <3>1, <3>5, DataIsSection
    <3>7. QED
      BY <3>6, SMTT(30) DEF n
  <2>6. /\ Cardinality(flipped') <= 2
              => Len(buf') = Len(wire') - 8 /\ IsSection(buf', wire', 8, Len(wire') - 8)
    BY <1>1, <2>5
  <2>7. QED
    BY <1>3, <2>1, <2>4, <2>6 DEF WayInv, Underway
<1>6. QED
  BY <1>4, <1>5

LEMMA TestDataKeepsWay ==
    ASSUME PacketInv, RunInv, WayInv, TestData
    PROVE  WayInv'
<1>1. /\ pc = "testData" /\ Summed /\ SumInv
      /\ UNCHANGED <<wire, sent, flipped>>
      /\ wire \in Seq(Byte) /\ Len(wire) >= 8
  BY DEF TestData, PacketInv
<1>2. Whole(sent') /\ Flips(sent', wire', flipped')
  BY <1>1 DEF WayInv, Underway
<1>3. CASE pc' = "faulty"
  BY <1>2, <1>3 DEF WayInv, Underway
<1>4. CASE pc' # "faulty"
  <2>1. pc' = "decode" /\ Result = SubSeq(wire, 7, 8)
    BY <1>4 DEF TestData
  <2>2. Passed(wire', 2, 6, 1)
    BY <1>1 DEF WayInv
  <2>3. ASSUME Cardinality(flipped) <= 2
        PROVE  Passed(wire, 8, Len(wire) - 8, 7)
    <3>1. Len(buf) = Len(wire) - 8 /\ IsSection(buf, wire, 8, Len(wire) - 8)
      BY <1>1, <2>3 DEF WayInv
    <3>2. IsChecksum(wire, 8, Len(wire) - 8, Result[1], Result[2])
      BY <1>1, <3>1, ResultIsChecksum
    <3>3. SubSeq(wire, 7, 8)[1] = wire[7] /\ SubSeq(wire, 7, 8)[2] = wire[8]
      <4>1. \A k \in 7..8 : wire[k] \in Byte
        BY <1>1, ElementOfSeq
      <4>2. \A k \in 1..(8 - 7 + 1) : SubSeq(wire, 7, 8)[k] = wire[7 + k - 1]
        BY <4>1, SubSeqProperties
      <4>3. 1 \in 1..(8 - 7 + 1) /\ 2 \in 1..(8 - 7 + 1) /\ 7 + 1 - 1 = 7 /\ 7 + 2 - 1 = 8
        OBVIOUS
      <4>4. QED
        BY <4>2, <4>3
    <3>4. QED
      BY <2>1, <3>2, <3>3 DEF Passed
  <2>4. Cardinality(flipped') <= 2 => Passed(wire', 8, Len(wire') - 8, 7)
    BY <1>1, <2>3
  <2>5. QED
    BY <1>2, <2>1, <2>2, <2>4 DEF WayInv, Underway
<1>5. QED
  BY <1>3, <1>4

LEMMA NextKeepsWay ==
    ASSUME PacketInv, RunInv, CarriedInv, WayInv, [Next]_vars
    PROVE  WayInv'
<1>1. CASE Add
  <2>1. buf' = buf /\ UNCHANGED <<pc, data, wire, sent, flipped>>
    BY <1>1 DEF Add, AddByte
  <2>2. QED
    BY <2>1 DEF WayInv, Passed
<1>2. CASE Encode
  BY <1>2 DEF Encode, Start, WayInv, Underway
<1>3. CASE SumData
  BY <1>3, SumDataKeepsWay
<1>4. CASE Send
  BY <1>4, SendKeepsWay
<1>5. CASE Flip
  BY <1>5, FlipKeepsWay
<1>6. CASE Receive
  BY <1>6, ReceiveKeepsWay
<1>7. CASE TestHeader
  BY <1>7, TestHeaderKeepsWay
<1>8. CASE TestData
  BY <1>8, TestDataKeepsWay
<1>9. CASE Decode
  <2>1. pc = "decode" /\ pc' = "accepted" /\ UNCHANGED <<wire, sent, flipped>>
    BY <1>9 DEF Decode
  <2>2. QED
    BY <2>1 DEF WayInv, Underway, Passed
<1>10. CASE UNCHANGED vars
  BY <1>10 DEF vars, sumVars, WayInv, Passed
<1>11. QED
  BY <1>1, <1>2, <1>3, <1>4, <1>5, <1>6, <1>7, <1>8, <1>9, <1>10 DEF Next, Over

LEMMA WayInvHolds == Spec => [](PacketInv /\ WayInv)
<1>1. Init => RunInv /\ WayInv
  BY WayInvStart
<1>2. PacketInv /\ CarriedInv /\ RunInv /\ WayInv /\ [Next]_vars => RunInv' /\ WayInv'
  BY NextKeepsRun, NextKeepsWay
<1>3. QED
  BY <1>1, <1>2, PacketInvHolds, CarriedInvHolds, PTL DEF Spec

-----------------------------------------------------------------------------
(***************************************************************************)
(* HeaderTrusted for every packet: with up to two flips, wherever they     *)
(* are, the size that com_receive asks the second recvfrom for is that of  *)
(* the datagram, and flags and number are those that were sent.            *)
(***************************************************************************)
THEOREM HeaderHolds == Spec => []HeaderTrusted
<1>1. PacketInv /\ WayInv => HeaderTrusted
  <2> SUFFICES ASSUME PacketInv, WayInv, pc \in {"testData", "decode", "accepted"},
                      Cardinality(flipped) <= 2
               PROVE  Header(wire) = Header(sent) /\ SizeOf(wire) = Len(wire) - 8
    BY Zenon DEF HeaderTrusted
  <2>1. /\ pc \in Underway /\ Whole(sent) /\ Flips(sent, wire, flipped)
        /\ Passed(wire, 2, 6, 1)
    BY ZenonT(30) DEF WayInv, Underway
  <2>2. /\ \A k \in 1..8 : wire[k] = sent[k]
        /\ SizeOf(wire) = Len(wire) - 8
    BY <2>1, HeaderAsSent
  <2>3. wire \in Seq(Byte) /\ sent \in Seq(Byte) /\ Len(wire) >= 8 /\ Len(sent) >= 8
    BY <2>1 DEF PacketInv, Underway, Flips
  <2> DEFINE h == Header(wire)
             g == Header(sent)
  <2>4. /\ h \in Seq(Byte) /\ Len(h) = 6 /\ \A k \in 1..6 : h[k] = wire[2 + k]
        /\ g \in Seq(Byte) /\ Len(g) = 6 /\ \A k \in 1..6 : g[k] = sent[2 + k]
    BY <2>3, HeaderIsSection
  <2> HIDE DEF h, g
  <2>5. \A k \in 1..6 : h[k] = g[k]
    <3>1. \A k \in 1..6 : 2 + k \in 1..8
      OBVIOUS
    <3>2. QED
      BY <2>2, <2>4, <3>1
  <2>6. h = g
    BY <2>4, <2>5, SeqEqual
  <2>7. QED
    BY <2>2, <2>6 DEF h, g
<1>2. QED
  BY <1>1, WayInvHolds, PTL

(***************************************************************************)
(* FlipsNoticed for every packet: one or two flips that pass both tests    *)
(* are balanced, in a full packet, and 255 bytes apart.                    *)
(***************************************************************************)
THEOREM FlipsHold == Spec => []FlipsNoticed
<1>1. PacketInv /\ WayInv => FlipsNoticed
  <2> SUFFICES ASSUME PacketInv, WayInv, pc \in {"decode", "accepted"},
                      Cardinality(flipped) \in 1..2
               PROVE  \E m, n \in flipped : Balanced(m, n)
    BY Zenon DEF FlipsNoticed
  <2>1. Cardinality(flipped) <= 2 /\ flipped # {} /\ flipped \in SUBSET Nat
    <3>1. Cardinality({}) = 0
      BY FS_EmptySet
    <3>2. flipped \in SUBSET Nat
      BY Zenon DEF PacketInv
    <3>3. QED
      BY <3>1, <3>2
  <2>2. /\ Whole(sent) /\ Flips(sent, wire, flipped) /\ Len(wire) = Len(sent)
        /\ IsChecksum(wire, 2, 6, wire[1], wire[2])
        /\ IsChecksum(wire, 8, Len(wire) - 8, wire[7], wire[8])
    BY <2>1 DEF WayInv, Underway, Passed, Flips
  <2>3. PICK m, n \in flipped : \E d \in AllAmounts, e \in AllAmounts \cup {0} :
            Pair(sent, wire, m, d, n, e)
    BY <2>1, <2>2, FlipsAreAPair
  <2>4. PICK d \in AllAmounts, e \in AllAmounts \cup {0} : Pair(sent, wire, m, d, n, e)
    BY <2>3
  <2>5. m \in Nat /\ n \in Nat
    BY <2>1
  <2>6. /\ n = m + 8 * 255 /\ m >= 64
        /\ wire[ByteOf(m)] + wire[ByteOf(n)] = sent[ByteOf(m)] + sent[ByteOf(n)]
    BY <2>2, <2>4, <2>5, PassesOnlyIfBalanced, SMTT(30)
  <2>7. Balanced(m, n)
    BY <2>6 DEF Balanced, ByteOf
  <2>8. QED
    BY <2>7
<1>2. QED
  BY <1>1, WayInvHolds, PTL
=============================================================================
