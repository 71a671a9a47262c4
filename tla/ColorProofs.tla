----------------------------- MODULE ColorProofs -----------------------------
(***************************************************************************)
(* The fixed-point conversion of every pixel, of all 2^24, and of frames   *)
(* of every size, stays within the tolerance of the exact one.             *)
(***************************************************************************)
EXTENDS ColorConvert, TLAPS

\* The coefficients that the float expressions of color_lut.c give.
LEMMA Coefficients ==
  /\ COEFFICIENT_Y = 38142 /\ COEFFICIENT_RV = 52298 /\ COEFFICIENT_GU = 12812
  /\ COEFFICIENT_GV = 26640 /\ COEFFICIENT_BU = 66126
BY SMT DEF COEFFICIENT_Y, COEFFICIENT_RV, COEFFICIENT_GU, COEFFICIENT_GV, COEFFICIENT_BU,
   Fixed, PRECISION

\* The entries of the tables, in integers.
LEMMA Tables ==
  ASSUME NEW y \in Byte, NEW u \in Byte, NEW v \in Byte
  PROVE  /\ y \in Int /\ 0 <= y /\ y <= 255 /\ u \in Int /\ 0 <= u /\ u <= 255
         /\ v \in Int /\ 0 <= v /\ v <= 255
         /\ CoefficientsY[y] = 38142 * (y - 16) + 16384
         /\ CoeffecientsRV[v] = 52298 * (v - 128)
         /\ CoeffecientsGU[u] = -12812 * (u - 128)
         /\ CoeffecientsGV[v] = -26640 * (v - 128)
         /\ CoeffecientsBU[u] = 66126 * (u - 128)
BY Coefficients, SMT
DEF Byte, CoefficientsY, CoeffecientsRV, CoeffecientsGU, CoeffecientsGV, CoeffecientsBU,
    PRECISION

\* A sum whose scaled value is close to the exact one gives a near colour: the
\* half in it rounds to the nearest, and below zero the clamp hides the division.
LEMMA Rounding ==
  ASSUME NEW s \in Int, NEW e \in Int,
         \* s / PRECISION - 1/2 is within 7 thousandths of e / 1000
         1000 * s - 16384000 - 32768 * e <= 7 * 32768,
         1000 * s - 16384000 - 32768 * e >= -7 * 32768
  PROVE  Near(Clamp(Quotient(s, PRECISION), 0, 255), e)
<1>1. CASE s < 0
  <2>1. -s \in Nat /\ (-s) \div 32768 \in Nat
    BY <1>1, SMT
  <2>2. Quotient(s, PRECISION) \in Int /\ Quotient(s, PRECISION) <= 0
    BY <1>1, <2>1, SMT DEF Quotient, PRECISION
  <2>3. Clamp(Quotient(s, PRECISION), 0, 255) = 0
    BY <2>2, SMT DEF Clamp
  <2>4. e < 0
    BY <1>1, SMT
  <2>. QED  BY <2>3, <2>4, SMT DEF Near, Clamp, Byte, Tolerance
<1>2. CASE s >= 0
  <2> DEFINE q == s \div 32768
  <2>1. q \in Nat /\ 32768 * q <= s /\ s < 32768 * q + 32768
    BY <1>2, SMT
  <2>2. Quotient(s, PRECISION) = q
    BY <1>2, SMT DEF Quotient, PRECISION
  <2> HIDE DEF q
  <2>3. 1000 * q - e <= 507 /\ 1000 * q - e >= -507
    BY <2>1, SMT
  <2>4. CASE q > 255
    BY <2>1, <2>2, <2>3, <2>4, SMT DEF Near, Clamp, Byte, Tolerance
  <2>5. CASE q <= 255
    BY <2>1, <2>2, <2>3, <2>5, SMT DEF Near, Clamp, Byte, Tolerance
  <2>. QED  BY <2>1, <2>4, <2>5, SMT
<1>. QED  BY <1>1, <1>2

\* Every pixel's three colours are near the exact conversion, and no sum in
\* yuv2rgb overflows (image.c:160-162).
THEOREM PixelsAreNear ==
  \A y, u, v \in Byte : PixelIsNear(y, u, v)
<1>. SUFFICES ASSUME NEW y \in Byte, NEW u \in Byte, NEW v \in Byte,
                     NEW c \in 1 .. 3
              PROVE  /\ -INT_MAX <= Sums(y, u, v)[c] /\ Sums(y, u, v)[c] <= INT_MAX
                     /\ Near(yuv2rgb(y, u, v)[c], Exact(y, u, v)[c])
  BY DEF PixelIsNear
<1> DEFINE s == Sums(y, u, v)[c]
           e == Exact(y, u, v)[c]
<1>1. /\ s \in Int /\ e \in Int /\ -INT_MAX <= s /\ s <= INT_MAX
      /\ 1000 * s - 16384000 - 32768 * e <= 7 * 32768
      /\ 1000 * s - 16384000 - 32768 * e >= -7 * 32768
  <2>1. CASE c = 1
    <3>1. s = 38142 * (y - 16) + 16384 + 52298 * (v - 128)
      BY <2>1, Tables, SMT DEF Sums
    <3>2. e = 1164 * (y - 16) + 1596 * (v - 128)
      BY <2>1, SMT DEF Exact
    <3>. QED  BY <3>1, <3>2, Tables, SMT DEF INT_MAX
  <2>2. CASE c = 2
    <3>1. s = 38142 * (y - 16) + 16384 - 12812 * (u - 128) - 26640 * (v - 128)
      BY <2>2, Tables, SMT DEF Sums
    <3>2. e = 1164 * (y - 16) - 391 * (u - 128) - 813 * (v - 128)
      BY <2>2, SMT DEF Exact
    <3>. QED  BY <3>1, <3>2, Tables, SMT DEF INT_MAX
  <2>3. CASE c = 3
    <3>1. s = 38142 * (y - 16) + 16384 + 66126 * (u - 128)
      BY <2>3, Tables, SMT DEF Sums
    <3>2. e = 1164 * (y - 16) + 2018 * (u - 128)
      BY <2>3, SMT DEF Exact
    <3>. QED  BY <3>1, <3>2, Tables, SMT DEF INT_MAX
  <2>. QED  BY <2>1, <2>2, <2>3, SMT
<1>2. yuv2rgb(y, u, v)[c] = Clamp(Quotient(s, PRECISION), 0, 255)
  BY DEF yuv2rgb
<1> HIDE DEF s, e
<1>3. Near(Clamp(Quotient(s, PRECISION), 0, 255), e)
  BY <1>1, Rounding, SMT
<1>. QED  BY <1>1, <1>2, <1>3 DEF s, e

\* Of a frame of any size, a multiple of four bytes, the unrolled loop of
\* rgb888_convert (image.c:124-133) puts the colours of every pixel, and of no
\* other, where they belong.
THEOREM FramesAreNear ==
  ASSUME NEW size \in Nat, size % 4 = 0, NEW src \in [0 .. size - 1 -> Byte]
  PROVE  FrameIsNear(src, size)
<1>. SUFFICES ASSUME NEW p \in 0 .. size \div 2 - 1
              PROVE  LET y == src[2 * p]
                         u == src[4 * (p \div 2) + 1]
                         v == src[4 * (p \div 2) + 3]
                     IN  /\ PixelIsNear(y, u, v)
                         /\ \A c \in 1 .. 3 :
                              Near(rgb888_convert(src, size)[3 * p + c - 1],
                                   Exact(y, u, v)[c])
  BY DEF FrameIsNear
<1> DEFINE m == p \div 2
           y == src[2 * p]
           u == src[4 * m + 1]
           v == src[4 * m + 3]
<1>1. /\ p \in Nat /\ m \in Nat /\ (p = 2 * m \/ p = 2 * m + 1)
      /\ 4 * m + 3 \in 0 .. size - 1 /\ 4 * m + 2 \in 0 .. size - 1
      /\ 4 * m + 1 \in 0 .. size - 1 /\ 4 * m \in 0 .. size - 1
      /\ 6 * m + 5 \in 0 .. (size \div 4) * 6 - 1
  OBVIOUS
<1>2. y \in Byte /\ u \in Byte /\ v \in Byte
  BY <1>1
<1>3. ASSUME NEW c \in 1 .. 3
      PROVE  rgb888_convert(src, size)[3 * p + c - 1] = yuv2rgb(y, u, v)[c]
  <2> DEFINE j == 3 * p + c - 1
             i == 4 * (j \div 6)
  <2>1. /\ j \in 0 .. (size \div 4) * 6 - 1 /\ j \div 6 = m /\ (j % 3) + 1 = c
        /\ j % 6 < 3 <=> p = 2 * m
    BY <1>1
  <2>2. (IF j % 6 < 3 THEN src[i] ELSE src[i + 2]) = y
    BY <1>1, <2>1
  <2>3. rgb888_convert(src, size)[j]
          = yuv2rgb(IF j % 6 < 3 THEN src[i] ELSE src[i + 2],
                    src[i + 1], src[i + 3])[(j % 3) + 1]
    BY <2>1 DEF rgb888_convert
  <2>. QED  BY <2>1, <2>2, <2>3
<1>4. PixelIsNear(y, u, v)
  BY <1>2, PixelsAreNear
<1>. QED  BY <1>3, <1>4 DEF PixelIsNear
=============================================================================
