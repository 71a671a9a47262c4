----------------------------- MODULE ColorConvert -----------------------------
(***************************************************************************)
(* rgb888_convert and yuv2rgb of src/middleware/image/image.c, with the    *)
(* look-up tables of color_lut.c: a frame in YUYV, two pixels in four      *)
(* bytes, becomes one in RGB888.  The arithmetic is fixed point, in int.   *)
(* Only the YUV and PPM configurations of camera_cfg.h call it.            *)
(***************************************************************************)
EXTENDS Integers

Byte == 0 .. 255
INT_MAX == 2147483647
PRECISION == 32768

\* (int)(c * PRECISION + 0.5f) for c in thousandths: PRECISION is a power of
\* two, so that float rounds none of the five.
Fixed(c) == (2 * c * PRECISION + 1000) \div 2000

COEFFICIENT_Y == Fixed(1164)
COEFFICIENT_RV == Fixed(1596)
COEFFICIENT_GU == Fixed(391)
COEFFICIENT_GV == Fixed(813)
COEFFICIENT_BU == Fixed(2018)

\* MUTANT: the half that rounds is left out.
Mut_CoefficientsY == [y \in Byte |-> COEFFICIENT_Y * (y - 16)]

\* The tables, entry by entry.
CoefficientsY == [y \in Byte |-> COEFFICIENT_Y * (y - 16) + PRECISION \div 2]
CoeffecientsRV == [v \in Byte |-> COEFFICIENT_RV * (v - 128)]
CoeffecientsGU == [u \in Byte |-> -COEFFICIENT_GU * (u - 128)]
CoeffecientsGV == [v \in Byte |-> -COEFFICIENT_GV * (v - 128)]
CoeffecientsBU == [u \in Byte |-> COEFFICIENT_BU * (u - 128)]

\* C's division, towards zero.
Quotient(a, b) == IF a >= 0 THEN a \div b ELSE -((-a) \div b)

\* CLAMP_UPPER and CLAMP_LOWER; the mask after them changes nothing.
Clamp(x, low, high) == IF x > high THEN high ELSE IF x < low THEN low ELSE x

\* The three sums of yuv2rgb, in the order red, green, blue.
Sums(y, u, v) ==
  <<CoefficientsY[y] + CoeffecientsRV[v],
    CoefficientsY[y] + CoeffecientsGU[u] + CoeffecientsGV[v],
    CoefficientsY[y] + CoeffecientsBU[u]>>

yuv2rgb(y, u, v) ==
  [c \in 1 .. 3 |-> Clamp(Quotient(Sums(y, u, v)[c], PRECISION), 0, 255)]

\* The loop, unrolled over two pixels: dest_frame, from src_frame of size bytes.
rgb888_convert(src, size) ==
  [j \in 0 .. (size \div 4) * 6 - 1 |->
     LET i == 4 * (j \div 6)
         y == IF j % 6 < 3 THEN src[i] ELSE src[i + 2]
     IN  yuv2rgb(y, src[i + 1], src[i + 3])[(j % 3) + 1]]

-----------------------------------------------------------------------------
(* What it is meant to compute, in thousandths: the conversion with the     *)
(* coefficients 1.164, 1.596, 0.391, 0.813 and 2.018.                       *)

Exact(y, u, v) ==
  <<1164 * (y - 16) + 1596 * (v - 128),
    1164 * (y - 16) - 391 * (u - 128) - 813 * (v - 128),
    1164 * (y - 16) + 2018 * (u - 128)>>

\* Half a step for rounding, and what the five coefficients are off.
Tolerance == 508

\* A colour value is the nearest to the exact one, within the tolerance.
Near(value, exact) ==
  /\ value \in Byte
  /\ 1000 * value - Clamp(exact, 0, 255000) \in -Tolerance .. Tolerance

\* The sums fit an int of 32 bits, and each colour of a pixel is near.
PixelIsNear(y, u, v) ==
  \A c \in 1 .. 3 :
    /\ -INT_MAX <= Sums(y, u, v)[c] /\ Sums(y, u, v)[c] <= INT_MAX
    /\ Near(yuv2rgb(y, u, v)[c], Exact(y, u, v)[c])

\* Each pixel p of a converted frame has, in its place, the colours of its own
\* luma and of the chroma it shares with its neighbour.
FrameIsNear(src, size) ==
  \A p \in 0 .. size \div 2 - 1 :
    LET y == src[2 * p]
        u == src[4 * (p \div 2) + 1]
        v == src[4 * (p \div 2) + 3]
    IN  /\ PixelIsNear(y, u, v)
        /\ \A c \in 1 .. 3 :
             Near(rgb888_convert(src, size)[3 * p + c - 1], Exact(y, u, v)[c])
=============================================================================
