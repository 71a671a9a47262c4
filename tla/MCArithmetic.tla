----------------------------- MODULE MCArithmetic -----------------------------
(* The pure functions, one state for each input: pairs of pointers of a     *)
(* ring, and two pixels of a frame in YUYV.                                 *)
EXTENDS RingMask, ColorConvert

CONSTANTS
  Sizes,              \* sizes of ring buffers
  Samples             \* bytes of a frame

VARIABLE input

RingInput ==
  UNION {[size : {n}, writePtr : 0 .. n - 1, readPtr : 0 .. n - 1] : n \in Sizes}
ColorInput == [y : Samples, u : Samples, y2 : Samples, v : Samples]

Init == input \in RingInput \cup ColorInput

Next == UNCHANGED input

Spec == Init /\ [][Next]_input

\* The masked unsigned arithmetic of ringbuffer.h (ringbuffer.h:43, 55, 64) is
\* that of RingBuffer, on which the other modules are built, also where the
\* pointers wrap and their difference is negative.
MaskIsWrap ==
  "size" \in DOMAIN input =>
    LET w == input.writePtr
        r == input.readPtr
        n == input.size
    IN  /\ ringbuffer_inc(w, n) = Inc(w, n)
        /\ ringbuffer_getlen(w, r, n) = GetLen(w, r, n)
        /\ ringbuffer_isFull(w, r, n) <=> IsFull(w, r, n)

\* Every pixel of a converted frame is, in its place, within the tolerance of
\* the exact conversion of its own luma and of the chroma it shares with its
\* neighbour (image.c:124-133, 158-183): the tables round to the nearest, no sum
\* overflows, and dividing towards zero shows nowhere.
ConvertIsNear ==
  "y" \in DOMAIN input =>
    LET bytes == <<input.y, input.u, input.y2, input.v,
                   input.y2, input.v, input.y, input.u>>
    IN  FrameIsNear([i \in 0 .. 7 |-> bytes[i + 1]], 8)
=============================================================================
