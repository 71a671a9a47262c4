------------------------------- MODULE RingMask -------------------------------
(***************************************************************************)
(* The pointer arithmetic of ringbuffer.h as the compiler sees it: uint32_t *)
(* values, a subtraction that may wrap below zero, and a bit mask.         *)
(***************************************************************************)
EXTENDS RingBuffer, Bitwise

\* Bits of a pointer, 32 in the code: any width that holds the sizes will do.
WIDTH == 16

\* MUTANT: the buffer's size itself is the mask.
Mut_Masked(n, size) == n & size

\* "& (size - 1)", on a value reduced to its width.
Masked(n, size) == (n % 2^WIDTH) & (size - 1)

ringbuffer_inc(ptr, size) == Masked(ptr + 1, size)

ringbuffer_getlen(writePtr, readPtr, size) == Masked(writePtr - readPtr, size)

ringbuffer_isFull(writePtr, readPtr, size) ==
  ringbuffer_getlen(writePtr, readPtr, size) = size - 1
=============================================================================
