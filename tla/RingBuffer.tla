------------------------------ MODULE RingBuffer ------------------------------
(***************************************************************************)
(* The macros of src/utils/ringbuffer/ringbuffer.h, on which both frame    *)
(* buffers are built: an array of `size' slots with one writer, which      *)
(* alone moves writePtr, and one reader, which alone moves readPtr.  One   *)
(* slot always stays empty, so that full and empty differ.                 *)
(*                                                                         *)
(* The code wraps a pointer with "& (size - 1)".  For the sizes it uses,   *)
(* powers of two, and for pointers within the buffer that is what Inc and  *)
(* GetLen say without bit operations; module RingMask checks that it is.   *)
(***************************************************************************)
EXTENDS Integers, Sequences

\* Mutant: the pointer is not wrapped.
Mut_Inc(ptr, size) == ptr + 1

\* ringbuffer_inc_writeptr and ringbuffer_inc_readptr.
Inc(ptr, size) == IF ptr + 1 = size THEN 0 ELSE ptr + 1

\* ringbuffer_getlen.
GetLen(writePtr, readPtr, size) ==
  IF writePtr >= readPtr THEN writePtr - readPtr ELSE writePtr - readPtr + size

IsEmpty(writePtr, readPtr) == readPtr = writePtr

\* Mutant: every slot is used, as if full and empty could be told apart.
Mut_IsFull(writePtr, readPtr, size) == GetLen(writePtr, readPtr, size) = size

IsFull(writePtr, readPtr, size) == GetLen(writePtr, readPtr, size) = size - 1

\* The slot i places after a pointer, and what is between the pointers.
Slot(ptr, i, size) == IF ptr + i >= size THEN ptr + i - size ELSE ptr + i

Contents(data, writePtr, readPtr, size) ==
  [i \in 1 .. GetLen(writePtr, readPtr, size) |-> data[Slot(readPtr, i - 1, size)]]
=============================================================================
