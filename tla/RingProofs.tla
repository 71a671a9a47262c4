------------------------------ MODULE RingProofs ------------------------------
(***************************************************************************)
(* What the macros of ringbuffer.h do to the contents of a ring: one with  *)
(* any number of slots and any values in them.                             *)
(***************************************************************************)
EXTENDS RingBuffer, TLAPS

\* A ring as its users keep it: pointers within the array.
Ring(data, writePtr, readPtr, size, Value) ==
  /\ size \in Nat \ {0}
  /\ data \in [0 .. size - 1 -> Value]
  /\ writePtr \in 0 .. size - 1
  /\ readPtr \in 0 .. size - 1

\* The length is that of an array with a slot to spare, and 0 when empty.
LEMMA LenInRange ==
  ASSUME NEW size \in Nat \ {0}, NEW w \in 0 .. size - 1, NEW r \in 0 .. size - 1
  PROVE  /\ GetLen(w, r, size) \in 0 .. size - 1
         /\ GetLen(w, r, size) = 0 <=> IsEmpty(w, r)
  BY DEF GetLen, IsEmpty

\* A pointer that is moved on stays within the array.
LEMMA IncInRange ==
  ASSUME NEW size \in Nat \ {0}, NEW p \in 0 .. size - 1
  PROVE  Inc(p, size) \in 0 .. size - 1
  BY DEF Inc

\* A published frame leaves the ring non-empty, and a freed one leaves room, so
\* that what the other side has seen stays true.
LEMMA OtherSideMayGoOn ==
  ASSUME NEW size \in Nat \ {0}, NEW w \in 0 .. size - 1, NEW r \in 0 .. size - 1
  PROVE  /\ ~IsFull(w, r, size) => ~IsEmpty(Inc(w, size), r)
         /\ ~IsFull(w, r, size) /\ ~IsEmpty(w, r) => ~IsFull(w, Inc(r, size), size)
  BY DEF IsFull, IsEmpty, GetLen, Inc

\* Division with a remainder has one result.
LEMMA RemainderIs ==
  ASSUME NEW n \in Nat \ {0}, NEW q \in Int, NEW x \in 0 .. n - 1
  PROVE  (q * n + x) % n = x
  OBVIOUS

\* Inc and GetLen are the remainders that the macros take with a mask, for every
\* size that divides the range of the unsigned integers: an increment goes
\* beyond the size, and a difference below zero, without harm (ringbuffer.h:43,
\* 55, 64).
THEOREM WrapIsRemainder ==
  ASSUME NEW size \in Nat \ {0}, NEW k \in Nat \ {0},
         NEW w \in 0 .. size - 1, NEW r \in 0 .. size - 1
  PROVE  /\ Inc(w, size) = ((w + 1) % (k * size)) % size
         /\ GetLen(w, r, size) = ((w - r) % (k * size)) % size
  <1> DEFINE range == k * size
  <1>1. range \in Nat \ {0} /\ range >= size
    OBVIOUS
  <1> HIDE DEF range
  <1>2. Inc(w, size) = ((w + 1) % range) % size
    <2>1. CASE w + 1 < size
      <3>1. (w + 1) % range = w + 1
        BY <1>1, <2>1
      <3> QED
        BY <2>1, <3>1 DEF Inc
    <2>2. CASE w + 1 = size
      <3>1. CASE range = size
        BY <2>2, <3>1 DEF Inc
      <3>2. CASE range > size
        <4>1. (w + 1) % range = size
          BY <1>1, <2>2, <3>2
        <4> QED
          BY <2>2, <4>1 DEF Inc
      <3> QED
        BY <1>1, <3>1, <3>2
    <2> QED
      BY <2>1, <2>2
  <1>3. GetLen(w, r, size) = ((w - r) % range) % size
    <2>1. CASE w >= r
      <3>1. (w - r) % range = w - r
        BY <1>1, <2>1
      <3> QED
        BY <2>1, <3>1 DEF GetLen
    <2>2. CASE w < r
      <3> DEFINE x == size + (w - r)
      <3>1. x \in 0 .. size - 1 /\ x \in 0 .. range - 1 /\ range - size + x \in 0 .. range - 1
        BY <1>1, <2>2
      <3>2. w - r = (-1) * range + (range - size + x)
        BY <1>1
      <3> HIDE DEF x
      <3>3. (w - r) % range = range - size + x
        BY <1>1, <3>1, <3>2, RemainderIs
      <3>4. range - size + x = (k - 1) * size + x
        BY <3>1 DEF range
      <3>5. ((k - 1) * size + x) % size = x
        BY <3>1, RemainderIs
      <3> QED
        BY <2>2, <3>3, <3>4, <3>5 DEF GetLen, x
    <2> QED
      BY <2>1, <2>2
  <1> QED
    BY <1>2, <1>3 DEF range

\* What is between the pointers are slots of the array other than the one that
\* is written to.
LEMMA SlotInUse ==
  ASSUME NEW size \in Nat \ {0}, NEW w \in 0 .. size - 1, NEW r \in 0 .. size - 1,
         NEW i \in 1 .. GetLen(w, r, size)
  PROVE  Slot(r, i - 1, size) \in (0 .. size - 1) \ {w}
  BY DEF GetLen, Slot

\* The contents as a sequence.
LEMMA ContentsIsSeq ==
  ASSUME NEW Value, NEW data, NEW w, NEW r, NEW size, Ring(data, w, r, size, Value)
  PROVE  /\ Contents(data, w, r, size) \in Seq(Value)
         /\ Len(Contents(data, w, r, size)) = GetLen(w, r, size)
         /\ \A i \in 1 .. GetLen(w, r, size) :
              Contents(data, w, r, size)[i] = data[Slot(r, i - 1, size)]
  <1> DEFINE n == GetLen(w, r, size)
  <1>1. n \in Nat
    BY LenInRange DEF Ring
  <1>2. \A i \in 1 .. n : data[Slot(r, i - 1, size)] \in Value
    BY SlotInUse DEF Ring
  <1> QED
    BY <1>1, <1>2 DEF Contents

\* The writer publishes a slot that is filled: it comes last.
LEMMA PublishAppends ==
  ASSUME NEW Value, NEW data, NEW w, NEW r, NEW size, Ring(data, w, r, size, Value),
         ~IsFull(w, r, size)
  PROVE  Contents(data, Inc(w, size), r, size)
           = Append(Contents(data, w, r, size), data[w])
  <1> DEFINE n == GetLen(w, r, size)
             old == Contents(data, w, r, size)
             new == Contents(data, Inc(w, size), r, size)
  <1>1. Ring(data, Inc(w, size), r, size, Value)
    BY IncInRange DEF Ring
  <1>2. GetLen(Inc(w, size), r, size) = n + 1 /\ n \in Nat
    BY DEF Ring, IsFull, GetLen, Inc
  <1>3. Slot(r, n, size) = w
    BY DEF Ring, GetLen, Slot
  <1>4. old \in Seq(Value) /\ Len(old) = n
        /\ \A i \in 1 .. n : old[i] = data[Slot(r, i - 1, size)]
    BY ContentsIsSeq
  <1>5. new \in Seq(Value) /\ Len(new) = n + 1
        /\ \A i \in 1 .. n + 1 : new[i] = data[Slot(r, i - 1, size)]
    BY <1>1, <1>2, ContentsIsSeq
  <1>6. data[w] \in Value /\ new[n + 1] = data[w]
    BY <1>2, <1>3, <1>5 DEF Ring
  <1> HIDE DEF n, old, new
  <1>7. new = Append(old, data[w])
    BY <1>2, <1>4, <1>5, <1>6
  <1> QED
    BY <1>7 DEF old, new

\* The reader frees the slot that it reads: the oldest, and the others stay.
LEMMA FreeTakesHead ==
  ASSUME NEW Value, NEW data, NEW w, NEW r, NEW size, Ring(data, w, r, size, Value),
         ~IsEmpty(w, r)
  PROVE  /\ Contents(data, w, r, size) # <<>>
         /\ Head(Contents(data, w, r, size)) = data[r]
         /\ Contents(data, w, Inc(r, size), size) = Tail(Contents(data, w, r, size))
  <1> DEFINE n == GetLen(w, r, size)
             old == Contents(data, w, r, size)
             new == Contents(data, w, Inc(r, size), size)
  <1>1. Ring(data, w, Inc(r, size), size, Value)
    BY IncInRange DEF Ring
  <1>2. GetLen(w, Inc(r, size), size) = n - 1 /\ n \in Nat \ {0}
    BY DEF Ring, IsEmpty, GetLen, Inc
  <1>3. \A i \in 1 .. n - 1 : Slot(Inc(r, size), i - 1, size) = Slot(r, i, size)
    BY DEF Ring, GetLen, Slot, Inc
  <1>4. Slot(r, 0, size) = r
    BY DEF Ring, Slot
  <1>5. old \in Seq(Value) /\ Len(old) = n
        /\ \A i \in 1 .. n : old[i] = data[Slot(r, i - 1, size)]
    BY ContentsIsSeq
  <1>6. new \in Seq(Value) /\ Len(new) = n - 1
        /\ \A i \in 1 .. n - 1 : new[i] = data[Slot(r, i, size)]
    BY <1>1, <1>2, <1>3, ContentsIsSeq
  <1>7. old[1] = data[r]
    BY <1>2, <1>4, <1>5
  <1>8. \A i \in 1 .. n - 1 : new[i] = old[i + 1]
    BY <1>2, <1>5, <1>6
  <1> HIDE DEF n, old, new
  <1>9. old # <<>> /\ Head(old) = data[r] /\ new = Tail(old)
    BY <1>2, <1>5, <1>6, <1>7, <1>8
  <1> QED
    BY <1>9 DEF old, new

\* What the writer does to its slot is not seen.
LEMMA WriteUnseen ==
  ASSUME NEW Value, NEW data, NEW w, NEW r, NEW size, Ring(data, w, r, size, Value),
         NEW value
  PROVE  Contents([data EXCEPT ![w] = value], w, r, size) = Contents(data, w, r, size)
  <1> DEFINE new == [data EXCEPT ![w] = value]
  <1>1. \A i \in 1 .. GetLen(w, r, size) :
          new[Slot(r, i - 1, size)] = data[Slot(r, i - 1, size)]
    BY SlotInUse DEF Ring
  <1> QED
    BY <1>1 DEF Contents
=============================================================================
