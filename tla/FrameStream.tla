----------------------------- MODULE FrameStream -----------------------------
(***************************************************************************)
(* What the way from the webcam to the network promises, whatever buffers  *)
(* it uses: frames may be dropped on the way, but those that arrive do so  *)
(* whole, once, and in the order of their capture.                         *)
(***************************************************************************)
EXTENDS Integers, Sequences, SequencesExt, SequenceTheorems, TLAPS

CONSTANT MAX_FRAMES   \* a bound on the frames captured

VARIABLES
  newest,             \* the number of frames captured
  flight,             \* frames on their way, oldest first
  shown               \* the last frame that arrived

vars == <<newest, flight, shown>>

Init ==
  /\ newest = 0
  /\ flight = <<>>
  /\ shown = 0

Capture ==
  /\ newest < MAX_FRAMES
  /\ newest' = newest + 1
  /\ flight' = Append(flight, newest')
  /\ UNCHANGED shown

Drop ==
  /\ \E i \in 1 .. Len(flight) : flight' = RemoveAt(flight, i)
  /\ UNCHANGED <<newest, shown>>

Show ==
  /\ flight # <<>>
  /\ shown' = Head(flight)
  /\ flight' = Tail(flight)
  /\ UNCHANGED newest

Next == Capture \/ Drop \/ Show

Spec == Init /\ [][Next]_vars

-----------------------------------------------------------------------------

TypeOK ==
  /\ newest \in Nat
  /\ flight \in Seq(Nat)
  /\ shown \in Nat

\* No frame overtakes another, and none that is on its way is as old as the last
\* one that arrived: whatever is dropped, frames arrive once, and forwards.
InOrder ==
  /\ shown <= newest
  /\ \A i \in DOMAIN flight : shown < flight[i] /\ flight[i] <= newest
  /\ \A i, j \in DOMAIN flight : i < j => flight[i] < flight[j]

Inv == TypeOK /\ InOrder

\* RemoveAt at one of the places of a sequence.
LEMMA RemoveAtPlace ==
  ASSUME NEW s \in Seq(Nat), NEW i \in 1 .. Len(s)
  PROVE  /\ RemoveAt(s, i) \in Seq(Nat)
         /\ Len(RemoveAt(s, i)) = Len(s) - 1
         /\ \A j \in 1 .. Len(s) - 1 :
              RemoveAt(s, i)[j] = IF j < i THEN s[j] ELSE s[j + 1]
  <1> DEFINE n == Len(s)
             a == SubSeq(s, 1, i - 1)
             b == SubSeq(s, i + 1, n)
             c == a \o b
  <1>1. n \in Nat /\ i \in 1 .. n
    OBVIOUS
  <1>2. a \in Seq(Nat) /\ Len(a) = i - 1 /\ \A j \in 1 .. i - 1 : a[j] = s[j]
    BY <1>1
  <1>3. b \in Seq(Nat) /\ Len(b) = n - i /\ \A j \in 1 .. n - i : b[j] = s[i + j]
    BY <1>1
  <1> HIDE DEF a, b
  <1>4. /\ c \in Seq(Nat)
        /\ Len(c) = Len(a) + Len(b)
        /\ \A j \in 1 .. Len(a) + Len(b) :
             c[j] = IF j <= Len(a) THEN a[j] ELSE b[j - Len(a)]
    BY <1>2, <1>3, ConcatProperties
  <1> HIDE DEF n, c
  <1>5. Len(c) = n - 1
    BY <1>1, <1>2, <1>3, <1>4
  <1>6. \A j \in 1 .. n - 1 : c[j] = IF j < i THEN s[j] ELSE s[j + 1]
    BY <1>1, <1>2, <1>3, <1>4
  <1> QED
    BY <1>4, <1>5, <1>6 DEF n, a, b, c, RemoveAt

\* Each step of the stream keeps the order.
LEMMA OrderStep ==
  ASSUME Inv, [Next]_vars
  PROVE  Inv'
  <1> USE DEF Inv, TypeOK, InOrder
  <1>1. CASE Capture
    BY <1>1 DEF Capture
  <1>2. CASE Drop
    <2>1. PICK i \in 1 .. Len(flight) : flight' = RemoveAt(flight, i)
      BY <1>2 DEF Drop
    <2>2. /\ flight' \in Seq(Nat)
          /\ Len(flight') = Len(flight) - 1
          /\ \A j \in 1 .. Len(flight) - 1 :
               flight'[j] = IF j < i THEN flight[j] ELSE flight[j + 1]
      <3>1. flight \in Seq(Nat)
        OBVIOUS
      <3> HIDE DEF Inv, TypeOK, InOrder
      <3> QED
        BY <2>1, <3>1, RemoveAtPlace
    <2>3. newest' = newest /\ shown' = shown
      BY <1>2 DEF Drop
    <2>4. DOMAIN flight = 1 .. Len(flight) /\ Len(flight) \in Nat
      OBVIOUS
    <2>5. DOMAIN flight' = 1 .. Len(flight) - 1
      BY <2>2, <2>4
    <2> DEFINE from(j) == IF j < i THEN j ELSE j + 1
    <2>6. ASSUME NEW k \in 1 .. Len(flight) - 1
          PROVE  shown < flight'[k] /\ flight'[k] <= newest
      <3>1. flight'[k] = flight[from(k)]
        BY <2>2
      <3>2. from(k) \in DOMAIN flight
        BY <2>4
      <3> QED
        BY <3>1, <3>2
    <2>7. ASSUME NEW k \in 1 .. Len(flight) - 1, NEW l \in 1 .. Len(flight) - 1, k < l
          PROVE  flight'[k] < flight'[l]
      <3>1. flight'[k] = flight[from(k)] /\ flight'[l] = flight[from(l)]
        BY <2>2
      <3>2. from(k) \in 1 .. Len(flight) /\ from(l) \in 1 .. Len(flight) /\ from(k) < from(l)
        BY <2>4, <2>7
      <3> QED
        BY <2>4, <3>1, <3>2
    <2> QED
      BY <2>2, <2>3, <2>5, <2>6, <2>7
  <1>3. CASE Show
    BY <1>3 DEF Show
  <1>4. CASE UNCHANGED vars
    BY <1>4 DEF vars
  <1> QED
    BY <1>1, <1>2, <1>3, <1>4 DEF Next

\* The stream keeps the order of the frames, however many there are.
THEOREM StreamInOrder == Spec => []InOrder
  <1>1. Init => Inv
    BY DEF Init, Inv, TypeOK, InOrder
  <1>2. Inv /\ [Next]_vars => Inv'
    BY OrderStep
  <1>3. Inv => InOrder
    BY DEF Inv
  <1> QED
    BY <1>1, <1>2, <1>3, PTL DEF Spec
=============================================================================
