-------------------------- MODULE StreamViewerProofs --------------------------
(***************************************************************************)
(* Proofs about the way from the ring to the screen, for frames, datagrams *)
(* and rings of every size, and any pictures and browsers.                 *)
(***************************************************************************)
EXTENDS StreamViewer, SequenceTheorems, FiniteSetTheorems, TLAPS

\* The assumptions one by one.
LEMMA Sizes ==
  /\ FRAME_SIZE \in Nat \ {0} /\ CHUNK \in Nat \ {0} /\ SLOTS \in Nat \ {0}
  /\ MAX_TRANSIT \in Nat \ {0} /\ MAX_FRAMES \in Nat /\ MAX_FAULTS \in Nat
  BY SizesAssumption

USE Sizes

\* A part of a sequence.
LEMMA Part ==
  ASSUME NEW S, NEW s \in Seq(S), NEW m \in 1 .. Len(s) + 1, NEW n \in m - 1 .. Len(s)
  PROVE  /\ SubSeq(s, m, n) \in Seq(S) /\ Len(SubSeq(s, m, n)) = n - m + 1
         /\ \A i \in 1 .. n - m + 1 : SubSeq(s, m, n)[i] = s[m + i - 1]
  <1>1. m \in Int /\ n \in Int /\ \A i \in m .. n : s[i] \in S
    OBVIOUS
  <1> QED
    BY <1>1, SubSeqProperties

-----------------------------------------------------------------------------
(* What the webcam makes.                                                   *)

\* The bytes between the markers are in the middle.
LEMMA JpegShape ==
  ASSUME NEW body \in Bodies
  PROVE  LET p == Jpeg(body) IN
         /\ p \in Seq(Value) /\ Len(p) \in 4 .. FRAME_SIZE
         /\ p[1] = "FF" /\ p[2] = "D8"
         /\ p[Len(p) - 1] = "FF" /\ p[Len(p)] = "D9"
         /\ \A i \in 2 .. Len(p) - 1 : ~(p[i] = "FF" /\ p[i + 1] = "D8")
         /\ \A i \in 1 .. Len(p) - 2 : ~(p[i] = "FF" /\ p[i + 1] = "D9")
  <1> DEFINE p == Jpeg(body)
  <1>1. body \in Seq(Value)
    BY JpegAssumption
  <1>2. /\ p \in Seq(Value) /\ Len(p) = Len(body) + 4 /\ Len(body) \in Nat
        /\ p[1] = "FF" /\ p[2] = "D8"
        /\ p[Len(body) + 3] = "FF" /\ p[Len(body) + 4] = "D9"
    BY <1>1 DEF Jpeg, startMarker, endMarker, Value
  <1>3. /\ Len(p) <= FRAME_SIZE
        /\ \A i \in 2 .. Len(p) - 1 : SubSeq(p, i, i + 1) # startMarker
        /\ \A i \in 1 .. Len(p) - 2 : SubSeq(p, i, i + 1) # endMarker
    BY JpegAssumption
  <1> HIDE DEF p
  <1>4. \A i \in 1 .. Len(p) - 1 : SubSeq(p, i, i + 1) = <<p[i], p[i + 1]>>
    <2> TAKE i \in 1 .. Len(p) - 1
    <2> DEFINE t == SubSeq(p, i, i + 1)
    <2>1. \A n \in i .. i + 1 : p[n] \in Value
      BY <1>2
    <2>2. t \in Seq(Value) /\ Len(t) = 2 /\ t[1] = p[i] /\ t[2] = p[i + 1]
      BY <1>2, <2>1
    <2> HIDE DEF t
    <2>3. t = <<p[i], p[i + 1]>>
      BY <1>2, <2>2
    <2> QED
      BY <2>3 DEF t
  <1>5. \A i \in 2 .. Len(p) - 1 : ~(p[i] = "FF" /\ p[i + 1] = "D8")
    BY <1>2, <1>3, <1>4 DEF startMarker
  <1>6. \A i \in 1 .. Len(p) - 2 : ~(p[i] = "FF" /\ p[i + 1] = "D9")
    BY <1>2, <1>3, <1>4 DEF endMarker
  <1> QED
    BY <1>2, <1>3, <1>5, <1>6 DEF p

\* A picture over what was in a slot.
LEMMA SlotShape ==
  ASSUME NEW body \in Bodies, NEW k \in 1 .. MAX_FRAMES, NEW old \in Slot
  PROVE  LET p == Picture(k, body)
             slot == CopiedOver(old, p)
         IN  /\ p \in Seq(Byte) /\ Len(p) \in 4 .. FRAME_SIZE
             /\ slot \in Slot
             /\ \A i \in 1 .. Len(p) : slot[i] = p[i] /\ slot[i].frame = k
             /\ \A i \in Len(p) + 1 .. FRAME_SIZE : slot[i] = old[i]
             /\ IsAt(startMarker, slot, 1) /\ IsAt(endMarker, slot, Len(p) - 1)
             /\ \A i \in 2 .. Len(p) : ~IsAt(startMarker, slot, i)
             /\ \A i \in 1 .. Len(p) - 2 : ~IsAt(endMarker, slot, i)
  <1> DEFINE j == Jpeg(body)
             p == Picture(k, body)
             rest == SubSeq(old, Len(p) + 1, FRAME_SIZE)
             slot == CopiedOver(old, p)
  <1>1. /\ j \in Seq(Value) /\ Len(j) \in 4 .. FRAME_SIZE
        /\ j[1] = "FF" /\ j[2] = "D8"
        /\ j[Len(j) - 1] = "FF" /\ j[Len(j)] = "D9"
        /\ \A i \in 2 .. Len(j) - 1 : ~(j[i] = "FF" /\ j[i + 1] = "D8")
        /\ \A i \in 1 .. Len(j) - 2 : ~(j[i] = "FF" /\ j[i + 1] = "D9")
    BY JpegShape
  <1> HIDE DEF j
  <1>2. /\ p \in Seq(Byte) /\ Len(p) = Len(j)
        /\ \A i \in 1 .. Len(p) : p[i].frame = k /\ p[i].value = j[i]
    <2>1. p = [i \in 1 .. Len(j) |-> [frame |-> k, place |-> i, value |-> j[i]]]
      BY <1>1 DEF Picture, j
    <2>2. \A i \in 1 .. Len(j) : [frame |-> k, place |-> i, value |-> j[i]] \in Byte
      BY <1>1 DEF Byte
    <2> HIDE DEF p
    <2> QED
      BY <1>1, <2>1, <2>2
  <1> HIDE DEF p
  <1>3. /\ rest \in Seq(Byte) /\ Len(rest) = FRAME_SIZE - Len(p)
        /\ \A i \in 1 .. FRAME_SIZE - Len(p) : rest[i] = old[Len(p) + i]
    <2>1. Len(p) + 1 \in Int /\ \A i \in Len(p) + 1 .. FRAME_SIZE : old[i] \in Byte
      <3>1. Len(p) \in Nat /\ \A i \in Len(p) + 1 .. FRAME_SIZE : i \in 1 .. FRAME_SIZE
        BY <1>1, <1>2
      <3> QED
        BY <3>1 DEF Slot
    <2>2. /\ rest \in Seq(Byte)
          /\ Len(rest) = IF Len(p) + 1 <= FRAME_SIZE THEN FRAME_SIZE - (Len(p) + 1) + 1 ELSE 0
          /\ \A i \in 1 .. FRAME_SIZE - (Len(p) + 1) + 1 : rest[i] = old[(Len(p) + 1) + i - 1]
      BY <2>1, SubSeqProperties
    <2> HIDE DEF rest
    <2> QED
      BY <1>1, <1>2, <2>2
  <1>4. slot = p \o rest
    BY DEF CopiedOver
  <1> HIDE DEF rest
  <1>5. /\ slot \in Seq(Byte) /\ Len(slot) = FRAME_SIZE
        /\ \A i \in 1 .. Len(p) : slot[i] = p[i]
        /\ \A i \in Len(p) + 1 .. FRAME_SIZE : slot[i] = rest[i - Len(p)]
    <2>1. Len(p) \in Nat /\ Len(p) + Len(rest) = FRAME_SIZE
      BY <1>1, <1>2, <1>3
    <2>2. /\ p \o rest \in Seq(Byte) /\ Len(p \o rest) = Len(p) + Len(rest)
          /\ \A i \in 1 .. Len(p) + Len(rest) :
               (p \o rest)[i] = IF i <= Len(p) THEN p[i] ELSE rest[i - Len(p)]
      BY <1>2, <1>3, ConcatProperties
    <2>3. /\ slot \in Seq(Byte) /\ Len(slot) = FRAME_SIZE
          /\ \A i \in 1 .. FRAME_SIZE :
               slot[i] = IF i <= Len(p) THEN p[i] ELSE rest[i - Len(p)]
      BY <1>4, <2>1, <2>2
    <2> HIDE DEF slot
    <2> QED
      BY <1>1, <1>2, <2>3
  <1> HIDE DEF slot
  <1>6. slot \in Slot
    BY <1>5 DEF Slot
  <1>7. \A i \in Len(p) + 1 .. FRAME_SIZE : slot[i] = old[i]
    <2> TAKE i \in Len(p) + 1 .. FRAME_SIZE
    <2>1. i - Len(p) \in 1 .. FRAME_SIZE - Len(p) /\ Len(p) + (i - Len(p)) = i
      BY <1>1, <1>2
    <2>2. slot[i] = rest[i - Len(p)]
      BY <1>5
    <2> QED
      BY <1>3, <2>1, <2>2
  <1>8. \A i \in 1 .. Len(p) : slot[i].frame = k /\ slot[i].value = j[i]
    BY <1>2, <1>5
  <1>9. IsAt(startMarker, slot, 1) /\ IsAt(endMarker, slot, Len(p) - 1)
    BY <1>1, <1>2, <1>8 DEF IsAt, startMarker, endMarker
  <1>10. \A i \in 2 .. Len(p) : ~IsAt(startMarker, slot, i)
    BY <1>1, <1>2, <1>8 DEF IsAt, startMarker
  <1>11. \A i \in 1 .. Len(p) - 2 : ~IsAt(endMarker, slot, i)
    <2> TAKE i \in 1 .. Len(p) - 2
    <2>1. i \in 1 .. Len(p) /\ i + 1 \in 1 .. Len(p) /\ i \in 1 .. Len(j) - 2
      BY <1>1, <1>2
    <2>2. ~(j[i] = "FF" /\ j[i + 1] = "D9")
      BY <1>1, <2>1
    <2> QED
      BY <1>8, <2>1, <2>2 DEF IsAt, endMarker
  <1> QED
    BY <1>1, <1>2, <1>5, <1>6, <1>7, <1>8, <1>9, <1>10, <1>11 DEF p, slot

-----------------------------------------------------------------------------
(* Types.                                                                   *)

\* What the network may do to the datagrams in transit leaves datagrams.
LEMMA FaultyNet ==
  ASSUME NEW D, NEW s \in Seq(D), NEW i \in 1 .. Len(s)
  PROVE  /\ RemoveAt(s, i) \in Seq(D)
         /\ InsertAt(s, i, s[i]) \in Seq(D)
         /\ i > 1 => [s EXCEPT ![i] = s[i - 1], ![i - 1] = s[i]] \in Seq(D)
  <1>1. SubSeq(s, 1, i - 1) \in Seq(D) /\ SubSeq(s, i + 1, Len(s)) \in Seq(D)
        /\ SubSeq(s, i, Len(s)) \in Seq(D) /\ <<s[i]>> \in Seq(D)
    OBVIOUS
  <1>2. RemoveAt(s, i) \in Seq(D)
    BY <1>1, ConcatProperties DEF RemoveAt
  <1>3. SubSeq(s, 1, i - 1) \o <<s[i]>> \in Seq(D)
    BY <1>1, ConcatProperties
  <1>4. InsertAt(s, i, s[i]) \in Seq(D)
    BY <1>1, <1>3, ConcatProperties DEF InsertAt
  <1>5. i > 1 => [s EXCEPT ![i] = s[i - 1], ![i - 1] = s[i]] \in Seq(D)
    <2> SUFFICES ASSUME i > 1
                 PROVE  [s EXCEPT ![i] = s[i - 1], ![i - 1] = s[i]] \in Seq(D)
      OBVIOUS
    <2> DEFINE t == [s EXCEPT ![i] = s[i - 1]]
    <2>1. s[i] \in D /\ s[i - 1] \in D /\ i - 1 \in 1 .. Len(s)
      OBVIOUS
    <2>2. t \in Seq(D) /\ Len(t) = Len(s)
      BY <2>1, ExceptSeq
    <2> HIDE DEF t
    <2>3. [t EXCEPT ![i - 1] = s[i]] \in Seq(D)
      BY <2>1, <2>2, ExceptSeq
    <2> QED
      BY <2>3 DEF t
  <1> QED
    BY <1>2, <1>4, <1>5

\* A new frame goes into one slot, and is sent from there.
LEMMA NewFrame ==
  ASSUME TypeOK, FramesInv, NextFrame
  PROVE  \E s \in 0 .. SLOTS - 1, picture \in Seq(Byte), slot \in Slot :
           /\ Len(pictures) < MAX_FRAMES
           /\ slots' = [slots EXCEPT ![s] = slot] /\ sending' = slot
           /\ pictures' = Append(pictures, picture) /\ frames' = Append(frames, slot)
           /\ Len(picture) \in 4 .. FRAME_SIZE
           /\ \A i \in 1 .. Len(picture) :
                slot[i] = picture[i] /\ slot[i].frame = Len(pictures) + 1
           /\ \A i \in Len(picture) + 1 .. FRAME_SIZE : slot[i].frame <= Len(pictures)
           /\ IsAt(startMarker, slot, 1) /\ IsAt(endMarker, slot, Len(picture) - 1)
           /\ \A i \in 2 .. FRAME_SIZE - 1 : ~IsAt(startMarker, slot, i)
           /\ \A i \in 1 .. Len(picture) - 2 : ~IsAt(endMarker, slot, i)
  <1> PICK body \in Bodies :
        LET k == Len(pictures) + 1
            slot == CopiedOver(slots[k % SLOTS], Picture(k, body))
        IN  /\ slots' = [slots EXCEPT ![k % SLOTS] = slot]
            /\ sending' = slot
            /\ pictures' = Append(pictures, Picture(k, body))
            /\ frames' = Append(frames, slot)
    BY DEF NextFrame
  <1> DEFINE k == Len(pictures) + 1
             s == k % SLOTS
             picture == Picture(k, body)
             slot == CopiedOver(slots[s], picture)
  <1>1. Len(pictures) \in Nat /\ Len(pictures) < MAX_FRAMES
    BY DEF NextFrame, TypeOK
  <1>2. k \in 1 .. MAX_FRAMES /\ s \in 0 .. SLOTS - 1
    BY <1>1
  <1>3. slots[s] \in Slot
    BY <1>2 DEF TypeOK
  <1>4. /\ slots' = [slots EXCEPT ![s] = slot] /\ sending' = slot
        /\ pictures' = Append(pictures, picture) /\ frames' = Append(frames, slot)
    OBVIOUS
  <1>5. /\ picture \in Seq(Byte) /\ Len(picture) \in 4 .. FRAME_SIZE
        /\ slot \in Slot
        /\ \A i \in 1 .. Len(picture) : slot[i] = picture[i] /\ slot[i].frame = k
        /\ \A i \in Len(picture) + 1 .. FRAME_SIZE : slot[i] = slots[s][i]
        /\ IsAt(startMarker, slot, 1) /\ IsAt(endMarker, slot, Len(picture) - 1)
        /\ \A i \in 2 .. Len(picture) : ~IsAt(startMarker, slot, i)
        /\ \A i \in 1 .. Len(picture) - 2 : ~IsAt(endMarker, slot, i)
    BY <1>2, <1>3, SlotShape
  <1> HIDE DEF picture, slot, s
  <1>6. /\ \A i \in 2 .. FRAME_SIZE - 1 : ~IsAt(startMarker, slots[s], i)
        /\ \A i \in 1 .. FRAME_SIZE : slots[s][i].frame <= Len(pictures)
    BY <1>2 DEF FramesInv
  <1>7. \A i \in Len(picture) + 1 .. FRAME_SIZE : slot[i].frame <= Len(pictures)
    BY <1>5, <1>6
  <1>8. \A i \in 2 .. FRAME_SIZE - 1 : ~IsAt(startMarker, slot, i)
    <2> TAKE i \in 2 .. FRAME_SIZE - 1
    <2>1. CASE i <= Len(picture)
      BY <1>5, <2>1
    <2>2. CASE i > Len(picture)
      <3>1. slot[i] = slots[s][i] /\ slot[i + 1] = slots[s][i + 1]
        BY <1>5, <2>2
      <3> QED
        BY <1>6, <3>1 DEF IsAt
    <2> QED
      BY <1>5, <2>1, <2>2
  <1> QED
    BY <1>1, <1>2, <1>4, <1>5, <1>7, <1>8

\* The histories are sequences.
LEMMA Histories ==
  ASSUME TypeOK
  PROVE  /\ pictures \in Seq(Seq(Byte)) /\ frames \in Seq(Slot) /\ pushed \in Seq(Seq(Byte))
         /\ Len(pictures) \in 0 .. MAX_FRAMES /\ DOMAIN pictures = 1 .. Len(pictures)
         /\ Len(pushed) \in Nat /\ DOMAIN pushed = 1 .. Len(pushed)
         /\ Len(frameBuffer) \in Nat /\ DOMAIN frameBuffer = 1 .. Len(frameBuffer)
  <1>1. /\ pictures \in Seq(Seq(Byte)) /\ frames \in Seq(Slot) /\ pushed \in Seq(Seq(Byte))
        /\ frameBuffer \in Seq(Byte) /\ Len(pictures) <= MAX_FRAMES
    BY Zenon DEF TypeOK
  <1> QED
    BY <1>1

\* Where the datagrams are from, and where image_save is, in numbers.
LEMMA Numbers ==
  ASSUME TypeOK
  PROVE  /\ NextSent \in Nat /\ NextAt \in Nat
         /\ \A d \in Datagram :
              /\ d.frame \in Nat \ {0} /\ d.at \in Nat /\ End(d) \in 1 .. FRAME_SIZE
              /\ d.at < End(d) /\ Len(d.data) \in Nat \ {0} /\ End(d) = d.at + Len(d.data)
              /\ DOMAIN d.data = 1 .. Len(d.data) /\ d.data \in Seq(Byte)
         /\ Len(net) \in Nat /\ DOMAIN net = 1 .. Len(net)
         /\ \A i \in 1 .. Len(net) : net[i] \in Datagram
  <1>1. NextSent \in Nat /\ NextAt \in Nat
    BY DEF TypeOK, NextSent, NextAt
  <1>2. \A d \in Datagram :
          /\ d.frame \in Nat \ {0} /\ d.at \in Nat /\ End(d) \in 1 .. FRAME_SIZE
          /\ d.at < End(d) /\ Len(d.data) \in Nat \ {0} /\ End(d) = d.at + Len(d.data)
          /\ DOMAIN d.data = 1 .. Len(d.data) /\ d.data \in Seq(Byte)
    <2> TAKE d \in Datagram
    <2>1. /\ d.frame \in Nat \ {0} /\ d.at \in Nat /\ d.data \in Seq(Byte)
          /\ Len(d.data) \in Nat \ {0} /\ d.at + Len(d.data) <= FRAME_SIZE
          /\ DOMAIN d.data = 1 .. Len(d.data)
      BY DEF Datagram
    <2> QED
      BY <2>1 DEF End
  <1>3. net \in Seq(Datagram)
    BY DEF TypeOK
  <1> QED
    BY <1>1, <1>2, <1>3

\* A fault hits frames.
LEMMA FaultTypes ==
  ASSUME TypeOK, NEW hit \in SUBSET (1 .. MAX_FRAMES), Fault(hit)
  PROVE  faults' \in 0 .. MAX_FAULTS /\ damaged' \subseteq 1 .. MAX_FRAMES
  <1>1. faults \in 0 .. MAX_FAULTS /\ damaged \subseteq 1 .. MAX_FRAMES
    BY Zenon DEF TypeOK
  <1> QED
    BY <1>1 DEF Fault

\* The board's steps keep the types.
LEMMA BoardTypes ==
  ASSUME TypeOK, FramesInv, NextFrame \/ SendTo \/ SendFails
  PROVE  TypeOK'
  <1> USE DEF TypeOK
  <1>1. CASE NextFrame
    <2>1. /\ slots' \in [0 .. SLOTS - 1 -> Slot] /\ sending' \in Slot
          /\ pictures' \in Seq(Seq(Byte)) /\ frames' \in Seq(Slot)
          /\ Len(pictures') <= MAX_FRAMES
      <3> PICK s \in 0 .. SLOTS - 1, picture \in Seq(Byte), slot \in Slot :
            /\ Len(pictures) < MAX_FRAMES
            /\ slots' = [slots EXCEPT ![s] = slot] /\ sending' = slot
            /\ pictures' = Append(pictures, picture) /\ frames' = Append(frames, slot)
        BY <1>1, NewFrame
      <3>1. pictures' \in Seq(Seq(Byte)) /\ Len(pictures') <= MAX_FRAMES
        OBVIOUS
      <3>2. frames' \in Seq(Slot) /\ slots' \in [0 .. SLOTS - 1 -> Slot]
        OBVIOUS
      <3> QED
        BY <3>1, <3>2, Zenon
    <2> QED
      BY <1>1, <2>1, SMTT(30) DEF NextFrame, serverVars, faultVars
  <1>2. CASE SendTo
    <2>1. /\ sending \in Slot /\ wBytes \in 0 .. FRAME_SIZE - 1
          /\ Len(pictures) \in 1 .. MAX_FRAMES
      <3>1. sending # <<>> /\ sending \in Slot \cup {<<>>} /\ wBytes \in 0 .. FRAME_SIZE
        BY <1>2, Zenon DEF SendTo, TypeOK
      <3>2. wBytes < FRAME_SIZE /\ frames # <<>> /\ Len(frames) = Len(pictures)
        BY <3>1 DEF FramesInv
      <3>3. frames \in Seq(Slot) /\ Len(pictures) \in 0 .. MAX_FRAMES
        BY Histories
      <3> QED
        BY <3>1, <3>2, <3>3
    <2>2. /\ ChunkEnd \in wBytes + 1 .. FRAME_SIZE /\ ChunkEnd - wBytes <= CHUNK
      BY <2>1 DEF ChunkEnd
    <2> DEFINE bytes == SubSeq(sending, wBytes + 1, ChunkEnd)
               d == [frame |-> Len(pictures), at |-> wBytes, data |-> bytes]
    <2>3. bytes \in Seq(Byte) /\ Len(bytes) = ChunkEnd - wBytes
      <3>1. \A i \in wBytes + 1 .. ChunkEnd : sending[i] \in Byte
        BY <2>1, <2>2 DEF Slot
      <3> HIDE DEF bytes
      <3> QED
        BY <2>1, <2>2, <3>1, SubSeqProperties DEF bytes
    <2> HIDE DEF bytes
    <2>4. d \in Datagram
      BY <2>1, <2>2, <2>3, SMTT(30) DEF Datagram
    <2> HIDE DEF d
    <2>5. net' = Append(net, d) /\ net' \in Seq(Datagram)
      BY <1>2, <2>4 DEF SendTo, bytes, d
    <2> QED
      BY <1>2, <2>2, <2>5, SMTT(30) DEF SendTo, serverVars, faultVars
  <1>3. CASE SendFails
    <2>1. frames # <<>> /\ Len(frames) = Len(pictures)
      BY <1>3 DEF FramesInv, SendFails
    <2>2. frames \in Seq(Slot) /\ Len(pictures) \in 0 .. MAX_FRAMES
      BY Histories
    <2>3. faults' \in 0 .. MAX_FAULTS /\ damaged' \subseteq 1 .. MAX_FRAMES
      <3>1. {Len(pictures)} \in SUBSET (1 .. MAX_FRAMES)
        BY <2>1, <2>2
      <3> QED
        BY <1>3, <3>1, FaultTypes DEF SendFails
    <2> QED
      BY <1>3, <2>3 DEF SendFails, serverVars
  <1> QED
    BY <1>1, <1>2, <1>3

\* The network's steps keep the types.
LEMMA NetworkTypes ==
  ASSUME TypeOK, NetworkFault
  PROVE  TypeOK'
  <1>1. net' \in Seq(Datagram)
    <2>1. PICK i \in DOMAIN net : Lose(i) \/ Overtake(i) \/ Repeat(i)
      BY DEF NetworkFault
    <2>2. i \in 1 .. Len(net) /\ net \in Seq(Datagram)
      BY DEF TypeOK
    <2>3. CASE Lose(i)
      BY <2>2, <2>3, FaultyNet DEF Lose
    <2>4. CASE Overtake(i)
      BY <2>2, <2>4, FaultyNet DEF Overtake
    <2>5. CASE Repeat(i)
      BY <2>2, <2>5, FaultyNet DEF Repeat
    <2> QED
      BY <2>1, <2>3, <2>4, <2>5
  <1>2. faults' \in 0 .. MAX_FAULTS /\ damaged' \subseteq 1 .. MAX_FRAMES
    <2>1. PICK i \in DOMAIN net : Lose(i) \/ Overtake(i) \/ Repeat(i)
      BY DEF NetworkFault
    <2>2. \A j \in 1 .. Len(net) : net[j].frame \in 1 .. MAX_FRAMES
      <3>1. net \in Seq(Datagram) /\ \A d \in Datagram : d.frame \in 1 .. MAX_FRAMES
        BY Zenon DEF TypeOK, Datagram
      <3> QED
        BY <3>1
    <2>3. i \in 1 .. Len(net) /\ (i > 1 => i - 1 \in 1 .. Len(net))
      BY Numbers
    <2>4. \E hit \in SUBSET (1 .. MAX_FRAMES) : Fault(hit)
      <3>1. CASE Lose(i) \/ Repeat(i)
        <4>1. Fault({net[i].frame})
          BY <3>1 DEF Lose, Repeat
        <4>2. {net[i].frame} \in SUBSET (1 .. MAX_FRAMES)
          BY <2>2, <2>3
        <4> QED
          BY <4>1, <4>2, Zenon
      <3>2. CASE Overtake(i)
        <4>1. i > 1 /\ Fault({net[i - 1].frame, net[i].frame})
          BY <3>2 DEF Overtake
        <4>2. {net[i - 1].frame, net[i].frame} \in SUBSET (1 .. MAX_FRAMES)
          BY <2>2, <2>3, <4>1
        <4> QED
          BY <4>1, <4>2, Zenon
      <3> QED
        BY <2>1, <3>1, <3>2
    <2> QED
      BY <2>4, FaultTypes
  <1> QED
    BY <1>1, <1>2 DEF TypeOK, NetworkFault, senderVars, serverVars

\* A picture that is pushed, and what is left, are made of bytes.
LEMMA PushWhole ==
  ASSUME TypeOK, Push
  PROVE  (\E f \in Seq(Byte) : Deliver(f)) /\ frameBuffer' \in Seq(Byte)
  <1> PICK start \in IndexOf(frameBuffer, startMarker, 1) :
        \E end \in IndexOf(frameBuffer, endMarker, start) :
          /\ Deliver(SubSeq(frameBuffer, start, end + Len(endMarker) - 1))
          /\ frameBuffer' = Rest(frameBuffer, start, end)
    BY DEF Push
  <1> PICK end \in IndexOf(frameBuffer, endMarker, start) :
        /\ Deliver(SubSeq(frameBuffer, start, end + Len(endMarker) - 1))
        /\ frameBuffer' = Rest(frameBuffer, start, end)
    OBVIOUS
  <1>1. /\ start \in 1 .. Len(frameBuffer) - 1 /\ end \in start .. Len(frameBuffer) - 1
        /\ Len(endMarker) = 2 /\ frameBuffer \in Seq(Byte)
    BY DEF IndexOf, Places, endMarker, TypeOK
  <1>2. SubSeq(frameBuffer, start, end + Len(endMarker) - 1) \in Seq(Byte)
    BY <1>1, Part
  <1>3. end + 2 \in 1 .. Len(frameBuffer) + 1
        /\ Len(frameBuffer) \in end + 2 - 1 .. Len(frameBuffer)
    BY <1>1
  <1>4. SubSeq(frameBuffer, end + 2, Len(frameBuffer)) \in Seq(Byte)
    BY <1>1, <1>3, Part
  <1> QED
    BY <1>1, <1>2, <1>4 DEF Rest

\* The viewer's steps keep the types.
LEMMA ViewerTypes ==
  ASSUME TypeOK, Message \/ Push \/ Restart \/ \E c \in Client : Connect(c) \/ Close(c),
         ViewersInv
  PROVE  TypeOK'
  <1>d. \A d \in Datagram : d.frame \in 1 .. MAX_FRAMES /\ End(d) \in 1 .. FRAME_SIZE
    <2>1. \A d \in Datagram : d.frame \in 1 .. MAX_FRAMES
      BY Zenon DEF Datagram
    <2> QED
      BY <2>1, Numbers
  <1> USE DEF TypeOK
  <1>1. CASE Message
    <2>1. Head(net) \in Datagram /\ Tail(net) \in Seq(Datagram)
      BY <1>1 DEF Message
    <2>2. frameBuffer' \in Seq(Byte)
      BY <1>1, <2>1, ConcatProperties DEF Message, Joined, Datagram
    <2>3. latest' \in [frame : 0 .. MAX_FRAMES, at : 1 .. FRAME_SIZE]
      <3>1. latest' = [frame |-> Head(net).frame, at |-> End(Head(net))]
        BY <1>1 DEF Message
      <3>2. Head(net).frame \in 0 .. MAX_FRAMES /\ End(Head(net)) \in 1 .. FRAME_SIZE
        <4>1. \A d \in Datagram : d.frame \in 0 .. MAX_FRAMES /\ End(d) \in 1 .. FRAME_SIZE
          <5>1. \A i \in 1 .. MAX_FRAMES : i \in 0 .. MAX_FRAMES
            OBVIOUS
          <5> QED
            BY <1>d, <5>1, Zenon
        <4> QED
          BY <2>1, <4>1, Zenon
      <3> QED
        BY <3>1, <3>2
    <2> QED
      BY <1>1, <2>1, <2>2, <2>3 DEF Message, senderVars, serverVars, faultVars
  <1>2. CASE Push
    <2>0. frameBuffer' \in Seq(Byte)
      BY <1>2, PushWhole
    <2> PICK f \in Seq(Byte) : Deliver(f)
      BY <1>2, PushWhole
    <2>4. pushed' \in Seq(Seq(Byte)) /\ ready' \in Seq(Seq(Byte))
      <3>1. /\ pushed' = Append(pushed, f)
            /\ ready' = IF flowing THEN ready ELSE Append(ready, f)
        BY DEF Deliver
      <3> QED
        BY <3>1
    <2>5. got' \in [Client -> Seq(Seq(Byte))]
      <3>1. \A c \in Client : Append(got[c], f) \in Seq(Seq(Byte))
        BY DEF TypeOK
      <3> QED
        BY <3>1 DEF Deliver
    <2> QED
      BY <1>2, <2>0, <2>4, <2>5 DEF Push, senderVars, faultVars
  <1>3. CASE Restart
    <2>1. UNCHANGED <<senderVars, net, pushed>> /\ frameBuffer' = <<>> /\ flowing' \in BOOLEAN
          /\ ready' = <<>> /\ listeners' = {} /\ clients' = {}
      BY <1>3, Zenon DEF Restart
    <2>2. /\ got' = [c \in Client |-> <<>>] /\ since' = [c \in Client |-> 0]
      BY <1>3 DEF Restart
    <2>3. latest' = latest /\ faults' \in 0 .. MAX_FAULTS /\ damaged' \subseteq 1 .. MAX_FRAMES
      <3>1. latest.frame \in 0 .. MAX_FRAMES
        OBVIOUS
      <3>2. {latest.frame} \ {0} \in SUBSET (1 .. MAX_FRAMES)
        BY <3>1
      <3> QED
        BY <1>3, <3>2, FaultTypes DEF Restart
    <2> QED
      BY <2>1, <2>2, <2>3 DEF senderVars
  <1>4. ASSUME NEW c \in Client, Connect(c)
        PROVE  TypeOK'
    <2>1. got' \in [Client -> Seq(Seq(Byte))]
      BY <1>4 DEF Connect
    <2>2. got'[c] = IF flowing THEN <<>> ELSE ready
      BY <1>4 DEF Connect
    <2>3. Len(pushed) - Len(got'[c]) \in Nat
      BY <2>2 DEF ViewersInv
    <2>4. since' \in [Client -> Nat]
      BY <1>4, <2>3 DEF Connect
    <2> QED
      BY <1>4, <2>1, <2>4, SMTT(30) DEF Connect, senderVars, faultVars
  <1>5. ASSUME NEW c \in Client, Close(c)
        PROVE  TypeOK'
    BY <1>5 DEF Close, WithoutListener, senderVars, faultVars
  <1> QED
    BY <1>1, <1>2, <1>3, <1>4, <1>5

\* Every step keeps the types.
LEMMA TypeStep ==
  ASSUME IInv, Next
  PROVE  TypeOK'
  BY BoardTypes, NetworkTypes, ViewerTypes DEF IInv, Next

-----------------------------------------------------------------------------
(* The browsers.                                                            *)

\* What is appended to a sequence is appended to each of its ends.
LEMMA AppendToPart ==
  ASSUME NEW S, NEW s \in Seq(S), NEW e \in S, NEW n \in 0 .. Len(s)
  PROVE  Append(SubSeq(s, n + 1, Len(s)), e)
           = SubSeq(Append(s, e), n + 1, Len(Append(s, e)))
  <1> DEFINE t == SubSeq(s, n + 1, Len(s))
             w == Append(s, e)
             u == SubSeq(w, n + 1, Len(w))
  <1>1. /\ t \in Seq(S) /\ Len(t) = Len(s) - n
        /\ \A i \in 1 .. Len(s) - n : t[i] = s[n + i]
    <2>1. n + 1 \in 1 .. Len(s) + 1 /\ Len(s) \in n + 1 - 1 .. Len(s) /\ Len(s) \in Nat
      OBVIOUS
    <2>2. /\ t \in Seq(S) /\ Len(t) = Len(s) - (n + 1) + 1
          /\ \A i \in 1 .. Len(s) - (n + 1) + 1 : t[i] = s[(n + 1) + i - 1]
      BY <2>1, Part
    <2> HIDE DEF t
    <2> QED
      BY <2>1, <2>2, SMTT(30)
  <1>2. /\ w \in Seq(S) /\ Len(w) = Len(s) + 1 /\ w[Len(s) + 1] = e
        /\ \A i \in 1 .. Len(s) : w[i] = s[i]
    BY AppendProperties
  <1> HIDE DEF t, w
  <1>3. /\ u \in Seq(S) /\ Len(u) = Len(w) - n
        /\ \A i \in 1 .. Len(w) - n : u[i] = w[n + i]
    <2>1. n + 1 \in 1 .. Len(w) + 1 /\ Len(w) \in n + 1 - 1 .. Len(w) /\ Len(w) \in Nat
      BY <1>2
    <2>2. /\ u \in Seq(S) /\ Len(u) = Len(w) - (n + 1) + 1
          /\ \A i \in 1 .. Len(w) - (n + 1) + 1 : u[i] = w[(n + 1) + i - 1]
      BY <1>2, <2>1, Part
    <2> HIDE DEF u
    <2> QED
      BY <2>1, <2>2, SMTT(30)
  <1> HIDE DEF u
  <1>4. /\ Append(t, e) \in Seq(S) /\ Len(Append(t, e)) = Len(t) + 1
        /\ \A i \in 1 .. Len(t) : Append(t, e)[i] = t[i]
        /\ Append(t, e)[Len(t) + 1] = e
    BY <1>1, AppendProperties
  <1> DEFINE x == Append(t, e)
  <1> HIDE DEF x
  <1>5. /\ x \in Seq(S) /\ Len(x) = Len(u)
        /\ \A i \in 1 .. Len(x) : x[i] = u[i]
    <2>1. x \in Seq(S) /\ Len(x) = Len(s) - n + 1 /\ Len(u) = Len(s) - n + 1 /\ Len(s) \in Nat
      BY <1>1, <1>2, <1>3, <1>4 DEF x
    <2>2. \A i \in 1 .. Len(s) - n : x[i] = s[n + i] /\ u[i] = s[n + i]
      <3>1. \A i \in 1 .. Len(s) - n : x[i] = s[n + i]
        BY <1>1, <1>4 DEF x
      <3>2. ASSUME NEW i \in 1 .. Len(s) - n
            PROVE  u[i] = s[n + i]
        <4>1. i \in 1 .. Len(w) - n /\ n + i \in 1 .. Len(s)
          BY <1>2, <2>1
        <4> QED
          BY <1>2, <1>3, <4>1
      <3> QED
        BY <3>1, <3>2
    <2>3. x[Len(s) - n + 1] = e /\ u[Len(s) - n + 1] = e
      BY <1>1, <1>2, <1>3, <1>4, <2>1 DEF x
    <2> QED
      BY <2>1, <2>2, <2>3
  <1>6. x = u
    BY <1>3, <1>5, SeqEqual
  <1> QED
    BY <1>6 DEF x, u, t, w

\* Who is connected misses nothing, and pictures wait only for the first.
LEMMA ViewersStep ==
  ASSUME IInv, Next
  PROVE  ViewersInStep' /\ ViewersInv'
  <1> USE DEF IInv
  <1>1. CASE NextFrame \/ SendTo \/ SendFails \/ NetworkFault \/ Message
    <2>1. UNCHANGED <<serverVars, pushed>>
      BY <1>1 DEF NextFrame, SendTo, SendFails, NetworkFault, Message
    <2> QED
      BY <2>1 DEF ViewersInStep, ViewersInv, serverVars
  <1>2. CASE Push
    <2> PICK f \in Seq(Byte) : Deliver(f)
      BY <1>2, PushWhole
    <2>1. UNCHANGED <<flowing, listeners, clients, since>>
      BY <1>2 DEF Push
    <2>2. /\ pushed \in Seq(Seq(Byte)) /\ pushed' = Append(pushed, f)
          /\ Len(pushed) \in Nat /\ Len(pushed') = Len(pushed) + 1
      BY DEF TypeOK, Deliver
    <2>3. ASSUME NEW c \in clients
          PROVE  got'[c] = SubSeq(pushed', since'[c] + 1, Len(pushed'))
                 /\ since'[c] <= Len(pushed')
      <3>1. c \in Client /\ since[c] \in 0 .. Len(pushed) /\ flowing /\ c \in listeners
            /\ got[c] = SubSeq(pushed, since[c] + 1, Len(pushed))
        BY SMTT(30) DEF TypeOK, ViewersInv, ViewersInStep
      <3>2. got'[c] = Append(got[c], f)
        BY <3>1 DEF Deliver
      <3>3. Append(got[c], f) = SubSeq(pushed', since[c] + 1, Len(pushed'))
        BY <2>2, <3>1, AppendToPart
      <3> QED
        <4>1. since'[c] = since[c]
          BY <2>1
        <4>2. since'[c] <= Len(pushed')
          BY <2>2, <3>1, <4>1
        <4> QED
          BY <3>2, <3>3, <4>1, <4>2, Zenon
    <2>4. /\ flowing => ready' = <<>>
          /\ Len(ready') <= Len(pushed')
          /\ ready' = SubSeq(pushed', Len(pushed') - Len(ready') + 1, Len(pushed'))
      <3>1. CASE flowing
        <4>1. ready' = <<>>
          BY <3>1 DEF Deliver, ViewersInStep
        <4>2. SubSeq(pushed', Len(pushed') - 0 + 1, Len(pushed')) = <<>>
          BY <2>2, SubSeqEmpty
        <4> QED
          BY <2>2, <3>1, <4>1, <4>2
      <3>2. CASE ~flowing
        <4> DEFINE n == Len(pushed) - Len(ready)
        <4>1. ready' = Append(ready, f)
          BY <3>2 DEF Deliver
        <4>2. n \in 0 .. Len(pushed) /\ ready = SubSeq(pushed, n + 1, Len(pushed))
              /\ Len(ready) \in Nat /\ Len(ready') = Len(ready) + 1
          BY <2>2, <4>1 DEF ViewersInv, TypeOK
        <4> HIDE DEF n
        <4>3. ready' = SubSeq(pushed', n + 1, Len(pushed'))
          BY <2>2, <4>1, <4>2, AppendToPart
        <4>4. Len(pushed') - Len(ready') = n /\ Len(ready') <= Len(pushed')
          BY <2>2, <4>2 DEF n
        <4> QED
          BY <3>2, <4>3, <4>4
      <3> QED
        BY <3>1, <3>2
    <2> QED
      BY <2>1, <2>3, <2>4 DEF ViewersInStep, ViewersInv
  <1>3. CASE Restart
    <2>1. /\ pushed' = pushed /\ pushed \in Seq(Seq(Byte)) /\ Len(pushed) \in Nat
          /\ ready' = <<>> /\ listeners' = {} /\ clients' = {} /\ flowing' = FALSE
      BY <1>3 DEF Restart, TypeOK
    <2>2. SubSeq(pushed, Len(pushed) - 0 + 1, Len(pushed)) = <<>>
      BY <2>1, SubSeqEmpty
    <2> QED
      BY <2>1, <2>2 DEF ViewersInStep, ViewersInv
  <1>4. ASSUME NEW c \in Client, Connect(c)
        PROVE  ViewersInStep' /\ ViewersInv'
    <2>1. /\ pushed' = pushed /\ pushed \in Seq(Seq(Byte)) /\ Len(pushed) \in Nat
          /\ ready' = <<>> /\ listeners' = listeners \cup {c} /\ clients' = clients \cup {c}
          /\ flowing' = TRUE
      BY <1>4 DEF Connect, TypeOK
    <2>2. SubSeq(pushed, Len(pushed) - 0 + 1, Len(pushed)) = <<>>
      BY <2>1, SubSeqEmpty
    <2>3. got'[c] = IF flowing THEN <<>> ELSE ready
      BY <1>4 DEF Connect, TypeOK
    <2>4. /\ got'[c] = SubSeq(pushed, Len(pushed) - Len(got'[c]) + 1, Len(pushed))
          /\ Len(pushed) - Len(got'[c]) <= Len(pushed)
      <3>1. CASE flowing
        BY <2>1, <2>2, <2>3, <3>1
      <3>2. CASE ~flowing
        <4>0. ready = SubSeq(pushed, Len(pushed) - Len(ready) + 1, Len(pushed))
          BY Zenon DEF ViewersInv
        <4>1. Len(ready) \in Nat
          BY DEF TypeOK
        <4>2. got'[c] = ready
          BY <2>3, <3>2
        <4>3. Len(pushed) - Len(ready) <= Len(pushed)
          BY <2>1, <4>1
        <4> QED
          BY <4>0, <4>2, <4>3, Zenon
      <3> QED
        BY <3>1, <3>2
    <2>5. since'[c] = Len(pushed) - Len(got'[c])
      BY <1>4 DEF Connect, TypeOK
    <2>6. \A b \in clients : b # c => got'[b] = got[b] /\ since'[b] = since[b]
      BY <1>4 DEF Connect, TypeOK
    <2>7. \A b \in clients' : /\ got'[b] = SubSeq(pushed', since'[b] + 1, Len(pushed'))
                              /\ since'[b] <= Len(pushed')
      BY <2>1, <2>4, <2>5, <2>6 DEF ViewersInv, ViewersInStep
    <2> QED
      BY <2>1, <2>2, <2>7 DEF ViewersInv, ViewersInStep
  <1>5. ASSUME NEW c \in Client, Close(c)
        PROVE  ViewersInStep' /\ ViewersInv'
    <2>1. /\ pushed' = pushed /\ ready' = ready /\ flowing' = flowing
          /\ listeners' = listeners \ {c} /\ clients' = clients \ {c}
      BY <1>5 DEF Close, WithoutListener
    <2>2. \A b \in clients' : got'[b] = got[b] /\ since'[b] = since[b]
      BY <1>5 DEF Close, TypeOK
    <2> QED
      BY <2>1, <2>2 DEF ViewersInv, ViewersInStep
  <1> QED
    BY <1>1, <1>2, <1>3, <1>4, <1>5 DEF Next

-----------------------------------------------------------------------------
(* What was sent.                                                           *)

\* The numbers of frames that bytes carry are numbers.
LEMMA LabelsAreNumbers ==
  \A x \in Slot, i \in 1 .. FRAME_SIZE : x[i].frame \in Nat
  BY DEF Slot, Byte

\* A frame that was sent stays what it is, and a new one is a picture over
\* older ones.
LEMMA FramesStep ==
  ASSUME IInv, Next
  PROVE  FramesInv'
  <1> USE DEF IInv
  <1>1. CASE NextFrame
    <2> PICK s \in 0 .. SLOTS - 1, picture \in Seq(Byte), slot \in Slot :
           /\ Len(pictures) < MAX_FRAMES
           /\ slots' = [slots EXCEPT ![s] = slot] /\ sending' = slot
           /\ pictures' = Append(pictures, picture) /\ frames' = Append(frames, slot)
           /\ Len(picture) \in 4 .. FRAME_SIZE
           /\ \A i \in 1 .. Len(picture) :
                slot[i] = picture[i] /\ slot[i].frame = Len(pictures) + 1
           /\ \A i \in Len(picture) + 1 .. FRAME_SIZE : slot[i].frame <= Len(pictures)
           /\ IsAt(startMarker, slot, 1) /\ IsAt(endMarker, slot, Len(picture) - 1)
           /\ \A i \in 2 .. FRAME_SIZE - 1 : ~IsAt(startMarker, slot, i)
           /\ \A i \in 1 .. Len(picture) - 2 : ~IsAt(endMarker, slot, i)
      BY <1>1, NewFrame
    <2> PICK n \in Nat : n = Len(pictures)
      BY DEF TypeOK
    <2>1. /\ pictures \in Seq(Seq(Byte)) /\ frames \in Seq(Slot) /\ n \in Nat
          /\ Len(frames) = n
      BY DEF TypeOK, FramesInv
    <2>2. /\ Len(pictures') = n + 1 /\ Len(frames') = n + 1
          /\ pictures'[n + 1] = picture /\ frames'[n + 1] = slot
          /\ \A p \in 1 .. n : pictures'[p] = pictures[p] /\ frames'[p] = frames[p]
      BY <2>1
    <2>a. /\ \A i \in 1 .. Len(picture) : slot[i] = picture[i] /\ slot[i].frame = n + 1
          /\ \A i \in Len(picture) + 1 .. FRAME_SIZE : slot[i].frame <= n
          /\ \A x \in Slot, i \in 1 .. FRAME_SIZE : x[i].frame \in Nat
      BY LabelsAreNumbers
    <2>b. /\ DOMAIN pictures = 1 .. n
          /\ \A r \in 0 .. SLOTS - 1 : \A i \in 1 .. FRAME_SIZE : slots[r][i].frame <= n
      BY <2>1 DEF FramesInv
    <2>3. ASSUME NEW r \in 0 .. SLOTS - 1
          PROVE  /\ \A i \in 2 .. FRAME_SIZE - 1 : ~IsAt(startMarker, slots'[r], i)
                 /\ \A i \in 1 .. FRAME_SIZE : slots'[r][i].frame <= n + 1
      <3>1. CASE r = s
        <4>1. slots'[r] = slot
          BY <3>1 DEF TypeOK
        <4>2. \A i \in 1 .. FRAME_SIZE : slot[i].frame <= n + 1
          <5> TAKE i \in 1 .. FRAME_SIZE
          <5>1. slot[i].frame \in Nat /\ n \in Nat
            BY <2>1, <2>a
          <5>2. slot[i].frame = n + 1 \/ slot[i].frame <= n
            BY <2>a
          <5> QED
            BY <5>1, <5>2, SMTT(30)
        <4> QED
          BY <4>1, <4>2
      <3>2. CASE r # s
        <4>1. slots'[r] = slots[r] /\ slots[r] \in Slot
          BY <3>2 DEF TypeOK
        <4>2. /\ \A i \in 2 .. FRAME_SIZE - 1 : ~IsAt(startMarker, slots[r], i)
              /\ \A i \in 1 .. FRAME_SIZE : slots[r][i].frame <= n
          BY <2>b DEF FramesInv
        <4>3. \A i \in 1 .. FRAME_SIZE : slots[r][i].frame <= n + 1
          <5> TAKE i \in 1 .. FRAME_SIZE
          <5>1. slots[r][i].frame \in Nat /\ slots[r][i].frame <= n /\ n \in Nat
            BY <2>1, <2>a, <4>1, <4>2
          <5> QED
            BY <5>1
        <4> QED
          BY <4>1, <4>2, <4>3
      <3> QED
        BY <3>1, <3>2
    <2>4. ASSUME NEW p \in 1 .. n
          PROVE  IsSent(p)'
      <3>1. IsSent(p) /\ pictures'[p] = pictures[p] /\ frames'[p] = frames[p]
        BY <2>b, <2>2 DEF FramesInv
      <3> QED
        BY <3>1 DEF IsSent
    <2>5. IsSent(n + 1)'
      <3>1. \A i \in Len(picture) + 1 .. FRAME_SIZE : slot[i].frame < n + 1
        <4> TAKE i \in Len(picture) + 1 .. FRAME_SIZE
        <4>1. i \in 1 .. FRAME_SIZE
          OBVIOUS
        <4>2. slot[i].frame \in Nat /\ n \in Nat /\ slot[i].frame <= n
          BY <2>1, <2>a, <4>1
        <4> QED
          BY <4>2
      <3> QED
        BY <2>2, <2>a, <3>1 DEF IsSent
    <2>6. sending' = frames'[Len(frames')] /\ frames' # <<>> /\ wBytes' < FRAME_SIZE
      <3>1. wBytes' < FRAME_SIZE
        BY <1>1 DEF NextFrame
      <3>2. Len(frames') = n + 1 /\ frames'[n + 1] = slot
        BY <2>2
      <3>3. frames' # <<>>
        <4>1. Len(frames') # 0
          BY <2>1, <3>2
        <4>2. Len(<<>>) = 0
          OBVIOUS
        <4> QED
          BY <4>1, <4>2, Zenon
      <3> QED
        BY <3>1, <3>2, <3>3
    <2> QED
      <3>1. \A p \in DOMAIN pictures' : IsSent(p)'
        <4>1. DOMAIN pictures' = 1 .. n + 1
          BY <2>1, <2>2
        <4>2. \A p \in 1 .. n + 1 : p \in 1 .. n \/ p = n + 1
          BY <2>1
        <4> QED
          BY <2>4, <2>5, <4>1, <4>2
      <3> QED
        BY <2>2, <2>3, <2>6, <3>1 DEF FramesInv
  <1>2. CASE SendTo
    <2>1. /\ UNCHANGED <<slots, pictures, frames>> /\ wBytes' = ChunkEnd
          /\ sending' = IF ChunkEnd < FRAME_SIZE THEN sending ELSE <<>>
      BY <1>2 DEF SendTo
    <2> QED
      BY <2>1 DEF FramesInv, IsSent
  <1>3. CASE SendFails
    <2>1. UNCHANGED <<slots, pictures, frames>> /\ sending' = <<>>
      BY <1>3 DEF SendFails
    <2> QED
      BY <2>1 DEF FramesInv, IsSent
  <1>4. CASE NetworkFault \/ Message \/ Push \/ Restart \/ \E c \in Client : Connect(c) \/ Close(c)
    <2>1. UNCHANGED senderVars
      BY <1>4 DEF NetworkFault, Message, Push, Restart, Connect, Close
    <2> QED
      BY <2>1 DEF FramesInv, IsSent, senderVars
  <1> QED
    BY <1>1, <1>2, <1>3, <1>4 DEF Next

-----------------------------------------------------------------------------
(* The stream without faults.                                               *)

\* A place in the stream.
Place(k, m) ==
  k \in 0 .. Len(pictures) /\ m \in 1 .. FRAME_SIZE /\ (k = 0 => m = FRAME_SIZE)

\* The lengths of the pictures, and of what is behind them.
LEMMA Lengths ==
  ASSUME TypeOK, FramesInv, NEW p \in 0 .. Len(pictures)
  PROVE  /\ Length(p) \in 4 .. FRAME_SIZE \/ p = 0
         /\ Length(p) \in 1 .. FRAME_SIZE
         /\ p = 0 => Length(p) = FRAME_SIZE
         /\ p # 0 => Length(p) = Len(pictures[p])
  <1>1. CASE p = 0
    BY <1>1 DEF Length
  <1>2. CASE p # 0
    <2>1. p \in DOMAIN pictures /\ Length(p) = Len(pictures[p])
      BY <1>2 DEF TypeOK, Length
    <2>2. Len(pictures[p]) \in 4 .. FRAME_SIZE
      BY <2>1 DEF FramesInv, IsSent
    <2> QED
      BY <1>2, <2>1, <2>2
  <1> QED
    BY <1>1, <1>2

\* Where the bytes in the viewer's buffer are from.
LEMMA BufferBytes ==
  ASSUME TypeOK, FramesInv, NEW k, NEW m, Place(k, m), BufferInv(k, m)
  PROVE  LET last == Len(pushed)
             rest == FRAME_SIZE - Length(last)
         IN  /\ last \in 0 .. Len(pictures) /\ rest \in 0 .. FRAME_SIZE - 1
             /\ Len(frameBuffer) \in Nat
             /\ \A i \in 1 .. Len(frameBuffer) :
                  /\ i <= rest => frameBuffer[i] = frames[last][Length(last) + i]
                  /\ i > rest => frameBuffer[i] = frames[last + 1][i - rest]
             /\ \/ /\ k = last /\ Length(last) <= m
                   /\ Len(frameBuffer) = m - Length(last) /\ Len(frameBuffer) <= rest
                \/ /\ k = last + 1 /\ k \in DOMAIN pictures
                   /\ Len(frameBuffer) = rest + m
  <1> PICK last \in Nat : last = Len(pushed)
    BY DEF TypeOK
  <1>1. last \in 0 .. Len(pictures) /\ Len(pictures) \in Nat
    BY DEF BufferInv, TypeOK
  <1> PICK length \in 1 .. FRAME_SIZE : length = Length(last)
    BY <1>1, Lengths
  <1> DEFINE rest == FRAME_SIZE - length
  <1>2. rest \in 0 .. FRAME_SIZE - 1
    OBVIOUS
  <1>3. \A i \in 1 .. Len(frameBuffer) :
          /\ i <= rest => frameBuffer[i] = frames[last][length + i]
          /\ i > rest => frameBuffer[i] = frames[last + 1][i - rest]
    <2>1. DOMAIN frameBuffer = 1 .. Len(frameBuffer) /\ Len(frameBuffer) \in Nat
      BY DEF TypeOK
    <2>2. \A i \in 1 .. Len(frameBuffer) : frameBuffer[i] = Behind(last, i)
      BY <2>1 DEF BufferInv
    <2> QED
      BY <2>1, <2>2 DEF Behind
  <1>b. Len(frameBuffer) = m - length + (IF k = last THEN 0 ELSE FRAME_SIZE)
    BY DEF BufferInv
  <1>4. CASE k = last
    <2>1. length <= m /\ Len(frameBuffer) = m - length + 0 /\ m \in 1 .. FRAME_SIZE
      BY <1>4 DEF BufferInv, Place
    <2> QED
      BY <1>1, <1>2, <1>3, <1>4, <2>1
  <1>5. CASE k = last + 1
    <2>1. Len(frameBuffer) = m - length + FRAME_SIZE /\ m \in 1 .. FRAME_SIZE
      BY <1>b, <1>5 DEF Place
    <2>2. k \in DOMAIN pictures
      BY <1>5, Histories DEF Place
    <2> QED
      BY <1>1, <1>2, <1>3, <1>5, <2>1, <2>2
  <1> QED
    BY <1>4, <1>5 DEF BufferInv

\* A buffer that holds the rest of a slot, behind the first `length' of its bytes,
\* and then `many' bytes of the next one, whose picture has `now' bytes.
Window(buffer, size, older, length, rest, frame, now, many) ==
  /\ size \in Nat /\ size = Len(buffer)
  /\ length \in Nat /\ length >= 1 /\ rest \in Nat /\ length + rest = FRAME_SIZE
  /\ now \in Nat /\ (size > rest => now \in 4 .. FRAME_SIZE)
  /\ many \in Nat /\ many <= FRAME_SIZE
  /\ size <= rest \/ size = rest + many
  /\ \A i \in 1 .. size : i <= rest => buffer[i] = older[length + i]
  /\ \A i \in 1 .. size : i > rest => buffer[i] = frame[i - rest]
  /\ rest > 0 => \A i \in 2 .. FRAME_SIZE - 1 : ~IsAt(startMarker, older, i)
  /\ size > rest =>
       /\ IsAt(startMarker, frame, 1) /\ IsAt(endMarker, frame, now - 1)
       /\ \A i \in 2 .. FRAME_SIZE - 1 : ~IsAt(startMarker, frame, i)
       /\ \A i \in 1 .. now - 2 : ~IsAt(endMarker, frame, i)

\* In such a buffer the start marker is only where the next slot starts, neither
\* in the rest nor across the border, and the first end marker behind it is where
\* its picture ends, if that has arrived.
LEMMA Cut ==
  ASSUME NEW buffer, NEW size, NEW older, NEW length, NEW rest, NEW frame, NEW now,
         NEW many, Window(buffer, size, older, length, rest, frame, now, many)
  PROVE  /\ IndexOf(buffer, startMarker, 1) \subseteq {rest + 1}
         /\ size <= rest => IndexOf(buffer, startMarker, 1) = {}
         /\ size > rest /\ many < now => IndexOf(buffer, endMarker, rest + 1) = {}
         /\ size > rest /\ many >= now =>
              /\ rest + 1 \in IndexOf(buffer, startMarker, 1)
              /\ IndexOf(buffer, endMarker, rest + 1) = {rest + now - 1}
  <1> USE DEF Window
  <1>1. ASSUME NEW i \in 1 .. size - 1, IsAt(startMarker, buffer, i)
        PROVE  i = rest + 1
    <2>1. CASE i + 1 <= rest
      <3>1. /\ buffer[i] = older[length + i]
            /\ buffer[i + 1] = older[length + (i + 1)]
            /\ length + (i + 1) = (length + i) + 1
            /\ length + i \in 2 .. FRAME_SIZE - 1
        <4>1. i \in 1 .. size /\ i + 1 \in 1 .. size /\ i <= rest
          BY <2>1
        <4>2. length + i \in 2 .. FRAME_SIZE - 1
          BY <2>1
        <4> QED
          BY <2>1, <4>1, <4>2
      <3>2. IsAt(startMarker, older, length + i)
        BY <1>1, <3>1 DEF IsAt
      <3> QED
        BY <2>1, <3>1, <3>2
    <2>2. CASE i = rest
      <3>1. buffer[i + 1] = frame[1] /\ size > rest
        <4>1. i + 1 \in 1 .. size /\ i + 1 > rest /\ (i + 1) - rest = 1 /\ size > rest
          BY <2>2
        <4> QED
          BY <4>1
      <3>2. frame[1].value = "FF"
        BY <3>1 DEF IsAt, startMarker
      <3> QED
        BY <1>1, <3>1, <3>2 DEF IsAt, startMarker
    <2>3. CASE i > rest
      <3>1. /\ i - rest \in 1 .. FRAME_SIZE - 1 /\ size > rest
            /\ buffer[i] = frame[i - rest]
            /\ buffer[i + 1] = frame[(i - rest) + 1]
        <4>1. /\ i \in 1 .. size /\ i + 1 \in 1 .. size /\ i + 1 > rest
              /\ (i + 1) - rest = (i - rest) + 1 /\ size > rest
          BY <2>3
        <4>2. i - rest \in 1 .. FRAME_SIZE - 1
          BY <2>3, <4>1
        <4> QED
          BY <2>3, <4>1, <4>2
      <3>2. IsAt(startMarker, frame, i - rest)
        BY <1>1, <3>1 DEF IsAt
      <3>3. ~(i - rest \in 2 .. FRAME_SIZE - 1)
        BY <3>1, <3>2
      <3> QED
        BY <3>1, <3>3
    <2> QED
      BY <2>1, <2>2, <2>3
  <1>2. IndexOf(buffer, startMarker, 1) \subseteq {rest + 1}
    BY <1>1 DEF IndexOf, Places
  <1>3. size <= rest => IndexOf(buffer, startMarker, 1) = {}
    BY <1>1 DEF IndexOf, Places
  <1>4. ASSUME NEW i \in rest + 1 .. size - 1
        PROVE  /\ i - rest \in 1 .. FRAME_SIZE - 1
               /\ IsAt(endMarker, buffer, i) <=> IsAt(endMarker, frame, i - rest)
               /\ IsAt(startMarker, buffer, i) <=> IsAt(startMarker, frame, i - rest)
    <2>1. /\ i - rest \in 1 .. FRAME_SIZE - 1
          /\ buffer[i] = frame[i - rest]
          /\ buffer[i + 1] = frame[(i - rest) + 1]
      <3>1. /\ i \in 1 .. size /\ i + 1 \in 1 .. size /\ i > rest /\ i + 1 > rest
            /\ (i + 1) - rest = (i - rest) + 1 /\ size = rest + many
        OBVIOUS
      <3>2. i - rest \in 1 .. FRAME_SIZE - 1
        BY <3>1
      <3> QED
        BY <3>1, <3>2
    <2> QED
      BY <2>1 DEF IsAt
  <1>5. ASSUME NEW i \in rest + 1 .. size - 1, IsAt(endMarker, buffer, i)
        PROVE  i >= rest + now - 1
    <2>1. size > rest /\ i - rest \in 1 .. FRAME_SIZE - 1
      <3>1. size > rest
        OBVIOUS
      <3> QED
        BY <1>4, <3>1
    <2>2. IsAt(endMarker, frame, i - rest)
      BY <1>4, <1>5
    <2>3. ~(i - rest \in 1 .. now - 2)
      BY <2>1, <2>2
    <2> QED
      BY <2>1, <2>3
  <1>6. ASSUME size > rest, many < now
        PROVE  IndexOf(buffer, endMarker, rest + 1) = {}
    <2>1. size = rest + many
      BY <1>6
    <2>2. \A i \in rest + 1 .. size - 1 : ~(i >= rest + now - 1)
      BY <1>6, <2>1
    <2> QED
      BY <1>5, <2>2 DEF IndexOf, Places
  <1>7. ASSUME size > rest, many >= now
        PROVE  /\ rest + 1 \in IndexOf(buffer, startMarker, 1)
               /\ IndexOf(buffer, endMarker, rest + 1) = {rest + now - 1}
    <2>1. size = rest + many
      BY <1>7
    <2>2. /\ rest + 1 \in 1 .. size - 1 /\ rest + 1 \in rest + 1 .. size - 1
          /\ (rest + 1) - rest = 1
      BY <1>7, <2>1
    <2>3. IsAt(startMarker, buffer, rest + 1)
      BY <1>4, <1>7, <2>2
    <2>4. rest + 1 \in IndexOf(buffer, startMarker, 1)
      BY <1>1, <2>2, <2>3 DEF IndexOf, Places
    <2>5. /\ rest + now - 1 \in rest + 1 .. size - 1
          /\ (rest + now - 1) - rest = now - 1
      BY <1>7, <2>1
    <2>6. IsAt(endMarker, buffer, rest + now - 1)
      BY <1>4, <1>7, <2>5
    <2>7. IndexOf(buffer, endMarker, rest + 1) = {rest + now - 1}
      <3>1. rest + now - 1 \in Places(buffer, endMarker, rest + 1)
        BY <2>5, <2>6 DEF Places
      <3>2. \A j \in Places(buffer, endMarker, rest + 1) :
              j \in Int /\ rest + now - 1 <= j
        BY <1>5 DEF Places
      <3> QED
        BY <3>1, <3>2 DEF IndexOf
    <2> QED
      BY <2>4, <2>7
  <1> QED
    BY <1>2, <1>3, <1>6, <1>7

\* The search for the markers in the viewer's buffer finds the picture that has
\* arrived, if it has arrived to its end, and nothing else.
LEMMA Markers ==
  ASSUME TypeOK, FramesInv, NEW k, NEW m, Place(k, m), BufferInv(k, m)
  PROVE  LET start == FRAME_SIZE - Length(Len(pushed)) + 1
             end == FRAME_SIZE - Length(Len(pushed)) + Length(k) - 1
         IN  /\ IndexOf(frameBuffer, startMarker, 1) \subseteq {start}
             /\ k = Len(pushed) \/ m < Length(k) => ~HasPicture
             /\ k # Len(pushed) /\ m >= Length(k) =>
                  /\ start \in IndexOf(frameBuffer, startMarker, 1)
                  /\ IndexOf(frameBuffer, endMarker, start) = {end}
  <1> DEFINE last == Len(pushed)
             rest == FRAME_SIZE - Length(last)
             size == Len(frameBuffer)
             now == Length(k)
  <1>1. /\ last \in 0 .. Len(pictures) /\ rest \in 0 .. FRAME_SIZE - 1
        /\ size \in Nat
        /\ \A i \in 1 .. size :
             /\ i <= rest => frameBuffer[i] = frames[last][Length(last) + i]
             /\ i > rest => frameBuffer[i] = frames[last + 1][i - rest]
        /\ \/ k = last /\ size <= rest
           \/ k = last + 1 /\ k \in DOMAIN pictures /\ size = rest + m
    BY BufferBytes
  <1>2. k \in 0 .. Len(pictures) /\ m \in 1 .. FRAME_SIZE
    BY DEF Place
  <1>3. now \in 1 .. FRAME_SIZE /\ Length(last) \in 1 .. FRAME_SIZE
    BY <1>1, <1>2, Lengths
  <1>4. rest > 0 => \A i \in 2 .. FRAME_SIZE - 1 : ~IsAt(startMarker, frames[last], i)
    <2>1. rest > 0 => last # 0
      BY <1>1, Lengths
    <2>2. rest > 0 => last \in DOMAIN pictures
      BY <1>1, <2>1 DEF TypeOK
    <2> QED
      BY <2>2 DEF FramesInv, IsSent
  <1>5. k \in DOMAIN pictures =>
          /\ now \in 4 .. FRAME_SIZE
          /\ IsAt(startMarker, frames[k], 1) /\ IsAt(endMarker, frames[k], now - 1)
          /\ \A i \in 2 .. FRAME_SIZE - 1 : ~IsAt(startMarker, frames[k], i)
          /\ \A i \in 1 .. now - 2 : ~IsAt(endMarker, frames[k], i)
    <2>1. k \in DOMAIN pictures => now = Len(pictures[k])
      <3>1. k \in DOMAIN pictures => k # 0
        BY DEF TypeOK
      <3> QED
        BY <1>2, <3>1, Lengths
    <2>2. k \in DOMAIN pictures => IsSent(k)
      BY DEF FramesInv
    <2> HIDE DEF now
    <2> QED
      BY <2>1, <2>2 DEF IsSent
  <1> HIDE DEF last, rest, size, now
  <1>6. Length(last) + rest = FRAME_SIZE /\ size = Len(frameBuffer)
    BY <1>3 DEF rest, size
  <1>7. size > rest => k = last + 1 /\ k \in DOMAIN pictures
    BY <1>1
  <1>8. /\ size > rest => now \in 4 .. FRAME_SIZE
        /\ size > rest =>
             /\ IsAt(startMarker, frames[last + 1], 1)
             /\ IsAt(endMarker, frames[last + 1], now - 1)
             /\ \A i \in 2 .. FRAME_SIZE - 1 : ~IsAt(startMarker, frames[last + 1], i)
             /\ \A i \in 1 .. now - 2 : ~IsAt(endMarker, frames[last + 1], i)
    BY <1>5, <1>7
  <1>9. /\ \A i \in 1 .. size : i <= rest => frameBuffer[i] = frames[last][Length(last) + i]
        /\ \A i \in 1 .. size : i > rest => frameBuffer[i] = frames[last + 1][i - rest]
    BY <1>1
  <1>10. /\ rest \in Nat /\ m \in Nat /\ now \in Nat /\ Length(last) \in Nat
         /\ Length(last) >= 1 /\ m <= FRAME_SIZE /\ size \in Nat
         /\ size <= rest \/ size = rest + m
    <2>1. rest \in Nat /\ (size <= rest \/ size = rest + m)
      BY <1>1
    <2> QED
      BY <1>1, <1>2, <1>3
  <1>a. Window(frameBuffer, size, frames[last], Length(last), rest, frames[last + 1], now, m)
    BY <1>4, <1>6, <1>8, <1>9, <1>10 DEF Window
  <1>11. /\ IndexOf(frameBuffer, startMarker, 1) \subseteq {rest + 1}
         /\ size <= rest => IndexOf(frameBuffer, startMarker, 1) = {}
         /\ size > rest /\ m < now => IndexOf(frameBuffer, endMarker, rest + 1) = {}
         /\ size > rest /\ m >= now =>
              /\ rest + 1 \in IndexOf(frameBuffer, startMarker, 1)
              /\ IndexOf(frameBuffer, endMarker, rest + 1) = {rest + now - 1}
    BY <1>a, Cut
  <1>12. k = last => size <= rest
    BY <1>1
  <1>13. k # last => size > rest
    BY <1>1, <1>2
  <1>14. k = last \/ m < now => ~HasPicture
    BY <1>11, <1>12, <1>13 DEF HasPicture
  <1> QED
    BY <1>11, <1>13, <1>14 DEF last, rest, now

\* What is in the viewer's buffer is not disturbed by a new frame, nor by any step
\* that leaves the viewer alone.
LEMMA BufferKept ==
  ASSUME TypeOK, TypeOK', FramesInv, FramesInv', NEW k, NEW m, Place(k, m),
         BufferInv(k, m), UNCHANGED <<frameBuffer, pushed>>,
         Len(pictures) <= Len(pictures'),
         \A p \in DOMAIN pictures : pictures'[p] = pictures[p] /\ frames'[p] = frames[p]
  PROVE  Place(k, m)' /\ BufferInv(k, m)'
  <1> DEFINE n == Len(pictures)
             last == Len(pushed)
             size == Len(frameBuffer)
  <1>1. /\ n \in Nat /\ Len(pictures') \in Nat /\ n <= Len(pictures')
        /\ DOMAIN pictures = 1 .. n /\ DOMAIN frameBuffer = 1 .. size
        /\ DOMAIN pushed = 1 .. last
    <2>1. Len(pictures') \in Nat
      BY DEF TypeOK
    <2> QED
      BY <2>1, Histories
  <1>2. Place(k, m)'
    BY <1>1 DEF Place
  <1>3. \A p \in 0 .. n : Length(p)' = Length(p)
    BY <1>1 DEF Length
  <1>4. /\ last \in 0 .. n /\ size \in Nat /\ Length(last) \in 1 .. FRAME_SIZE
        /\ last = 0 => Length(last) = FRAME_SIZE
        /\ k = last \/ k = last + 1
        /\ k = last => size <= FRAME_SIZE - Length(last)
    <2>1. last \in 0 .. n
      BY BufferBytes
    <2>2. size \in Nat /\ (k = last => size <= FRAME_SIZE - Length(last))
      BY BufferBytes
    <2> QED
      BY <2>1, <2>2, Lengths DEF BufferInv
  <1>5. ASSUME NEW i \in 1 .. size
        PROVE  Behind(last, i)' = Behind(last, i)
    <2>1. i <= FRAME_SIZE - Length(last) => last \in 1 .. n
      BY <1>4
    <2>2. i > FRAME_SIZE - Length(last) => last + 1 \in 1 .. n
      <3>1. i > FRAME_SIZE - Length(last) => ~(size <= FRAME_SIZE - Length(last))
        BY <1>4
      <3>2. k <= n
        BY <1>1 DEF Place
      <3> QED
        BY <1>1, <1>4, <3>1, <3>2
    <2>3. Length(last)' = Length(last) /\ last' = last
      BY <1>3, <1>4
    <2>4. i <= FRAME_SIZE - Length(last) => frames'[last] = frames[last]
      BY <1>1, <2>1
    <2>5. i > FRAME_SIZE - Length(last) => frames'[last + 1] = frames[last + 1]
      BY <1>1, <2>2
    <2> HIDE DEF last
    <2> QED
      BY <1>4, <2>3, <2>4, <2>5 DEF Behind
  <1>6. /\ \A p \in DOMAIN pushed : pushed[p] = pictures'[p]
        /\ last <= Len(pictures')
    <2>1. \A p \in DOMAIN pushed : p \in DOMAIN pictures
      <3> HIDE DEF n, last
      <3> QED
        BY <1>1, <1>4
    <2> QED
      BY <1>1, <1>4, <2>1 DEF BufferInv
  <1>7. Length(last)' = Length(last)
    BY <1>3, <1>4
  <1>8. \A i \in DOMAIN frameBuffer : frameBuffer[i] = Behind(last, i)'
    BY <1>1, <1>5 DEF BufferInv
  <1> QED
    BY <1>2, <1>6, <1>7, <1>8 DEF BufferInv

\* What a new frame appends to the histories.
LEMMA FrameAppended ==
  ASSUME TypeOK, FramesInv, NextFrame
  PROVE  /\ Len(pictures') = Len(pictures) + 1 /\ Len(pictures) \in Nat
         /\ \A p \in DOMAIN pictures : pictures'[p] = pictures[p] /\ frames'[p] = frames[p]
         /\ UNCHANGED <<net, frameBuffer, pushed, faultVars>>
         /\ NextSent = Len(pictures) + 1 /\ NextAt = 0
         /\ NextSent' = Len(pictures) + 1 /\ NextAt' = 0
  <1> PICK s \in 0 .. SLOTS - 1, picture \in Seq(Byte), slot \in Slot :
         /\ slots' = [slots EXCEPT ![s] = slot] /\ sending' = slot
         /\ pictures' = Append(pictures, picture) /\ frames' = Append(frames, slot)
    BY NewFrame
  <1>1. /\ pictures \in Seq(Seq(Byte)) /\ frames \in Seq(Slot)
        /\ Len(frames) = Len(pictures) /\ Len(pictures) \in Nat
    BY DEF TypeOK, FramesInv
  <1>2. Len(pictures') = Len(pictures) + 1
    BY <1>1
  <1>3. \A p \in DOMAIN pictures : pictures'[p] = pictures[p] /\ frames'[p] = frames[p]
    BY <1>1
  <1>4. slot # <<>>
    BY DEF Slot
  <1>5. UNCHANGED <<net, frameBuffer, pushed, faultVars>> /\ sending = <<>> /\ wBytes' = 0
    BY DEF NextFrame
  <1> QED
    BY <1>1, <1>2, <1>3, <1>4, <1>5 DEF NextSent, NextAt

\* A new frame is not sent yet.
LEMMA TransitOfFrame ==
  ASSUME TypeOK, TypeOK', FramesInv, FramesInv', NEW k, NEW m, Place(k, m),
         TransitInv(k, m), NextFrame
  PROVE  TransitInv(k, m)'
  <1> DEFINE n == Len(pictures)
  <1>1. /\ n \in Nat /\ DOMAIN pictures = 1 .. n /\ Len(pictures') = n + 1
        /\ DOMAIN pictures' = 1 .. n + 1
        /\ \A p \in 1 .. n : pictures'[p] = pictures[p] /\ frames'[p] = frames[p]
        /\ net' = net /\ NextSent = n + 1 /\ NextAt = 0 /\ NextSent' = n + 1 /\ NextAt' = 0
    <2>1. DOMAIN pictures = 1 .. n /\ DOMAIN pictures' = 1 .. Len(pictures')
      BY DEF TypeOK
    <2>2. /\ Len(pictures') = n + 1 /\ n \in Nat
          /\ \A p \in DOMAIN pictures : pictures'[p] = pictures[p] /\ frames'[p] = frames[p]
          /\ net' = net /\ NextSent = n + 1 /\ NextAt = 0
          /\ NextSent' = n + 1 /\ NextAt' = 0
      BY FrameAppended
    <2> HIDE DEF n
    <2> QED
      BY <2>1, <2>2
  <1> HIDE DEF n
  <1>2. \A i \in DOMAIN net : net[i].frame \in 1 .. n
    <2> TAKE i \in DOMAIN net
    <2>1. net[i] \in Datagram
      BY SMTT(30) DEF TypeOK
    <2>2. net[i].frame \in Nat \ {0}
      BY <2>1 DEF Datagram
    <2>3. net[i].frame <= n
      BY DEF TransitInv, n
    <2> QED
      BY <1>1, <2>2, <2>3
  <1>3. /\ IF net' = <<>>
             THEN Follows(k, m, NextSent', NextAt')
             ELSE /\ Follows(k, m, net'[1].frame, net'[1].at)
                  /\ Follows(net'[Len(net')].frame, End(net'[Len(net')]), NextSent', NextAt')
        /\ \A i \in 1 .. Len(net') - 1 :
             Follows(net'[i].frame, End(net'[i]), net'[i + 1].frame, net'[i + 1].at)
        /\ \A i, j \in DOMAIN net' :
             i < j => NotAfter(net'[i].frame, End(net'[i]), net'[j].frame, net'[j].at)
        /\ NotAfter(k, m, NextSent', NextAt')
    BY <1>1 DEF TransitInv
  <1>4. \A i \in DOMAIN net' :
          /\ NotAfter(k, m, net'[i].frame, net'[i].at)
          /\ NotAfter(net'[i].frame, End(net'[i]), NextSent', NextAt')
          /\ net'[i].frame <= n + 1
          /\ \A j \in DOMAIN net'[i].data :
               net'[i].data[j] = frames'[net'[i].frame][net'[i].at + j]
    <2> TAKE i \in DOMAIN net'
    <2>1. net[i].frame \in 1 .. n /\ frames'[net[i].frame] = frames[net[i].frame]
      BY <1>1, <1>2
    <2>2. net[i].frame <= n + 1
      BY <1>1, <2>1
    <2> QED
      BY <1>1, <2>1, <2>2 DEF TransitInv
  <1>5. ASSUME NEW p \in DOMAIN pictures',
               NotAfter(k, m, p, Length(p)' - 1), NotAfter(p, Length(p)', NextSent', NextAt')
        PROVE  \E i \in DOMAIN net' :
                 net'[i].frame = p /\ net'[i].at < Length(p)' /\ Length(p)' <= End(net'[i])
    <2>1. p \in 1 .. n + 1
      BY <1>1
    <2>2. Length(p)' \in Nat \ {0}
      <3>1. IsSent(p)' /\ p # 0 /\ DOMAIN pictures' = 1 .. Len(pictures')
        BY <1>1 DEF FramesInv
      <3> QED
        BY <3>1 DEF IsSent, Length
    <2>3. p # n + 1
      BY <1>1, <1>5, <2>2 DEF NotAfter
    <2>4. p \in DOMAIN pictures /\ Length(p)' = Length(p)
      BY <1>1, <2>1, <2>3 DEF Length
    <2> QED
      BY <1>1, <1>5, <2>4 DEF TransitInv
  <1> QED
    BY <1>1, <1>3, <1>4, <1>5 DEF TransitInv, End

\* The next datagram, and where image_save is behind it.
LEMMA DatagramSent ==
  ASSUME TypeOK, FramesInv, SendTo
  PROVE  \E d \in Datagram :
           /\ net' = Append(net, d)
           /\ d.frame = NextSent /\ d.at = NextAt /\ d.frame = Len(pictures)
           /\ \A j \in DOMAIN d.data : d.data[j] = frames[d.frame][d.at + j]
           /\ Follows(d.frame, End(d), NextSent', NextAt')
  <1>1. /\ sending # <<>> /\ sending \in Slot /\ wBytes \in 0 .. FRAME_SIZE - 1
        /\ Len(pictures) \in 1 .. MAX_FRAMES /\ sending = frames[Len(pictures)]
    BY DEF TypeOK, SendTo, FramesInv
  <1>2. /\ ChunkEnd \in wBytes + 1 .. FRAME_SIZE /\ ChunkEnd - wBytes <= CHUNK
    BY <1>1 DEF ChunkEnd
  <1> DEFINE bytes == SubSeq(sending, wBytes + 1, ChunkEnd)
             d == [frame |-> Len(pictures), at |-> wBytes, data |-> bytes]
  <1>3. /\ bytes \in Seq(Byte) /\ Len(bytes) = ChunkEnd - wBytes
        /\ \A j \in 1 .. ChunkEnd - wBytes : bytes[j] = sending[wBytes + j]
    <2>1. sending \in Seq(Byte) /\ Len(sending) = FRAME_SIZE
      BY <1>1 DEF Slot
    <2>2. PICK w \in Nat, e \in Nat : w = wBytes + 1 /\ e = ChunkEnd
      BY <1>1, <1>2
    <2>a. w \in 1 .. Len(sending) + 1 /\ e \in w - 1 .. Len(sending)
      BY <1>1, <1>2, <2>1, <2>2
    <2>b. /\ SubSeq(sending, w, e) \in Seq(Byte) /\ Len(SubSeq(sending, w, e)) = e - w + 1
          /\ \A j \in 1 .. e - w + 1 : SubSeq(sending, w, e)[j] = sending[w + j - 1]
      BY <2>1, <2>a, Part
    <2>3. /\ bytes \in Seq(Byte) /\ Len(bytes) = ChunkEnd - (wBytes + 1) + 1
          /\ \A j \in 1 .. ChunkEnd - (wBytes + 1) + 1 : bytes[j] = sending[(wBytes + 1) + j - 1]
      BY <2>2, <2>b, Zenon
    <2> HIDE DEF bytes
    <2>4. ChunkEnd - (wBytes + 1) + 1 = ChunkEnd - wBytes
      BY <1>1, <1>2
    <2>5. \A j \in 1 .. ChunkEnd - wBytes : (wBytes + 1) + j - 1 = wBytes + j
      BY <1>1, <1>2
    <2> QED
      BY <2>3, <2>4, <2>5
  <1> HIDE DEF bytes
  <1>4. d \in Datagram
    BY <1>1, <1>2, <1>3 DEF Datagram
  <1>5. net' = Append(net, d)
    BY DEF SendTo, bytes
  <1>6. /\ d.frame = NextSent /\ d.at = NextAt /\ d.frame = Len(pictures)
        /\ \A j \in DOMAIN d.data : d.data[j] = frames[d.frame][d.at + j]
        /\ End(d) = ChunkEnd
    <2>1. DOMAIN bytes = 1 .. ChunkEnd - wBytes
      BY <1>3
    <2>2. wBytes + (ChunkEnd - wBytes) = ChunkEnd
      BY <1>1, <1>2
    <2> QED
      BY <1>1, <1>3, <2>1, <2>2 DEF NextSent, NextAt, End
  <1>7. Follows(d.frame, ChunkEnd, NextSent', NextAt')
    <2>1. /\ wBytes' = ChunkEnd /\ pictures' = pictures
          /\ sending' = IF ChunkEnd < FRAME_SIZE THEN sending ELSE <<>>
      BY DEF SendTo
    <2>2. CASE ChunkEnd < FRAME_SIZE
      BY <1>1, <2>1, <2>2 DEF NextSent, NextAt, Follows
    <2>3. CASE ChunkEnd = FRAME_SIZE
      BY <1>1, <2>1, <2>3 DEF NextSent, NextAt, Follows
    <2> QED
      BY <1>2, <2>2, <2>3
  <1> HIDE DEF d
  <1> QED
    BY <1>4, <1>5, <1>6, <1>7

\* Where the last byte of a picture is sent.
LEMMA CoverSent ==
  ASSUME NEW p \in Nat, NEW length \in Nat, NEW frame \in Nat, NEW at \in Nat,
         NEW end \in Nat, end <= FRAME_SIZE, NEW next \in Nat, NEW nextAt \in Nat,
         length <= FRAME_SIZE, Follows(frame, end, next, nextAt),
         NotAfter(p, length, next, nextAt), ~NotAfter(p, length, frame, at), length > 0
  PROVE  frame = p /\ at < length /\ length <= end
  BY DEF NotAfter, Follows

\* A datagram continues the stream.
LEMMA TransitOfDatagram ==
  ASSUME TypeOK, TypeOK', FramesInv, FramesInv', NEW k, NEW m, Place(k, m),
         TransitInv(k, m), SendTo
  PROVE  TransitInv(k, m)'
  <1> PICK d \in Datagram :
        /\ net' = Append(net, d)
        /\ d.frame = NextSent /\ d.at = NextAt /\ d.frame = Len(pictures)
        /\ \A j \in DOMAIN d.data : d.data[j] = frames[d.frame][d.at + j]
        /\ Follows(d.frame, End(d), NextSent', NextAt')
    BY DatagramSent
  <1> PICK last \in Nat : last = Len(net)
    BY Numbers
  <1>1. /\ NextSent \in Nat /\ NextAt \in Nat /\ NextSent' \in Nat /\ NextAt' \in Nat
        /\ k \in Nat /\ m \in Nat /\ m <= FRAME_SIZE
        /\ d.frame \in Nat /\ d.at \in Nat /\ End(d) \in Nat /\ End(d) <= FRAME_SIZE
        /\ d.at < End(d)
    <2>1. NextSent' \in Nat /\ NextAt' \in Nat
      <3>1. wBytes' \in Nat /\ Len(pictures') \in Nat
        BY DEF TypeOK
      <3> QED
        BY <3>1 DEF NextSent, NextAt
    <2>2. k \in Nat /\ m \in Nat /\ m <= FRAME_SIZE
      BY DEF Place, TypeOK
    <2> QED
      BY <2>1, <2>2, Numbers
  <1>2. /\ Len(net') = last + 1 /\ net'[last + 1] = d
        /\ \A i \in 1 .. last : net'[i] = net[i]
        /\ DOMAIN net' = 1 .. last + 1 /\ DOMAIN net = 1 .. last
        /\ UNCHANGED <<pictures, frames>>
    <2>1. net \in Seq(Datagram)
      BY DEF TypeOK
    <2>2. UNCHANGED <<pictures, frames>>
      BY DEF SendTo
    <2> QED
      BY <2>1, <2>2
  <1>3. \A i \in 1 .. last : /\ net[i].frame \in Nat /\ net[i].at \in Nat
                             /\ End(net[i]) \in Nat /\ End(net[i]) <= FRAME_SIZE
    BY Numbers
  <1>4. NotAfter(NextSent, NextAt, NextSent', NextAt')
    BY <1>1 DEF NotAfter, Follows
  <1>5. /\ net' # <<>>
        /\ Follows(k, m, net'[1].frame, net'[1].at)
        /\ Follows(net'[Len(net')].frame, End(net'[Len(net')]), NextSent', NextAt')
    <2>1. net' # <<>>
      BY <1>2
    <2>2. CASE last = 0
      <3>1. net = <<>> /\ net'[1] = d
        BY <1>2, <2>2 DEF TypeOK
      <3> QED
        BY <1>2, <2>1, <3>1 DEF TransitInv
    <2>3. CASE last # 0
      <3>1. net # <<>> /\ net'[1] = net[1]
        BY <1>2, <2>3 DEF TypeOK
      <3> QED
        BY <1>2, <2>1, <3>1 DEF TransitInv
    <2> QED
      BY <2>2, <2>3
  <1>6. ASSUME NEW i \in 1 .. Len(net') - 1
        PROVE  Follows(net'[i].frame, End(net'[i]), net'[i + 1].frame, net'[i + 1].at)
    <2>1. i \in 1 .. last
      BY <1>2
    <2>2. CASE i = last
      <3>1. net # <<>> /\ net'[i] = net[Len(net)] /\ net'[i + 1] = d
        BY <1>2, <2>1, <2>2 DEF TypeOK
      <3> QED
        BY <3>1 DEF TransitInv
    <2>3. CASE i # last
      <3>1. i \in 1 .. Len(net) - 1 /\ net'[i] = net[i] /\ net'[i + 1] = net[i + 1]
        BY <1>2, <2>1, <2>3
      <3> QED
        BY <3>1 DEF TransitInv
    <2> QED
      BY <2>2, <2>3
  <1>7. ASSUME NEW i \in DOMAIN net', NEW j \in DOMAIN net', i < j
        PROVE  NotAfter(net'[i].frame, End(net'[i]), net'[j].frame, net'[j].at)
    <2>1. i \in 1 .. last /\ net'[i] = net[i]
      BY <1>2, <1>7
    <2>2. CASE j = last + 1
      BY <1>2, <2>1, <2>2 DEF TransitInv
    <2>3. CASE j # last + 1
      <3>1. j \in 1 .. last /\ net'[j] = net[j]
        BY <1>2, <2>3
      <3> QED
        BY <1>2, <1>7, <2>1, <3>1 DEF TransitInv
    <2> QED
      BY <2>2, <2>3
  <1>8. ASSUME NEW i \in DOMAIN net'
        PROVE  /\ NotAfter(k, m, net'[i].frame, net'[i].at)
               /\ NotAfter(net'[i].frame, End(net'[i]), NextSent', NextAt')
               /\ net'[i].frame <= Len(pictures')
               /\ \A j \in DOMAIN net'[i].data :
                    net'[i].data[j] = frames'[net'[i].frame][net'[i].at + j]
    <2>1. CASE i = last + 1
      <3>1. net'[i] = d
        BY <1>2, <2>1
      <3>2. NotAfter(k, m, d.frame, d.at)
        BY DEF TransitInv
      <3>3. NotAfter(d.frame, End(d), NextSent', NextAt')
        BY <1>1 DEF NotAfter, Follows
      <3>4. d.frame <= Len(pictures')
        BY <1>1, <1>2
      <3> QED
        BY <1>2, <3>1, <3>2, <3>3, <3>4
    <2>2. CASE i # last + 1
      <3>1. i \in 1 .. last /\ net'[i] = net[i] /\ i \in DOMAIN net
        BY <1>2, <2>2
      <3>2. /\ NotAfter(k, m, net[i].frame, net[i].at)
            /\ NotAfter(net[i].frame, End(net[i]), NextSent, NextAt)
            /\ net[i].frame <= Len(pictures)
            /\ \A j \in DOMAIN net[i].data : net[i].data[j] = frames[net[i].frame][net[i].at + j]
        BY <3>1 DEF TransitInv
      <3>3. NotAfter(net[i].frame, End(net[i]), NextSent', NextAt')
        BY <1>1, <1>3, <1>4, <3>1, <3>2, SMTT(30) DEF NotAfter
      <3> QED
        BY <1>2, <3>1, <3>2, <3>3
    <2> QED
      BY <2>1, <2>2
  <1>9. NotAfter(k, m, NextSent', NextAt')
    <2>1. NotAfter(k, m, NextSent, NextAt)
      BY DEF TransitInv
    <2> QED
      BY <1>1, <1>4, <2>1 DEF NotAfter
  <1>10. ASSUME NEW p \in DOMAIN pictures',
                NotAfter(k, m, p, Length(p)' - 1), NotAfter(p, Length(p)', NextSent', NextAt')
         PROVE  \E i \in DOMAIN net' :
                  net'[i].frame = p /\ net'[i].at < Length(p)' /\ Length(p)' <= End(net'[i])
    <2>1. p \in DOMAIN pictures /\ p \in Nat \ {0} /\ p \in 0 .. Len(pictures)
      <3>1. pictures' = pictures /\ DOMAIN pictures = 1 .. Len(pictures) /\ Len(pictures) \in Nat
        BY <1>2, Histories
      <3> QED
        BY <3>1
    <2>a. Length(p)' = Length(p)
      BY <1>2 DEF Length
    <2>2. Length(p) \in 1 .. FRAME_SIZE
      BY <2>1, Lengths
    <2>3. CASE NotAfter(p, Length(p), NextSent, NextAt)
      <3>1. PICK i \in DOMAIN net :
              net[i].frame = p /\ net[i].at < Length(p) /\ Length(p) <= End(net[i])
        BY <1>10, <2>1, <2>a, <2>3 DEF TransitInv
      <3> QED
        BY <1>2, <2>a, <3>1
    <2>4. CASE ~NotAfter(p, Length(p), NextSent, NextAt)
      <3>1. d.frame = p /\ d.at < Length(p) /\ Length(p) <= End(d)
        <4>1. ~NotAfter(p, Length(p), d.frame, d.at) /\ NotAfter(p, Length(p), NextSent', NextAt')
          BY <1>10, <2>a, <2>4
        <4>2. Follows(d.frame, End(d), NextSent', NextAt')
          OBVIOUS
        <4>3. /\ p \in Nat /\ Length(p) \in Nat /\ Length(p) <= FRAME_SIZE /\ Length(p) > 0
          BY <2>1, <2>2
        <4> QED
          BY <1>1, <4>1, <4>2, <4>3, CoverSent, Zenon
      <3>2. last + 1 \in DOMAIN net' /\ net'[last + 1] = d
        BY <1>2
      <3> QED
        BY <2>a, <3>1, <3>2
    <2> QED
      BY <2>3, <2>4
  <1> QED
    BY <1>5, <1>6, <1>7, <1>8, <1>9, <1>10 DEF TransitInv, End

\* A datagram that has arrived is no longer in transit.
LEMMA Arrival ==
  ASSUME TypeOK, Message
  PROVE  /\ net # <<>> /\ net[1] \in Datagram /\ Len(net) \in Nat \ {0}
         /\ net' \in Seq(Datagram) /\ Len(net') = Len(net) - 1
         /\ DOMAIN net = 1 .. Len(net) /\ DOMAIN net' = 1 .. Len(net')
         /\ \A i \in 1 .. Len(net') : net'[i] = net[i + 1]
         /\ frameBuffer' = frameBuffer \o net[1].data
         /\ UNCHANGED <<pictures, frames, pushed, sending, wBytes>>
         /\ NextSent' = NextSent /\ NextAt' = NextAt
  <1>1. net \in Seq(Datagram) /\ net # <<>>
    BY DEF TypeOK, Message
  <1>2. net' = Tail(net) /\ frameBuffer' = frameBuffer \o Head(net).data
        /\ UNCHANGED <<pictures, frames, pushed, sending, wBytes>>
    BY DEF Message, senderVars, Joined
  <1>3. NextSent' = NextSent /\ NextAt' = NextAt
    BY <1>2 DEF NextSent, NextAt
  <1> QED
    BY <1>1, <1>2, <1>3

\* The first datagram in transit becomes the last that has arrived.
LEMMA TransitOfMessage ==
  ASSUME TypeOK, TypeOK', FramesInv, NEW k, NEW m, Place(k, m),
         TransitInv(k, m), Message, NEW d, d = net[1]
  PROVE  TransitInv(d.frame, End(d))' /\ Place(d.frame, End(d))'
  <1> PICK last \in Nat : last + 1 = Len(net)
    <2>1. Len(net) \in Nat \ {0}
      BY Arrival
    <2> QED
      BY <2>1
  <1>1. /\ NextSent' = NextSent /\ NextAt' = NextAt /\ NextSent \in Nat /\ NextAt \in Nat
        /\ k \in Nat /\ m \in Nat /\ m <= FRAME_SIZE
        /\ d.frame \in Nat \ {0} /\ d.at \in Nat /\ End(d) \in 1 .. FRAME_SIZE
        /\ d.at < End(d)
    <2>1. k \in Nat /\ m \in Nat /\ m <= FRAME_SIZE
      BY DEF Place, TypeOK
    <2>2. d \in Datagram /\ NextSent' = NextSent /\ NextAt' = NextAt
      BY Arrival
    <2> QED
      BY <2>1, <2>2, Numbers
  <1>2. /\ Len(net') = last /\ DOMAIN net' = 1 .. last /\ DOMAIN net = 1 .. last + 1
        /\ \A i \in 1 .. last : net'[i] = net[i + 1]
        /\ UNCHANGED <<pictures, frames>>
    <2>1. Len(net') = Len(net) - 1 /\ Len(net) = last + 1
      BY Arrival
    <2>2. Len(net') = last
      BY <2>1
    <2> QED
      BY <2>2, Arrival
  <1>3. \A i \in 1 .. last : i \in DOMAIN net /\ i + 1 \in DOMAIN net /\ 1 < i + 1
    BY <1>2
  <1>4. Place(d.frame, End(d))'
    <2>1. 1 \in DOMAIN net /\ Len(pictures) \in Nat
      BY <1>2 DEF TypeOK
    <2>2. d.frame <= Len(pictures)
      BY <2>1 DEF TransitInv
    <2> QED
      BY <1>1, <1>2, <2>1, <2>2 DEF Place, End
  <1>5. IF net' = <<>>
          THEN Follows(d.frame, End(d), NextSent', NextAt')
          ELSE /\ Follows(d.frame, End(d), net'[1].frame, net'[1].at)
               /\ Follows(net'[Len(net')].frame, End(net'[Len(net')]), NextSent', NextAt')
    <2>1. net # <<>>
      BY Arrival
    <2>2. CASE last = 0
      <3>1. net' = <<>>
        BY <1>2, <2>2, Arrival
      <3>2. Len(net) = 1
        BY <2>2
      <3> QED
        BY <1>1, <2>1, <3>1, <3>2 DEF TransitInv
    <2>3. CASE last # 0
      <3>1. /\ net' # <<>> /\ net'[1] = net[2] /\ net'[Len(net')] = net[Len(net)]
            /\ 1 \in 1 .. Len(net) - 1
        BY <1>2, <2>3
      <3>2. Follows(net[1].frame, End(net[1]), net[2].frame, net[2].at)
        BY <3>1 DEF TransitInv
      <3> QED
        BY <1>1, <2>1, <3>1, <3>2 DEF TransitInv
    <2> QED
      BY <2>2, <2>3
  <1>6. ASSUME NEW i \in 1 .. Len(net') - 1
        PROVE  Follows(net'[i].frame, End(net'[i]), net'[i + 1].frame, net'[i + 1].at)
    <2>1. /\ i + 1 \in 1 .. Len(net) - 1 /\ net'[i] = net[i + 1]
          /\ net'[i + 1] = net[(i + 1) + 1]
      BY <1>2
    <2> QED
      BY <2>1 DEF TransitInv
  <1>7. ASSUME NEW i \in DOMAIN net', NEW j \in DOMAIN net', i < j
        PROVE  NotAfter(net'[i].frame, End(net'[i]), net'[j].frame, net'[j].at)
    <2>1. /\ i + 1 \in DOMAIN net /\ j + 1 \in DOMAIN net /\ i + 1 < j + 1
          /\ net'[i] = net[i + 1] /\ net'[j] = net[j + 1]
      BY <1>2, <1>7
    <2> QED
      BY <2>1 DEF TransitInv
  <1>8. ASSUME NEW i \in DOMAIN net'
        PROVE  /\ NotAfter(d.frame, End(d), net'[i].frame, net'[i].at)
               /\ NotAfter(net'[i].frame, End(net'[i]), NextSent', NextAt')
               /\ net'[i].frame <= Len(pictures')
               /\ \A j \in DOMAIN net'[i].data :
                    net'[i].data[j] = frames'[net'[i].frame][net'[i].at + j]
    <2>1. net'[i] = net[i + 1] /\ i + 1 \in DOMAIN net /\ 1 \in DOMAIN net /\ 1 < i + 1
      BY <1>2
    <2>2. NotAfter(net[1].frame, End(net[1]), net[i + 1].frame, net[i + 1].at)
      BY <2>1 DEF TransitInv
    <2>3. /\ NotAfter(net[i + 1].frame, End(net[i + 1]), NextSent, NextAt)
          /\ net[i + 1].frame <= Len(pictures)
          /\ \A j \in DOMAIN net[i + 1].data :
               net[i + 1].data[j] = frames[net[i + 1].frame][net[i + 1].at + j]
      BY <2>1 DEF TransitInv
    <2> QED
      BY <1>1, <1>2, <2>1, <2>2, <2>3
  <1>9. NotAfter(d.frame, End(d), NextSent', NextAt')
    <2>1. 1 \in DOMAIN net
      BY <1>2
    <2> QED
      BY <1>1, <2>1 DEF TransitInv
  <1>10. ASSUME NEW p \in DOMAIN pictures',
                NotAfter(d.frame, End(d), p, Length(p)' - 1),
                NotAfter(p, Length(p)', NextSent', NextAt')
         PROVE  \E i \in DOMAIN net' :
                  net'[i].frame = p /\ net'[i].at < Length(p)' /\ Length(p)' <= End(net'[i])
    <2>1. p \in DOMAIN pictures /\ p \in Nat \ {0} /\ p \in 0 .. Len(pictures)
      <3>1. pictures' = pictures /\ DOMAIN pictures = 1 .. Len(pictures) /\ Len(pictures) \in Nat
        BY <1>2, Histories
      <3> QED
        BY <3>1
    <2>2. Length(p)' = Length(p)
      BY <1>2 DEF Length
    <2>3. Length(p) \in 1 .. FRAME_SIZE
      BY <2>1, Lengths
    <2>4. NotAfter(k, m, p, Length(p) - 1)
      <3>1. 1 \in DOMAIN net
        BY <1>2
      <3>2. NotAfter(k, m, d.frame, d.at)
        BY <3>1 DEF TransitInv
      <3>3. NotAfter(d.frame, End(d), p, Length(p) - 1)
        BY <1>10, <2>2
      <3> QED
        BY <1>1, <2>1, <2>3, <3>2, <3>3 DEF NotAfter
    <2>5. NotAfter(p, Length(p), NextSent, NextAt)
      BY <1>1, <1>10, <2>2
    <2> PICK i \in DOMAIN net :
          net[i].frame = p /\ net[i].at < Length(p) /\ Length(p) <= End(net[i])
      BY <2>1, <2>4, <2>5 DEF TransitInv
    <2>6. i # 1
      <3> SUFFICES ASSUME i = 1
                   PROVE  FALSE
        OBVIOUS
      <3>1. p = d.frame /\ Length(p) <= End(d) /\ NotAfter(d.frame, End(d), p, Length(p) - 1)
        BY <1>10, <2>2
      <3> QED
        BY <1>1, <2>3, <3>1 DEF NotAfter
    <2>7. i - 1 \in DOMAIN net' /\ net'[i - 1] = net[i]
      BY <1>2, <2>6
    <2> QED
      BY <2>2, <2>7
  <1> QED
    BY <1>4, <1>5, <1>6, <1>7, <1>8, <1>9, <1>10 DEF TransitInv, End

\* What is joined to the viewer's buffer is what comes behind it in the stream:
\* the rest of the picture or of the slot, or the beginning of the next one.
LEMMA BufferOfMessage ==
  ASSUME TypeOK, TypeOK', FramesInv, NEW k, NEW m, Place(k, m), TransitInv(k, m),
         BufferInv(k, m), Message, NEW d, d = net[1]
  PROVE  BufferInv(d.frame, End(d))'
  <1>1. /\ UNCHANGED <<pictures, frames, pushed>> /\ d \in Datagram
        /\ frameBuffer' = frameBuffer \o d.data
    BY Arrival
  <1> PICK last \in Nat : last = Len(pushed)
    BY DEF TypeOK
  <1> PICK size \in Nat : size = Len(frameBuffer)
    BY DEF TypeOK
  <1>2. last \in 0 .. Len(pictures)
    BY BufferBytes
  <1>l. PICK length \in 1 .. FRAME_SIZE : length = Length(last)
    BY <1>2, Lengths
  <1>c. PICK count \in Nat : count = Len(d.data)
    BY <1>1, Numbers
  <1>3. /\ d.frame \in Nat \ {0} /\ d.at \in Nat /\ count > 0 /\ End(d) = d.at + count
        /\ d.at + count <= FRAME_SIZE
    BY <1>1, <1>c, Numbers
  <1>4. /\ k \in Nat /\ m \in 1 .. FRAME_SIZE /\ (k = last \/ k = last + 1)
        /\ k = last => length <= m /\ size = m - length
        /\ k = last + 1 => size = FRAME_SIZE - length + m
    <2>1. /\ \/ /\ k = last /\ length <= m /\ size = m - length
             \/ /\ k = last + 1 /\ size = FRAME_SIZE - length + m
      BY <1>l, BufferBytes
    <2>2. k \in Nat /\ m \in 1 .. FRAME_SIZE
      BY DEF Place, TypeOK
    <2> QED
      BY <2>1, <2>2
  <1>5. Follows(k, m, d.frame, d.at)
    BY Arrival DEF TransitInv
  <1>6. m = FRAME_SIZE => k = last
    <2>1. ~HasPicture
      BY DEF Message
    <2>2. k # last => ~(m >= Length(k))
      <3>1. k # last /\ m >= Length(k) => HasPicture
        BY Markers DEF HasPicture
      <3> QED
        BY <2>1, <3>1
    <2>3. Length(k) \in 1 .. FRAME_SIZE
      BY Lengths DEF Place
    <2> QED
      BY <2>2, <2>3
  <1>7. /\ Len(frameBuffer') = size + count
        /\ DOMAIN frameBuffer' = 1 .. size + count
        /\ \A i \in 1 .. size : frameBuffer'[i] = frameBuffer[i]
        /\ \A i \in size + 1 .. size + count : frameBuffer'[i] = d.data[i - size]
    <2>1. frameBuffer \in Seq(Byte) /\ d.data \in Seq(Byte)
      BY <1>1, Numbers DEF TypeOK
    <2> QED
      BY <1>1, <1>c, <2>1
  <1>8. \A j \in 1 .. count : d.data[j] = frames[d.frame][d.at + j]
    <2>1. 1 \in DOMAIN net /\ DOMAIN d.data = 1 .. count
      BY <1>1, <1>c, Arrival, Numbers
    <2> QED
      BY <2>1 DEF TransitInv
  <1>9. \A i \in 1 .. size : frameBuffer[i] = Behind(last, i)
    <2>1. DOMAIN frameBuffer = 1 .. size
      BY DEF TypeOK
    <2> QED
      BY <2>1 DEF BufferInv
  <1>10. \A i : Behind(last, i) = IF i <= FRAME_SIZE - length
                                    THEN frames[last][length + i]
                                    ELSE frames[last + 1][i - (FRAME_SIZE - length)]
    BY <1>l DEF Behind
  <1>11. /\ d.frame = last \/ d.frame = last + 1
         /\ d.frame = last => length <= d.at + count
         /\ size + count = d.at + count - length + (IF d.frame = last THEN 0 ELSE FRAME_SIZE)
         /\ \A i \in size + 1 .. size + count : d.data[i - size] = Behind(last, i)
    <2>1. CASE m = FRAME_SIZE
      <3>1. k = last /\ d.frame = last + 1 /\ d.at = 0 /\ size = FRAME_SIZE - length
        BY <1>4, <1>5, <1>6, <2>1 DEF Follows
      <3>2. ASSUME NEW i \in size + 1 .. size + count
            PROVE  d.data[i - size] = Behind(last, i)
        <4>1. /\ ~(i <= FRAME_SIZE - length) /\ i - size \in 1 .. count
              /\ 0 + (i - size) = i - (FRAME_SIZE - length)
          BY <3>1
        <4>2. d.data[i - size] = frames[d.frame][d.at + (i - size)]
          BY <1>8, <4>1
        <4> QED
          BY <1>10, <3>1, <4>1, <4>2
      <3>3. size + count = 0 + count - length + FRAME_SIZE
        BY <3>1
      <3> QED
        BY <3>1, <3>2, <3>3
    <2>2. CASE m # FRAME_SIZE /\ k = last
      <3>1. d.frame = last /\ d.at = m /\ size = m - length /\ length <= m
        BY <1>4, <1>5, <2>2 DEF Follows
      <3>2. ASSUME NEW i \in size + 1 .. size + count
            PROVE  d.data[i - size] = Behind(last, i)
        <4>0. m \in Nat /\ size = m - length /\ m + count <= FRAME_SIZE
          BY <1>3, <1>4, <3>1
        <4>1. /\ i <= FRAME_SIZE - length /\ i - size \in 1 .. count
              /\ m + (i - size) = length + i
          BY <4>0
        <4>2. d.data[i - size] = frames[d.frame][d.at + (i - size)]
          BY <1>8, <4>1
        <4> QED
          BY <1>10, <3>1, <4>1, <4>2
      <3>3. size + count = m + count - length + 0 /\ length <= m + count
        BY <1>4, <3>1, SMTT(30)
      <3> QED
        BY <3>1, <3>2, <3>3
    <2>3. CASE m # FRAME_SIZE /\ k = last + 1
      <3>1. d.frame = last + 1 /\ d.at = m /\ size = FRAME_SIZE - length + m
        BY <1>4, <1>5, <2>3 DEF Follows
      <3>2. ASSUME NEW i \in size + 1 .. size + count
            PROVE  d.data[i - size] = Behind(last, i)
        <4>0. m \in Nat /\ size = FRAME_SIZE - length + m
          BY <1>4, <3>1
        <4>1. /\ ~(i <= FRAME_SIZE - length) /\ i - size \in 1 .. count
              /\ m + (i - size) = i - (FRAME_SIZE - length)
          BY <4>0
        <4>2. d.data[i - size] = frames[d.frame][d.at + (i - size)]
          BY <1>8, <4>1
        <4> QED
          BY <1>10, <3>1, <4>1, <4>2
      <3>3. size + count = m + count - length + FRAME_SIZE
        BY <1>4, <3>1
      <3> QED
        BY <3>1, <3>2, <3>3
    <2> QED
      BY <1>4, <2>1, <2>2, <2>3
  <1>12. \A i \in 1 .. size + count : frameBuffer'[i] = Behind(last, i)
    <2>1. \A i \in 1 .. size + count : i \in 1 .. size \/ i \in size + 1 .. size + count
      OBVIOUS
    <2> QED
      BY <1>7, <1>9, <1>11, <2>1
  <1>13. Length(last)' = Length(last) /\ \A i : Behind(last, i)' = Behind(last, i)
    BY <1>1 DEF Length, Behind
  <1>14. /\ \A p \in DOMAIN pushed' : pushed'[p] = pictures'[p]
         /\ last <= Len(pictures') /\ last = Len(pushed')
    BY <1>1 DEF BufferInv
  <1>15. /\ Len(frameBuffer') = End(d) - Length(last)'
                                  + (IF d.frame = last THEN 0 ELSE FRAME_SIZE)
         /\ d.frame = last => Length(last)' <= End(d)
    BY <1>l, <1>3, <1>7, <1>11, <1>13
  <1>16. \A i \in DOMAIN frameBuffer' : frameBuffer'[i] = Behind(last, i)'
    BY <1>7, <1>12, <1>13
  <1>17. End(d)' = End(d)
    BY DEF End
  <1> QED
    BY <1>11, <1>14, <1>15, <1>16, <1>17 DEF BufferInv

\* What a round of the loop cuts out of the viewer's buffer is the next picture,
\* and what it keeps is behind that one.
LEMMA BufferOfPush ==
  ASSUME TypeOK, TypeOK', FramesInv, NEW k, NEW m, Place(k, m), BufferInv(k, m), Push
  PROVE  BufferInv(k, m)'
  <1>s. PICK start \in IndexOf(frameBuffer, startMarker, 1) :
          \E end \in IndexOf(frameBuffer, endMarker, start) :
            /\ Deliver(SubSeq(frameBuffer, start, end + Len(endMarker) - 1))
            /\ frameBuffer' = Rest(frameBuffer, start, end)
    BY DEF Push
  <1>e. PICK end \in IndexOf(frameBuffer, endMarker, start) :
          /\ Deliver(SubSeq(frameBuffer, start, end + Len(endMarker) - 1))
          /\ frameBuffer' = Rest(frameBuffer, start, end)
    BY <1>s
  <1>p. PICK last \in Nat : last = Len(pushed)
    BY DEF TypeOK
  <1>z. PICK size \in Nat : size = Len(frameBuffer)
    BY DEF TypeOK
  <1>1. last \in 0 .. Len(pictures) /\ k \in 0 .. Len(pictures) /\ m \in 1 .. FRAME_SIZE
    BY <1>p, BufferBytes DEF Place
  <1>l. PICK length \in 1 .. FRAME_SIZE : length = Length(last)
    BY <1>1, Lengths
  <1>n. PICK now \in 1 .. FRAME_SIZE : now = Length(k)
    BY <1>1, Lengths
  <1>r. PICK rest \in Nat : rest = FRAME_SIZE - length
    OBVIOUS
  <1>2. k # last /\ m >= now
    <2>1. HasPicture
      BY <1>s, <1>e DEF HasPicture
    <2>2. ~(k = last \/ m < now)
      BY <1>p, <1>n, <2>1, Markers
    <2> QED
      BY <1>1, <2>2
  <1>3. /\ k = last + 1 /\ k \in DOMAIN pictures /\ size = rest + m
        /\ \A i \in 1 .. size : i > rest => frameBuffer[i] = frames[k][i - rest]
    BY <1>p, <1>z, <1>l, <1>r, <1>2, BufferBytes, SMTT(30)
  <1>a. k = last + 1 /\ size = rest + m /\ m >= now /\ m \in 1 .. FRAME_SIZE
    BY <1>1, <1>2, <1>3
  <1>b. k \in DOMAIN pictures
    BY <1>3
  <1>c. \A i \in 1 .. size : i > rest => frameBuffer[i] = frames[k][i - rest]
    BY <1>3
  <1>4. start = rest + 1 /\ end = rest + now - 1
    <2>1. start = FRAME_SIZE - length + 1
      BY <1>s, <1>p, <1>l, Markers
    <2>2. IndexOf(frameBuffer, endMarker, start) = {FRAME_SIZE - length + now - 1}
      BY <1>p, <1>l, <1>n, <1>2, <2>1, Markers
    <2> QED
      BY <1>e, <1>r, <2>1, <2>2
  <1>5. now = Len(pictures[k]) /\ \A i \in 1 .. now : frames[k][i] = pictures[k][i]
    <2>1. k # 0
      BY <1>3
    <2>2. now = Len(pictures[k])
      BY <1>n, <1>1, <2>1, Lengths
    <2>3. IsSent(k)
      BY <1>3 DEF FramesInv
    <2> QED
      BY <2>2, <2>3 DEF IsSent
  <1>6. /\ pushed' = Append(pushed, SubSeq(frameBuffer, rest + 1, rest + now))
        /\ frameBuffer' = SubSeq(frameBuffer, rest + now + 1, size)
    <2>1. Len(endMarker) = 2 /\ end + 2 - 1 = rest + now /\ end + 2 = rest + now + 1
      BY <1>4 DEF endMarker
    <2> QED
      BY <1>e, <1>z, <1>4, <2>1 DEF Deliver, Rest
  <1>f. PICK first \in Nat, next \in Nat : first = rest + 1 /\ next = rest + now + 1
    OBVIOUS
  <1>7. /\ SubSeq(frameBuffer, rest + 1, rest + now) = pictures[k]
    <2>e. PICK e \in Nat : e = rest + now
      OBVIOUS
    <2> DEFINE picture == SubSeq(frameBuffer, first, e)
    <2>1. first \in 1 .. Len(frameBuffer) + 1 /\ e \in first - 1 .. Len(frameBuffer)
      BY <1>z, <1>a, <1>f, <2>e
    <2>2. frameBuffer \in Seq(Byte) /\ pictures[k] \in Seq(Byte)
      BY <1>b, SMTT(30) DEF TypeOK
    <2>3. /\ picture \in Seq(Byte) /\ Len(picture) = e - first + 1
          /\ \A i \in 1 .. e - first + 1 : picture[i] = frameBuffer[first + i - 1]
      BY <2>1, <2>2, Part
    <2> HIDE DEF picture
    <2>4. e - first + 1 = now /\ \A i \in 1 .. now : first + i - 1 = rest + i
      BY <1>f, <2>e
    <2>5. \A i \in 1 .. now : rest + i \in 1 .. size /\ rest + i > rest /\ (rest + i) - rest = i
      BY <1>a
    <2>6. \A i \in 1 .. now : picture[i] = pictures[k][i]
      BY <1>5, <1>c, <2>3, <2>4, <2>5, SMTT(30)
    <2>7. picture = pictures[k]
      <3>1. picture \in Seq(Byte) /\ Len(picture) = now /\ Len(pictures[k]) = now
        BY <1>5, <2>3, <2>4
      <3>2. Len(picture) = Len(pictures[k])
            /\ \A i \in 1 .. Len(picture) : picture[i] = pictures[k][i]
        BY <2>6, <3>1
      <3> QED
        BY <2>2, <3>1, <3>2, SeqEqual
    <2> QED
      BY <1>f, <2>e, <2>7 DEF picture
  <1>8. /\ Len(frameBuffer') = m - now
        /\ \A i \in 1 .. m - now : frameBuffer'[i] = frames[k][now + i]
    <2>1. next \in 1 .. Len(frameBuffer) + 1 /\ size \in next - 1 .. Len(frameBuffer)
      BY <1>z, <1>a, <1>f
    <2>2. frameBuffer \in Seq(Byte) /\ frameBuffer' = SubSeq(frameBuffer, next, size)
      BY <1>6, <1>f DEF TypeOK
    <2>3. /\ Len(frameBuffer') = size - next + 1
          /\ \A i \in 1 .. size - next + 1 : frameBuffer'[i] = frameBuffer[next + i - 1]
      BY <2>1, <2>2, Part
    <2>4. size - next + 1 = m - now
      BY <1>a, <1>f
    <2>5. \A i \in 1 .. m - now : /\ next + i - 1 \in 1 .. size /\ next + i - 1 > rest
                                  /\ (next + i - 1) - rest = now + i
      BY <1>a, <1>f
    <2> QED
      BY <1>c, <2>3, <2>4, <2>5
  <1>9. UNCHANGED <<pictures, frames>>
    BY DEF Push, senderVars
  <1>10. /\ Length(k)' = now
         /\ \A i \in 1 .. m - now : Behind(k, i)' = frames[k][now + i]
    <2>1. Length(k)' = Length(k) /\ \A i : Behind(k, i)' = Behind(k, i)
      BY <1>9 DEF Length, Behind
    <2>2. \A i \in 1 .. m - now : i <= FRAME_SIZE - now
      BY <1>1
    <2> QED
      BY <1>n, <2>1, <2>2 DEF Behind
  <1>11. /\ Len(pushed') = k /\ k <= Len(pictures')
         /\ \A p \in DOMAIN pushed' : pushed'[p] = pictures'[p]
    <2>1. pushed \in Seq(Seq(Byte)) /\ pushed' = Append(pushed, pictures[k])
          /\ pictures[k] \in Seq(Byte)
      <3>1. pushed \in Seq(Seq(Byte)) /\ pictures \in Seq(Seq(Byte))
        BY DEF TypeOK
      <3> QED
        BY <1>6, <1>7, <1>b, <3>1
    <2>2. /\ Len(pushed') = k /\ DOMAIN pushed' = 1 .. k /\ pushed'[k] = pictures[k]
          /\ \A p \in 1 .. last : pushed'[p] = pushed[p]
      BY <1>p, <1>a, <2>1
    <2>3. \A p \in 1 .. last : pushed[p] = pictures[p]
      <3>1. DOMAIN pushed = 1 .. last
        BY <1>p DEF TypeOK
      <3> QED
        BY <3>1 DEF BufferInv
    <2>4. \A p \in 1 .. k : p \in 1 .. last \/ p = k
      BY <1>a
    <2>5. k <= Len(pictures)
      BY <1>1
    <2> QED
      BY <1>9, <2>2, <2>3, <2>4, <2>5
  <1>12. DOMAIN frameBuffer' = 1 .. m - now
    BY <1>8 DEF TypeOK
  <1>13. /\ Len(frameBuffer') = m - Length(k)' + 0 /\ Length(k)' <= m
         /\ \A i \in DOMAIN frameBuffer' : frameBuffer'[i] = Behind(k, i)'
    <2>1. m - now = m - now + 0
      BY <1>a
    <2> QED
      BY <1>8, <1>10, <1>12, <1>a, <2>1, SMTT(30)
  <1> QED
    BY <1>11, <1>13 DEF BufferInv

\* Every step keeps the stream what it is, while there is no fault.
LEMMA StreamStep ==
  ASSUME IInv, Next, TypeOK', FramesInv'
  PROVE  StreamInv'
  <1> SUFFICES ASSUME faults' = 0
               PROVE  \E k \in 0 .. Len(pictures'), m \in 1 .. FRAME_SIZE :
                        /\ k = 0 => m = FRAME_SIZE
                        /\ TransitInv(k, m)' /\ BufferInv(k, m)'
    BY DEF StreamInv
  <1>1. /\ TypeOK /\ FramesInv /\ StreamInv
    BY DEF IInv
  <1>2. ~SendFails /\ ~NetworkFault /\ ~Restart /\ faults = 0
    <2>1. faults \in Nat
      BY <1>1 DEF TypeOK
    <2>2. \A hit : ~Fault(hit)
      BY <2>1 DEF Fault
    <2>3. ~SendFails /\ ~NetworkFault /\ ~Restart
      BY <2>2 DEF SendFails, NetworkFault, Lose, Overtake, Repeat, Restart
    <2>4. faults' = faults
      BY <2>3 DEF Next, NextFrame, SendTo, Message, Push, Connect, Close, faultVars
    <2> QED
      BY <2>3, <2>4
  <1>3. PICK k \in 0 .. Len(pictures), m \in 1 .. FRAME_SIZE :
          /\ k = 0 => m = FRAME_SIZE
          /\ TransitInv(k, m) /\ BufferInv(k, m)
    BY <1>1, <1>2 DEF StreamInv
  <1>4. Place(k, m) /\ TransitInv(k, m) /\ BufferInv(k, m)
    BY <1>3 DEF Place
  <1>5. SUFFICES \E h, n : Place(h, n)' /\ TransitInv(h, n)' /\ BufferInv(h, n)'
    BY <1>5 DEF Place
  <1>6. CASE NextFrame
    <2>1. /\ Len(pictures) <= Len(pictures') /\ UNCHANGED <<frameBuffer, pushed>>
          /\ \A p \in DOMAIN pictures : pictures'[p] = pictures[p] /\ frames'[p] = frames[p]
      <3>1. /\ Len(pictures') = Len(pictures) + 1 /\ Len(pictures) \in Nat
            /\ UNCHANGED <<frameBuffer, pushed>>
            /\ \A p \in DOMAIN pictures : pictures'[p] = pictures[p] /\ frames'[p] = frames[p]
        BY <1>1, <1>6, FrameAppended
      <3> QED
        BY <3>1
    <2>2. Place(k, m)' /\ BufferInv(k, m)'
      BY <1>1, <1>4, <2>1, BufferKept
    <2>3. TransitInv(k, m)'
      BY <1>1, <1>4, <1>6, TransitOfFrame
    <2> QED
      BY <2>2, <2>3
  <1>7. CASE SendTo
    <2>1. /\ Len(pictures) <= Len(pictures') /\ UNCHANGED <<frameBuffer, pushed>>
          /\ \A p \in DOMAIN pictures : pictures'[p] = pictures[p] /\ frames'[p] = frames[p]
      <3>1. UNCHANGED <<pictures, frames, frameBuffer, pushed>>
        BY <1>7 DEF SendTo
      <3>2. Len(pictures) \in Nat
        BY <1>1 DEF TypeOK
      <3> QED
        BY <3>1, <3>2
    <2>2. Place(k, m)' /\ BufferInv(k, m)'
      BY <1>1, <1>4, <2>1, BufferKept
    <2>3. TransitInv(k, m)'
      BY <1>1, <1>4, <1>7, TransitOfDatagram
    <2> QED
      BY <2>2, <2>3
  <1>8. CASE Message
    <2>1. PICK d : d = net[1]
      OBVIOUS
    <2>2. TransitInv(d.frame, End(d))' /\ Place(d.frame, End(d))'
      BY <1>1, <1>4, <1>8, <2>1, TransitOfMessage
    <2>3. BufferInv(d.frame, End(d))'
      BY <1>1, <1>4, <1>8, <2>1, BufferOfMessage
    <2>4. \E n : n = End(d) /\ End(d)' = n
      BY DEF End
    <2> QED
      BY <2>2, <2>3, <2>4
  <1>9. CASE Push
    <2>1. BufferInv(k, m)'
      BY <1>1, <1>4, <1>9, BufferOfPush
    <2>2. UNCHANGED <<net, senderVars>>
      BY <1>9 DEF Push
    <2>3. Place(k, m)' /\ TransitInv(k, m)'
      BY <1>4, <2>2 DEF senderVars, Place, TransitInv, NextSent, NextAt, Length
    <2> QED
      BY <2>1, <2>3
  <1>10. CASE \E c \in Client : Connect(c) \/ Close(c)
    <2>1. UNCHANGED <<net, senderVars, frameBuffer, pushed>>
      BY <1>10 DEF Connect, Close
    <2>2. Place(k, m)' /\ TransitInv(k, m)' /\ BufferInv(k, m)'
      BY <1>4, <2>1 DEF senderVars, Place, TransitInv, NextSent, NextAt, Length, BufferInv, Behind
    <2> QED
      BY <2>2
  <1> QED
    BY <1>2, <1>6, <1>7, <1>8, <1>9, <1>10 DEF Next

-----------------------------------------------------------------------------
(* The search for markers, with faults.                                     *)

\* What is found first.
LEMMA Smallest ==
  ASSUME NEW a \in Int, NEW b \in Int, NEW S \in SUBSET (a .. b), S # {}
  PROVE  \E x \in S : \A y \in S : x <= y
  <1> DEFINE UpTo(x) == {y \in S : y <= x}
             T == {UpTo(x) : x \in S}
             R == StrictSubsetOrdering(S)
             F == FiniteSubsetsOf(S)
  <1>1. IsFiniteSet(S)
    BY FS_Interval, FS_Subset
  <1>2. IsWellFoundedOn(R, F)
    BY FS_StrictSubsetOrderingWellFounded
  <1>3. T \subseteq F /\ T # {}
    <2>1. ASSUME NEW x \in S
          PROVE  UpTo(x) \in F
      <3>1. UpTo(x) \in SUBSET S
        OBVIOUS
      <3> HIDE DEF UpTo
      <3>2. IsFiniteSet(UpTo(x))
        BY <1>1, <3>1, FS_Subset
      <3> QED
        BY <3>1, <3>2 DEF FiniteSubsetsOf
    <2> HIDE DEF UpTo, F
    <2> QED
      BY <2>1
  <1> HIDE DEF R, F, T
  <1>4. PICK U \in T : \A V \in T : ~(<<V, U>> \in R)
    BY <1>2, <1>3, WFMin
  <1>5. PICK x \in S : U = UpTo(x)
    BY DEF T
  <1>6. ASSUME NEW y \in S, y < x
        PROVE  FALSE
    <2>1. x \in Int /\ y \in Int /\ \A z \in S : z \in Int
      OBVIOUS
    <2>2. UpTo(y) \in T
      BY DEF T
    <2>3. UpTo(y) \subseteq UpTo(x)
      <3>1. \A z \in S : z <= y => z <= x
        BY <1>6, <2>1
      <3> QED
        BY <3>1, Zenon
    <2>a. x \in UpTo(x) /\ x \notin UpTo(y)
      BY <1>6, <2>1
    <2> HIDE DEF UpTo
    <2>b. UpTo(y) \subseteq S /\ UpTo(x) \subseteq S
      BY DEF UpTo
    <2>4. <<UpTo(y), UpTo(x)>> \in R
      <3>1. PICK V, W : V = UpTo(y) /\ W = UpTo(x)
        OBVIOUS
      <3>2. V \subseteq W /\ V # W /\ V \in SUBSET S /\ W \in SUBSET S
        BY <2>3, <2>a, <2>b, <3>1
      <3>3. <<V, W>> \in R
        BY <3>2 DEF R, StrictSubsetOrdering
      <3> QED
        BY <3>1, <3>3
    <2> QED
      BY <1>4, <1>5, <2>2, <2>4
  <1> QED
    <2>1. \A y \in S : x \in Int /\ y \in Int /\ ~(y < x)
      BY <1>6
    <2> QED
      BY <2>1

\* The loop in _transform goes on when there is a start marker, and an end marker
\* behind it.
LEMMA Found ==
  ASSUME TypeOK, NEW s \in Places(frameBuffer, startMarker, 1),
         NEW e \in Places(frameBuffer, endMarker, s)
  PROVE  HasPicture
  <1> DEFINE size == Len(frameBuffer)
             S == Places(frameBuffer, startMarker, 1)
             E(i) == Places(frameBuffer, endMarker, i)
  <1>1. size \in Nat /\ \A m, i : Places(frameBuffer, m, i) \subseteq i .. size - 1
    BY Histories DEF Places
  <1>2. PICK start \in S : \A i \in S : start <= i
    <2>1. S \in SUBSET (1 .. size - 1) /\ S # {} /\ 1 \in Int /\ size - 1 \in Int
      BY <1>1
    <2> HIDE DEF S, size
    <2> QED
      BY <2>1, Smallest
  <1>3. start \in IndexOf(frameBuffer, startMarker, 1)
    BY <1>2 DEF IndexOf
  <1>4. start \in Int /\ start <= s /\ s \in Int
    BY <1>1, <1>2
  <1>5. e \in E(start)
    BY <1>1, <1>4 DEF Places
  <1>6. PICK end \in E(start) : \A i \in E(start) : end <= i
    <2>1. E(start) \in SUBSET (start .. size - 1) /\ E(start) # {} /\ size - 1 \in Int
      BY <1>1, <1>5
    <2> HIDE DEF E, size
    <2> QED
      BY <1>4, <2>1, Smallest
  <1>7. end \in IndexOf(frameBuffer, endMarker, start)
    BY <1>6 DEF IndexOf
  <1> QED
    BY <1>3, <1>7 DEF HasPicture

\* A buffer that ends with `many' bytes of a frame whose picture has `length', behind
\* bytes that hide no end of it, and no start when they are clean.
Holds(buffer, before, many, frame, length, clean) ==
  /\ before \in Nat /\ many \in 1 .. FRAME_SIZE /\ length \in 4 .. FRAME_SIZE
  /\ Len(buffer) = before + many
  /\ \A i \in 1 .. many : buffer[before + i] = frame[i]
  /\ IsAt(startMarker, frame, 1) /\ IsAt(endMarker, frame, length - 1)
  /\ \A i \in 2 .. FRAME_SIZE - 1 : ~IsAt(startMarker, frame, i)
  /\ \A i \in 1 .. length - 2 : ~IsAt(endMarker, frame, i)
  /\ \A s \in Places(buffer, startMarker, 1) :
       /\ \A e \in Places(buffer, endMarker, s) : e >= before + length - 1
       /\ clean => s > before

\* Bytes that are joined to a buffer, from a frame on.
Joins(joined, buffer, before, now, frame) ==
  /\ now \in 1 .. FRAME_SIZE /\ Len(joined) = before + now
  /\ \A i \in 1 .. Len(buffer) : joined[i] = buffer[i]
  /\ \A i \in 1 .. now : joined[before + i] = frame[i]

\* Where a marker is in the part of a frame that the buffer holds.
LEMMA MarkerInFrame ==
  ASSUME NEW joined, NEW before \in Nat, NEW now \in 1 .. FRAME_SIZE, NEW frame, NEW marker,
         \A i \in 1 .. now : joined[before + i] = frame[i],
         NEW e \in before + 1 .. before + now - 1, IsAt(marker, joined, e)
  PROVE  e - before \in 1 .. FRAME_SIZE - 1 /\ IsAt(marker, frame, e - before)
  <1>1. PICK i \in 1 .. now - 1 : e = before + i
    <2>1. e - before \in 1 .. now - 1 /\ e = before + (e - before)
      OBVIOUS
    <2> QED
      BY <2>1
  <1>2. joined[e] = frame[i]
    BY <1>1
  <1>3. joined[e + 1] = frame[i + 1]
    <2>1. i + 1 \in 1 .. now /\ e + 1 = before + (i + 1)
      BY <1>1
    <2> QED
      BY <2>1
  <1>4. e - before = i
    BY <1>1
  <1>5. IsAt(marker, frame, i)
    BY <1>2, <1>3 DEF IsAt
  <1>6. i \in 1 .. FRAME_SIZE - 1
    <2>1. now \in Nat /\ now <= FRAME_SIZE /\ i \in 1 .. now - 1
      BY <1>1
    <2> QED
      BY <2>1
  <1> QED
    BY <1>4, <1>5, <1>6, Zenon

\* The next bytes of the frame.
LEMMA HoldsMore ==
  ASSUME NEW buffer, NEW before, NEW many, NEW frame, NEW length, NEW clean,
         Holds(buffer, before, many, frame, length, clean),
         NEW joined, NEW now, Joins(joined, buffer, before, now, frame), many <= now
  PROVE  Holds(joined, before, now, frame, length, clean)
  <1>1. /\ before \in Nat /\ many \in 1 .. FRAME_SIZE /\ length \in 4 .. FRAME_SIZE
        /\ now \in 1 .. FRAME_SIZE
        /\ Len(buffer) = before + many /\ Len(joined) = before + now
    BY DEF Holds, Joins
  <1>2. \A i \in 1 .. before + many : joined[i] = buffer[i]
    BY <1>1 DEF Joins
  <1>3. \A i \in 1 .. now : joined[before + i] = frame[i]
    BY DEF Joins
  <1>4. ASSUME NEW marker, NEW i \in 1 .. before, IsAt(marker, joined, i)
        PROVE  i \in 1 .. before + many - 1 /\ IsAt(marker, buffer, i)
    <2>1. i \in 1 .. before + many - 1 /\ i \in 1 .. before + many /\ i + 1 \in 1 .. before + many
      BY <1>1
    <2> QED
      BY <1>2, <1>4, <2>1 DEF IsAt
  <1>5. ASSUME NEW s \in Places(joined, startMarker, 1), s <= before
        PROVE  s \in Places(buffer, startMarker, 1)
    <2>1. s \in 1 .. before /\ IsAt(startMarker, joined, s)
      BY <1>1, <1>5 DEF Places
    <2> QED
      BY <1>1, <1>4, <2>1 DEF Places
  <1>6. ASSUME NEW s \in Places(joined, startMarker, 1)
        PROVE  clean => s > before
    <2>1. s \in Int
      BY <1>1 DEF Places
    <2>2. s <= before => s \in Places(buffer, startMarker, 1)
      BY <1>5
    <2>3. clean /\ s <= before => s > before
      BY <2>2 DEF Holds
    <2> QED
      BY <1>1, <2>1, <2>3
  <1>7. ASSUME NEW s \in Places(joined, startMarker, 1), NEW e \in Places(joined, endMarker, s)
        PROVE  e >= before + length - 1
    <2>1. s \in 1 .. before + now - 1 /\ e \in s .. before + now - 1 /\ IsAt(endMarker, joined, e)
      BY <1>1 DEF Places
    <2>2. CASE e <= before
      <3>1. e \in 1 .. before /\ s <= before
        BY <1>1, <2>1, <2>2
      <3>2. e \in Places(buffer, endMarker, s)
        <4>1. e \in 1 .. before + many - 1 /\ IsAt(endMarker, buffer, e)
          BY <1>4, <2>1, <3>1
        <4> QED
          BY <1>1, <2>1, <4>1 DEF Places
      <3>3. s \in Places(buffer, startMarker, 1)
        BY <1>5, <3>1
      <3> QED
        BY <3>2, <3>3 DEF Holds
    <2>3. CASE e > before
      <3>1. e \in before + 1 .. before + now - 1
        BY <1>1, <2>1, <2>3
      <3>2. e - before \in 1 .. FRAME_SIZE - 1 /\ IsAt(endMarker, frame, e - before)
        BY <1>1, <1>3, <2>1, <3>1, MarkerInFrame
      <3>3. ~(e - before \in 1 .. length - 2)
        BY <3>2 DEF Holds
      <3> QED
        BY <1>1, <3>1, <3>2, <3>3
    <2> QED
      BY <1>1, <2>1, <2>2, <2>3
  <1> QED
    BY <1>1, <1>3, <1>6, <1>7 DEF Holds

\* The first bytes of a frame, behind a buffer that has no picture in it.
LEMMA HoldsNew ==
  ASSUME NEW buffer, NEW before \in Nat, before = Len(buffer), NEW frame, NEW length, NEW clean,
         length \in 4 .. FRAME_SIZE,
         IsAt(startMarker, frame, 1), IsAt(endMarker, frame, length - 1),
         \A i \in 2 .. FRAME_SIZE - 1 : ~IsAt(startMarker, frame, i),
         \A i \in 1 .. length - 2 : ~IsAt(endMarker, frame, i),
         \A s \in Places(buffer, startMarker, 1) : Places(buffer, endMarker, s) = {},
         clean => Places(buffer, startMarker, 1) = {},
         NEW joined, NEW now, Joins(joined, buffer, before, now, frame)
  PROVE  Holds(joined, before, now, frame, length, clean)
  <1>1. now \in 1 .. FRAME_SIZE /\ Len(joined) = before + now
    BY DEF Joins
  <1>2. \A i \in 1 .. before : joined[i] = buffer[i]
    BY DEF Joins
  <1>3. \A i \in 1 .. now : joined[before + i] = frame[i]
    BY DEF Joins
  <1>4. joined[before + 1].value = "FF"
    <2>1. 1 \in 1 .. now
      BY <1>1
    <2>2. joined[before + 1] = frame[1]
      BY <1>3, <2>1
    <2> QED
      BY <2>2 DEF IsAt, startMarker
  <1>5. ASSUME NEW marker \in {startMarker, endMarker}, NEW i \in 1 .. before,
               IsAt(marker, joined, i)
        PROVE  i \in 1 .. before - 1 /\ IsAt(marker, buffer, i)
    <2>1. i # before
      <3>1. marker[2] # "FF"
        BY DEF startMarker, endMarker
      <3> QED
        BY <1>4, <1>5, <3>1 DEF IsAt
    <2>2. i \in 1 .. before - 1 /\ i \in 1 .. before /\ i + 1 \in 1 .. before
      BY <2>1
    <2> QED
      BY <1>2, <1>5, <2>2 DEF IsAt
  <1>6. ASSUME NEW s \in Places(joined, startMarker, 1), s <= before
        PROVE  s \in Places(buffer, startMarker, 1)
    <2>1. s \in 1 .. before /\ IsAt(startMarker, joined, s)
      BY <1>1, <1>6 DEF Places
    <2> QED
      BY <1>1, <1>5, <2>1 DEF Places
  <1>7. ASSUME NEW s \in Places(joined, startMarker, 1)
        PROVE  clean => s > before
    <2>1. s \in Int
      BY <1>1 DEF Places
    <2>2. s <= before => s \in Places(buffer, startMarker, 1)
      BY <1>6
    <2>3. clean => ~(s <= before)
      BY <2>2
    <2> QED
      BY <1>1, <2>1, <2>3
  <1>8. ASSUME NEW s \in Places(joined, startMarker, 1), NEW e \in Places(joined, endMarker, s)
        PROVE  e >= before + length - 1
    <2>1. s \in 1 .. before + now - 1 /\ e \in s .. before + now - 1 /\ IsAt(endMarker, joined, e)
      BY <1>1 DEF Places
    <2>2. ASSUME e <= before
          PROVE  FALSE
      <3>1. e \in 1 .. before /\ s <= before
        BY <1>1, <2>1, <2>2
      <3>2. e \in Places(buffer, endMarker, s)
        <4>1. e \in 1 .. before - 1 /\ IsAt(endMarker, buffer, e)
          BY <1>5, <2>1, <3>1
        <4> QED
          BY <1>1, <2>1, <4>1 DEF Places
      <3>3. s \in Places(buffer, startMarker, 1)
        BY <1>6, <3>1
      <3> QED
        BY <3>2, <3>3
    <2>3. e \in before + 1 .. before + now - 1
      BY <1>1, <2>1, <2>2
    <2>4. e - before \in 1 .. FRAME_SIZE - 1 /\ IsAt(endMarker, frame, e - before)
      BY <1>1, <1>3, <2>1, <2>3, MarkerInFrame
    <2>5. ~(e - before \in 1 .. length - 2)
      BY <2>4
    <2> QED
      BY <1>1, <2>3, <2>4, <2>5
  <1> QED
    BY <1>1, <1>3, <1>7, <1>8 DEF Holds

\* With all of its picture, the buffer has the markers of it.
LEMMA HoldsAll ==
  ASSUME NEW buffer, NEW before, NEW many, NEW frame, NEW length, NEW clean,
         Holds(buffer, before, many, frame, length, clean), many >= length
  PROVE  /\ before + 1 \in Places(buffer, startMarker, 1)
         /\ before + length - 1 \in Places(buffer, endMarker, before + 1)
  <1>1. /\ before \in Nat /\ many \in 1 .. FRAME_SIZE /\ length \in 4 .. FRAME_SIZE
        /\ Len(buffer) = before + many
    BY DEF Holds
  <1>2. \A i \in 1 .. many : buffer[before + i] = frame[i]
    BY DEF Holds
  <1>3. IsAt(startMarker, buffer, before + 1)
    <2>1. 1 \in 1 .. many /\ 2 \in 1 .. many /\ (before + 1) + 1 = before + 2
      BY <1>1
    <2>2. buffer[before + 1] = frame[1] /\ buffer[(before + 1) + 1] = frame[1 + 1]
      BY <1>2, <2>1
    <2> QED
      BY <2>2 DEF Holds, IsAt
  <1>4. IsAt(endMarker, buffer, before + length - 1)
    <2>1. PICK i \in 1 .. many : i = length - 1 /\ i + 1 \in 1 .. many
      BY <1>1
    <2>2. before + length - 1 = before + i /\ (before + i) + 1 = before + (i + 1)
      BY <1>1, <2>1
    <2>3. buffer[before + i] = frame[i] /\ buffer[(before + i) + 1] = frame[i + 1]
      BY <1>2, <2>1, <2>2
    <2>4. IsAt(endMarker, frame, i)
      BY <2>1 DEF Holds
    <2> QED
      BY <2>2, <2>3, <2>4 DEF IsAt
  <1>5. before + 1 \in 1 .. Len(buffer) - 1 /\ before + length - 1 \in before + 1 .. Len(buffer) - 1
    BY <1>1
  <1> QED
    BY <1>3, <1>4, <1>5 DEF Places

\* What is cut out ends where the picture ends, and starts where it starts, if what
\* is in front is clean.
LEMMA HoldsCut ==
  ASSUME NEW buffer, NEW before, NEW many, NEW frame, NEW length, NEW clean,
         Holds(buffer, before, many, frame, length, clean),
         NEW start \in IndexOf(buffer, startMarker, 1),
         NEW end \in IndexOf(buffer, endMarker, start)
  PROVE  many >= length /\ end = before + length - 1 /\ (clean => start = before + 1)
  <1>1. /\ before \in Nat /\ many \in 1 .. FRAME_SIZE /\ length \in 4 .. FRAME_SIZE
        /\ Len(buffer) = before + many
    BY DEF Holds
  <1>2. /\ start \in Places(buffer, startMarker, 1) /\ end \in Places(buffer, endMarker, start)
        /\ \A i \in Places(buffer, startMarker, 1) : start <= i
        /\ \A i \in Places(buffer, endMarker, start) : end <= i
    BY DEF IndexOf
  <1>3. /\ start \in 1 .. before + many - 1 /\ end \in start .. before + many - 1
        /\ end >= before + length - 1
    BY <1>1, <1>2 DEF Places, Holds
  <1>4. many >= length
    BY <1>1, <1>3
  <1>5. /\ before + 1 \in Places(buffer, startMarker, 1)
        /\ before + length - 1 \in Places(buffer, endMarker, before + 1)
    BY <1>4, HoldsAll
  <1>6. start <= before + 1
    BY <1>2, <1>5
  <1>7. before + length - 1 \in Places(buffer, endMarker, start)
    <2>1. before + length - 1 \in start .. Len(buffer) - 1
      BY <1>1, <1>3, <1>4, <1>6
    <2>2. IsAt(endMarker, buffer, before + length - 1)
      BY <1>5 DEF Places
    <2> QED
      BY <2>1, <2>2 DEF Places
  <1>8. end <= before + length - 1
    BY <1>2, <1>7
  <1>9. clean => start > before
    BY <1>2 DEF Holds
  <1> QED
    BY <1>1, <1>3, <1>4, <1>6, <1>8, <1>9

\* A frame that was sent, in numbers.
LEMMA SentShape ==
  ASSUME TypeOK, FramesInv, NEW k \in 1 .. Len(pictures)
  PROVE  /\ Length(k) \in 4 .. FRAME_SIZE
         /\ IsAt(startMarker, frames[k], 1) /\ IsAt(endMarker, frames[k], Length(k) - 1)
         /\ \A i \in 2 .. FRAME_SIZE - 1 : ~IsAt(startMarker, frames[k], i)
         /\ \A i \in 1 .. Length(k) - 2 : ~IsAt(endMarker, frames[k], i)
         /\ Length(k) = Len(pictures[k])
         /\ \A i \in 1 .. Length(k) : frames[k][i] = pictures[k][i]
  <1>1. k \in DOMAIN pictures /\ k # 0
    BY Histories
  <1>2. Length(k) = Len(pictures[k])
    BY <1>1 DEF Length
  <1>3. IsSent(k)
    BY <1>1 DEF FramesInv
  <1> QED
    BY <1>2, <1>3 DEF IsSent

\* What the viewer keeps of a frame, as a buffer.
LEMMA KeepsHolds ==
  ASSUME TypeOK, FramesInv, NEW k \in 1 .. Len(pictures), NEW m \in 1 .. FRAME_SIZE,
         KeepsFrame(k, m)
  PROVE  Holds(frameBuffer, Len(frameBuffer) - m, m, frames[k], Length(k), k - 1 \notin damaged)
  <1>1. Len(frameBuffer) - m \in Nat /\ Len(frameBuffer) = (Len(frameBuffer) - m) + m
    <2>1. Len(frameBuffer) - m >= 0
      BY DEF KeepsFrame
    <2> QED
      BY <2>1, Histories
  <1>2. /\ \A i \in 1 .. m : frameBuffer[(Len(frameBuffer) - m) + i] = frames[k][i]
        /\ \A s \in Places(frameBuffer, startMarker, 1) :
             /\ \A e \in Places(frameBuffer, endMarker, s) :
                  e >= (Len(frameBuffer) - m) + Length(k) - 1
             /\ k - 1 \notin damaged => s > Len(frameBuffer) - m
    BY DEF KeepsFrame
  <1> QED
    BY <1>1, <1>2, SentShape DEF Holds

\* Between two messages the viewer does not keep a picture that has all arrived.
LEMMA NotWhole ==
  ASSUME TypeOK, FramesInv, NEW k \in 1 .. Len(pictures), NEW m \in 1 .. FRAME_SIZE,
         KeepsFrame(k, m), ~HasPicture
  PROVE  m < Length(k)
  <1>1. Length(k) \in 4 .. FRAME_SIZE
    BY SentShape
  <1>2. ASSUME m >= Length(k)
        PROVE  FALSE
    <2>1. PICK before : before = Len(frameBuffer) - m
      OBVIOUS
    <2>2. Holds(frameBuffer, before, m, frames[k], Length(k), k - 1 \notin damaged)
      BY <2>1, KeepsHolds
    <2>3. /\ before + 1 \in Places(frameBuffer, startMarker, 1)
          /\ before + Length(k) - 1 \in Places(frameBuffer, endMarker, before + 1)
      BY <1>2, <2>2, HoldsAll
    <2> QED
      BY <2>3, Found
  <1> QED
    BY <1>1, <1>2

\* There is no start marker behind a picture.
LEMMA RestIsClean ==
  ASSUME TypeOK, FramesInv, NEW k \in 0 .. Len(pictures), NEW m \in 1 .. FRAME_SIZE,
         KeepsRest(k, m), k = 0 => m = FRAME_SIZE
  PROVE  Places(frameBuffer, startMarker, 1) = {}
  <1>1. PICK size \in Nat : size = Len(frameBuffer) /\ DOMAIN frameBuffer = 1 .. size
    BY Histories
  <1>2. PICK length \in 1 .. FRAME_SIZE : length = Length(k) /\ (k = 0 => length = FRAME_SIZE)
    BY Lengths
  <1>3. length <= m /\ size = m - length
    BY <1>1, <1>2 DEF KeepsRest
  <1>4. \A i \in 1 .. size : frameBuffer[i] = frames[k][length + i]
    BY <1>1, <1>2 DEF KeepsRest
  <1>5. ASSUME NEW i \in 1 .. size - 1, IsAt(startMarker, frameBuffer, i)
        PROVE  FALSE
    <2>1. k \in 1 .. Len(pictures)
      <3>1. k # 0
        BY <1>2, <1>3, <1>5
      <3> QED
        BY <3>1
    <2>2. PICK j \in 2 .. FRAME_SIZE - 1 : j = length + i
      BY <1>3, <1>5
    <2>3. frameBuffer[i] = frames[k][j]
      <3>1. i \in 1 .. size
        BY <1>5
      <3> QED
        BY <1>4, <2>2, <3>1
    <2>4. frameBuffer[i + 1] = frames[k][j + 1]
      <3>1. PICK n \in 1 .. size : n = i + 1 /\ length + n = j + 1
        BY <1>5, <2>2
      <3>2. frameBuffer[n] = frames[k][length + n]
        BY <1>4
      <3> QED
        BY <3>1, <3>2, Zenon
    <2>5. IsAt(startMarker, frames[k], j)
      BY <1>5, <2>3, <2>4 DEF IsAt
    <2> QED
      BY <2>1, <2>2, <2>5, SentShape
  <1> QED
    BY <1>1, <1>5 DEF Places

\* What a datagram brings when it continues what the viewer keeps of its frame.
LEMMA FrameContinues ==
  ASSUME TypeOK, TypeOK', FramesInv, LinkInv, Message, NEW d, d = net[1],
         KeepsFrame(d.frame, d.at), d.at > 0
  PROVE  KeepsFrame(d.frame, End(d))'
  <1>a. /\ UNCHANGED <<pictures, frames, pushed>> /\ d \in Datagram
        /\ frameBuffer' = frameBuffer \o d.data
    BY Arrival
  <1>b. /\ d.frame \in 1 .. Len(pictures)
        /\ \A j \in DOMAIN d.data : d.data[j] = frames[d.frame][d.at + j]
    <2>1. 1 \in DOMAIN net
      BY Arrival
    <2>2. d.frame <= Len(pictures) /\ \A j \in DOMAIN d.data : d.data[j] = frames[d.frame][d.at + j]
      BY <2>1 DEF LinkInv, Genuine
    <2> QED
      BY <1>a, <2>2, Numbers
  <1>k. PICK k \in 1 .. Len(pictures) : k = d.frame
    BY <1>b
  <1>m. PICK m \in 1 .. FRAME_SIZE, now \in 1 .. FRAME_SIZE, count \in Nat :
          m = d.at /\ now = End(d) /\ count = Len(d.data) /\ now = m + count
    <2>1. d.at \in 1 .. FRAME_SIZE
      BY <1>a, Numbers
    <2> QED
      BY <1>a, <2>1, Numbers
  <1>n. now = m + count /\ m \in Nat /\ now \in Nat /\ count \in Nat
    BY <1>m
  <1>p. PICK before : before = Len(frameBuffer) - m
    OBVIOUS
  <1>1. Holds(frameBuffer, before, m, frames[k], Length(k), k - 1 \notin damaged)
    BY <1>k, <1>m, <1>p, KeepsHolds
  <1>2. /\ before \in Nat /\ Len(frameBuffer) = before + m
        /\ \A i \in 1 .. m : frameBuffer[before + i] = frames[k][i]
    BY <1>1 DEF Holds
  <1>3. /\ Len(frameBuffer') = before + now
        /\ \A i \in 1 .. before + m : frameBuffer'[i] = frameBuffer[i]
        /\ \A j \in 1 .. count : frameBuffer'[(before + m) + j] = d.data[j]
    <2>1. frameBuffer \in Seq(Byte) /\ d.data \in Seq(Byte)
      BY <1>a, Numbers DEF TypeOK
    <2>2. /\ Len(frameBuffer \o d.data) = (before + m) + count
          /\ \A i \in 1 .. (before + m) + count :
               (frameBuffer \o d.data)[i] = IF i <= before + m THEN frameBuffer[i]
                                            ELSE d.data[i - (before + m)]
      <3>1. Len(d.data) = count /\ Len(frameBuffer) = before + m
        BY <1>m, <1>2
      <3>2. /\ Len(frameBuffer \o d.data) = Len(frameBuffer) + Len(d.data)
            /\ \A i \in 1 .. Len(frameBuffer) + Len(d.data) :
                 (frameBuffer \o d.data)[i] = IF i <= Len(frameBuffer) THEN frameBuffer[i]
                                              ELSE d.data[i - Len(frameBuffer)]
        BY <2>1, ConcatProperties
      <3> QED
        BY <3>1, <3>2, Zenon
    <2>3. \A i \in 1 .. before + m : i \in 1 .. (before + m) + count /\ i <= before + m
      BY <1>2
    <2>4. \A j \in 1 .. count : /\ (before + m) + j \in 1 .. (before + m) + count
                                /\ ~((before + m) + j <= before + m)
                                /\ ((before + m) + j) - (before + m) = j
      BY <1>2
    <2>5. (before + m) + count = before + now
      <3>1. before \in Nat
        BY <1>2
      <3> QED
        BY <1>n, <3>1
    <2> QED
      BY <1>a, <2>2, <2>3, <2>4, <2>5
  <1>4. \A i \in 1 .. now : frameBuffer'[before + i] = frames[k][i]
    <2> TAKE i \in 1 .. now
    <2>1. CASE i <= m
      <3>1. i \in 1 .. m /\ before + i \in 1 .. before + m
        BY <1>2, <2>1
      <3> QED
        BY <1>2, <1>3, <3>1
    <2>2. CASE i > m
      <3>1. PICK j \in 1 .. count : i = m + j
        <4>1. i - m \in 1 .. count /\ i = m + (i - m)
          BY <1>n, <2>2
        <4> QED
          BY <4>1
      <3>2. frameBuffer'[(before + m) + j] = d.data[j]
        BY <1>3
      <3>3. d.data[j] = frames[k][m + j]
        <4>1. DOMAIN d.data = 1 .. count
          BY <1>a, <1>m, Numbers
        <4> QED
          BY <1>b, <1>k, <1>m, <4>1
      <3>4. before + i = (before + m) + j
        BY <1>2, <3>1
      <3> QED
        BY <3>1, <3>2, <3>3, <3>4
    <2> QED
      BY <2>1, <2>2
  <1>5. Joins(frameBuffer', frameBuffer, before, now, frames[k])
    BY <1>2, <1>3, <1>4 DEF Joins
  <1>6. m <= now
    BY <1>m
  <1>7. Holds(frameBuffer', before, now, frames[k], Length(k), k - 1 \notin damaged)
    BY <1>1, <1>5, <1>6, HoldsMore
  <1>8. damaged' = damaged /\ Length(k)' = Length(k) /\ End(d)' = End(d)
    BY <1>a DEF Message, faultVars, Length, End
  <1>9. Len(frameBuffer') - now = before
    BY <1>2, <1>3
  <1>10. KeepsFrame(k, now)'
    <2>1. k > 0 /\ before >= 0
      BY <1>2
    <2>2. \A s \in Places(frameBuffer', startMarker, 1) :
            /\ \A e \in Places(frameBuffer', endMarker, s) : e >= before + Length(k) - 1
            /\ k - 1 \notin damaged => s > before
      BY <1>7 DEF Holds
    <2>3. (Places(frameBuffer, startMarker, 1)' = Places(frameBuffer', startMarker, 1))
      BY DEF Places, IsAt
    <2>4. \A s : Places(frameBuffer, endMarker, s)' = Places(frameBuffer', endMarker, s)
      BY DEF Places, IsAt
    <2>5. frames' = frames
      BY <1>a
    <2> QED
      BY <1>4, <1>8, <1>9, <2>1, <2>2, <2>3, <2>4, <2>5 DEF KeepsFrame
  <1> QED
    BY <1>k, <1>m, <1>8, <1>10 DEF KeepsFrame

\* When it continues the rest of its slot.
LEMMA RestContinues ==
  ASSUME TypeOK, TypeOK', FramesInv, LinkInv, Message, NEW d, d = net[1],
         KeepsRest(d.frame, d.at), d.at > 0
  PROVE  KeepsRest(d.frame, End(d))'
  <1>a. /\ UNCHANGED <<pictures, frames, pushed>> /\ d \in Datagram
        /\ frameBuffer' = frameBuffer \o d.data
    BY Arrival
  <1>b. /\ d.frame \in 1 .. Len(pictures)
        /\ \A j \in DOMAIN d.data : d.data[j] = frames[d.frame][d.at + j]
    <2>1. 1 \in DOMAIN net
      BY Arrival
    <2>2. d.frame <= Len(pictures) /\ \A j \in DOMAIN d.data : d.data[j] = frames[d.frame][d.at + j]
      BY <2>1 DEF LinkInv, Genuine
    <2> QED
      BY <1>a, <2>2, Numbers
  <1>k. PICK k \in 1 .. Len(pictures) : k = d.frame
    BY <1>b
  <1>m. PICK m \in 1 .. FRAME_SIZE, now \in 1 .. FRAME_SIZE, count \in Nat :
          m = d.at /\ now = End(d) /\ count = Len(d.data) /\ now = m + count
    <2>1. d.at \in 1 .. FRAME_SIZE
      BY <1>a, Numbers
    <2> QED
      BY <1>a, <2>1, Numbers
  <1>l. PICK length \in 4 .. FRAME_SIZE : length = Length(k)
    BY SentShape
  <1>z. PICK size \in Nat : size = Len(frameBuffer) /\ DOMAIN frameBuffer = 1 .. size
    BY Histories
  <1>1. /\ length <= m /\ size = m - length
        /\ \A i \in 1 .. size : frameBuffer[i] = frames[k][length + i]
    BY <1>k, <1>m, <1>l, <1>z DEF KeepsRest
  <1>2. /\ Len(frameBuffer') = size + count /\ DOMAIN frameBuffer' = 1 .. size + count
        /\ \A i \in 1 .. size + count :
             frameBuffer'[i] = IF i <= size THEN frameBuffer[i] ELSE d.data[i - size]
    <2>1. frameBuffer \in Seq(Byte) /\ d.data \in Seq(Byte)
      BY <1>a, Numbers DEF TypeOK
    <2> QED
      BY <1>a, <1>m, <1>z, <2>1, ConcatProperties
  <1>3. \A i \in 1 .. size + count : frameBuffer'[i] = frames[k][length + i]
    <2> TAKE i \in 1 .. size + count
    <2>1. CASE i <= size
      BY <1>1, <1>2, <2>1
    <2>2. CASE i > size
      <3>1. PICK j \in 1 .. count : j = i - size /\ m + j = length + i
        <4>1. i - size \in 1 .. count /\ m + (i - size) = length + i
          BY <1>1, <2>2
        <4> QED
          BY <4>1
      <3>2. frameBuffer'[i] = d.data[j]
        BY <1>2, <2>2, <3>1
      <3>3. d.data[j] = frames[k][m + j]
        <4>1. DOMAIN d.data = 1 .. count
          BY <1>a, <1>m, Numbers
        <4> QED
          BY <1>b, <1>k, <1>m, <4>1
      <3> QED
        BY <3>1, <3>2, <3>3
    <2> QED
      BY <2>1, <2>2
  <1>4. length <= now /\ size + count = now - length
    <2>1. now = m + count /\ m \in Nat /\ now \in Nat /\ count \in Nat
      BY <1>m
    <2>2. length <= m /\ size = m - length
      BY <1>1
    <2> QED
      BY <2>1, <2>2
  <1>5. Length(k)' = length /\ frames' = frames /\ End(d)' = End(d)
    BY <1>a, <1>l DEF Length, End
  <1>6. KeepsRest(k, now)'
    BY <1>2, <1>3, <1>4, <1>5 DEF KeepsRest
  <1> QED
    BY <1>k, <1>m, <1>5, <1>6 DEF KeepsRest

\* The first datagram in transit, behind the last that has arrived.
LEMMA FirstLink ==
  ASSUME TypeOK, LinkInv, net # <<>>, NEW d, d = net[1]
  PROVE  /\ Link(latest, [frame |-> d.frame, at |-> d.at])
         /\ latest.frame \in 0 .. Len(pictures) /\ latest.at \in 1 .. FRAME_SIZE
         /\ latest.frame = 0 => latest.at = FRAME_SIZE
         /\ d \in Datagram /\ d.frame \in 1 .. Len(pictures)
  <1>1. Len(net) \in Nat \ {0} /\ net[1] \in Datagram
    <2>1. net \in Seq(Datagram)
      BY Zenon DEF TypeOK
    <2> QED
      BY <2>1
  <1>2. Link(Ends(0), Begins(0 + 1))
    <2>1. 0 \in 0 .. Len(net)
      BY <1>1
    <2> QED
      BY <2>1, Zenon DEF LinkInv
  <1>3. Ends(0) = latest /\ Begins(0 + 1) = [frame |-> d.frame, at |-> d.at]
    BY <1>1 DEF Ends, Begins
  <1>4. latest.frame \in Nat /\ latest.at \in 1 .. FRAME_SIZE
    <2>1. latest \in [frame : 0 .. MAX_FRAMES, at : 1 .. FRAME_SIZE]
      BY Zenon DEF TypeOK
    <2> QED
      BY <2>1
  <1>5. latest.frame <= Len(pictures) /\ (latest.frame = 0 => latest.at = FRAME_SIZE)
    BY DEF LinkInv
  <1>6. d.frame \in 1 .. Len(pictures)
    <2>1. 1 \in DOMAIN net
      BY <1>1, Numbers
    <2>2. net[1].frame <= Len(pictures)
      BY <2>1 DEF LinkInv, Genuine
    <2> QED
      BY <1>1, <2>2, Numbers, Histories
  <1>7. latest.frame \in 0 .. Len(pictures)
    <2>1. Len(pictures) \in Nat
      BY Numbers, Histories
    <2> QED
      BY <1>4, <1>5, <2>1
  <1> QED
    BY <1>1, <1>2, <1>3, <1>4, <1>5, <1>6, <1>7, Zenon

\* When it is the first of its frame.
LEMMA FrameBegins ==
  ASSUME TypeOK, TypeOK', FramesInv, LinkInv, KeptInv, Message, NEW d, d = net[1],
         d.at = 0, d.frame \notin damaged
  PROVE  KeepsFrame(d.frame, End(d))'
  <1>a. /\ UNCHANGED <<pictures, frames, pushed>> /\ d \in Datagram /\ net # <<>>
        /\ frameBuffer' = frameBuffer \o d.data
    BY Arrival
  <1>b. /\ Link(latest, [frame |-> d.frame, at |-> d.at])
        /\ latest.frame \in 0 .. Len(pictures) /\ latest.at \in 1 .. FRAME_SIZE
        /\ latest.frame = 0 => latest.at = FRAME_SIZE
        /\ d.frame \in 1 .. Len(pictures)
    BY <1>a, FirstLink
  <1>c. \A j \in DOMAIN d.data : d.data[j] = frames[d.frame][d.at + j]
    <2>1. 1 \in DOMAIN net
      BY Arrival
    <2> QED
      BY <2>1 DEF LinkInv, Genuine
  <1>k. PICK k \in 1 .. Len(pictures) : k = d.frame
    BY <1>b
  <1>m. PICK now \in 1 .. FRAME_SIZE : now = End(d) /\ now = Len(d.data)
    BY <1>a, Numbers
  <1>p. PICK before \in Nat : before = Len(frameBuffer)
    BY Histories
  <1>d. ~HasPicture
    BY DEF Message
  <1>1. k - 1 \notin damaged => Places(frameBuffer, startMarker, 1) = {}
    <2> SUFFICES ASSUME k - 1 \notin damaged
                 PROVE  Places(frameBuffer, startMarker, 1) = {}
      OBVIOUS
    <2>1. latest = [frame |-> k - 1, at |-> FRAME_SIZE]
      BY <1>b, <1>k DEF Link
    <2>2. latest.frame = k - 1 /\ latest.at = FRAME_SIZE
      BY <2>1
    <2>3. KeepsRest(k - 1, FRAME_SIZE) \/ KeepsFrame(k - 1, FRAME_SIZE)
      BY <2>2 DEF KeptInv
    <2>4. k - 1 \in 0 .. Len(pictures) /\ FRAME_SIZE \in 1 .. FRAME_SIZE
      BY <1>b, <2>2
    <2>5. CASE KeepsRest(k - 1, FRAME_SIZE)
      BY <2>4, <2>5, RestIsClean
    <2>6. CASE KeepsFrame(k - 1, FRAME_SIZE)
      <3>1. k - 1 > 0
        BY <2>6 DEF KeepsFrame
      <3>2. k - 1 \in 1 .. Len(pictures)
        BY <2>4, <3>1
      <3>3. FRAME_SIZE < Length(k - 1) /\ Length(k - 1) \in 4 .. FRAME_SIZE
        BY <1>d, <2>4, <2>6, <3>2, NotWhole, SentShape
      <3> QED
        BY <3>3
    <2> QED
      BY <2>3, <2>5, <2>6
  <1>2. \A s \in Places(frameBuffer, startMarker, 1) : Places(frameBuffer, endMarker, s) = {}
    BY <1>d, Found
  <1>3. /\ Len(frameBuffer') = before + now
        /\ \A i \in 1 .. before : frameBuffer'[i] = frameBuffer[i]
        /\ \A i \in 1 .. now : frameBuffer'[before + i] = frames[k][i]
    <2>1. frameBuffer \in Seq(Byte) /\ d.data \in Seq(Byte)
      BY <1>a, Numbers DEF TypeOK
    <2>2. /\ Len(frameBuffer \o d.data) = Len(frameBuffer) + Len(d.data)
          /\ \A i \in 1 .. Len(frameBuffer) + Len(d.data) :
               (frameBuffer \o d.data)[i] = IF i <= Len(frameBuffer) THEN frameBuffer[i]
                                            ELSE d.data[i - Len(frameBuffer)]
      BY <2>1, ConcatProperties
    <2>3. /\ Len(frameBuffer') = before + now
          /\ \A i \in 1 .. before + now :
               frameBuffer'[i] = IF i <= before THEN frameBuffer[i] ELSE d.data[i - before]
      BY <1>a, <1>m, <1>p, <2>2, Zenon
    <2>4. \A i \in 1 .. before : i \in 1 .. before + now /\ i <= before
      OBVIOUS
    <2>5. \A i \in 1 .. now : /\ before + i \in 1 .. before + now
                              /\ ~(before + i <= before) /\ (before + i) - before = i
      OBVIOUS
    <2>6. \A i \in 1 .. now : d.data[i] = frames[k][i]
      <3>1. DOMAIN d.data = 1 .. now
        BY <1>a, <1>m, Numbers
      <3>2. \A i \in 1 .. now : d.at + i = i
        OBVIOUS
      <3> QED
        BY <1>c, <1>k, <3>1, <3>2
    <2> QED
      BY <2>3, <2>4, <2>5, <2>6, ZenonT(30)
  <1>4. Joins(frameBuffer', frameBuffer, before, now, frames[k])
    BY <1>p, <1>3 DEF Joins
  <1>5. Holds(frameBuffer', before, now, frames[k], Length(k), k - 1 \notin damaged)
    BY <1>p, <1>1, <1>2, <1>4, SentShape, HoldsNew
  <1>6. damaged' = damaged /\ Length(k)' = Length(k) /\ End(d)' = End(d)
    BY <1>a DEF Message, faultVars, Length, End
  <1>7. Len(frameBuffer') - now = before
    BY <1>3
  <1>8. KeepsFrame(k, now)'
    <2>1. k > 0 /\ before >= 0
      OBVIOUS
    <2>2. \A s \in Places(frameBuffer', startMarker, 1) :
            /\ \A e \in Places(frameBuffer', endMarker, s) : e >= before + Length(k) - 1
            /\ k - 1 \notin damaged => s > before
      BY <1>5 DEF Holds
    <2>3. Places(frameBuffer, startMarker, 1)' = Places(frameBuffer', startMarker, 1)
      BY DEF Places, IsAt
    <2>4. \A s : Places(frameBuffer, endMarker, s)' = Places(frameBuffer', endMarker, s)
      BY DEF Places, IsAt
    <2>5. frames' = frames
      BY <1>a
    <2> QED
      BY <1>3, <1>6, <1>7, <2>1, <2>2, <2>3, <2>4, <2>5 DEF KeepsFrame
  <1> QED
    BY <1>k, <1>m, <1>6, <1>8 DEF KeepsFrame

\* A round of the loop cuts out what is behind the last whole start, to the end of
\* the picture, and keeps the rest of the slot.
LEMMA FramePushed ==
  ASSUME TypeOK, TypeOK', FramesInv, NEW k \in 1 .. Len(pictures), NEW m \in 1 .. FRAME_SIZE,
         KeepsFrame(k, m), Push
  PROVE  /\ KeepsRest(k, m)'
         /\ k - 1 \notin damaged => pictures[k] \in Range(pushed')
  <1>s. PICK start \in IndexOf(frameBuffer, startMarker, 1) :
          \E end \in IndexOf(frameBuffer, endMarker, start) :
            /\ Deliver(SubSeq(frameBuffer, start, end + Len(endMarker) - 1))
            /\ frameBuffer' = Rest(frameBuffer, start, end)
    BY DEF Push
  <1>e. PICK end \in IndexOf(frameBuffer, endMarker, start) :
          /\ Deliver(SubSeq(frameBuffer, start, end + Len(endMarker) - 1))
          /\ frameBuffer' = Rest(frameBuffer, start, end)
    BY <1>s
  <1>z. PICK size \in Nat : size = Len(frameBuffer)
    BY Histories
  <1>p. PICK before : before = Len(frameBuffer) - m
    OBVIOUS
  <1>l. PICK length \in 4 .. FRAME_SIZE : length = Length(k)
    BY SentShape
  <1>1. Holds(frameBuffer, before, m, frames[k], length, k - 1 \notin damaged)
    BY <1>p, <1>l, KeepsHolds
  <1>2. m >= length /\ end = before + length - 1 /\ (k - 1 \notin damaged => start = before + 1)
    <2>1. PICK clean \in BOOLEAN : clean <=> k - 1 \notin damaged
      OBVIOUS
    <2>2. Holds(frameBuffer, before, m, frames[k], length, clean)
      BY <1>1, <2>1 DEF Holds
    <2>3. /\ start \in IndexOf(frameBuffer, startMarker, 1)
          /\ end \in IndexOf(frameBuffer, endMarker, start)
      BY <1>s, <1>e
    <2>4. m >= length /\ end = before + length - 1 /\ (clean => start = before + 1)
      BY <2>2, <2>3, HoldsCut
    <2> QED
      BY <2>1, <2>4
  <1>3. before \in Nat /\ size = before + m
    BY <1>z, <1>1 DEF Holds
  <1>4. \A i \in 1 .. m : frameBuffer[before + i] = frames[k][i]
    BY <1>1 DEF Holds
  <1>5. /\ pushed' = Append(pushed, SubSeq(frameBuffer, start, before + length))
        /\ frameBuffer' = SubSeq(frameBuffer, before + length + 1, size)
    <2>1. Len(endMarker) = 2 /\ end + 2 - 1 = before + length /\ end + 2 = before + length + 1
      BY <1>2, <1>3 DEF endMarker
    <2> QED
      BY <1>e, <1>z, <2>1 DEF Deliver, Rest
  <1>6. frameBuffer \in Seq(Byte)
    BY Zenon DEF TypeOK
  <1>7. KeepsRest(k, m)'
    <2>1. PICK next \in Nat : next = before + length + 1
      BY <1>3
    <2>2. next \in 1 .. Len(frameBuffer) + 1 /\ size \in next - 1 .. Len(frameBuffer)
      BY <1>z, <1>2, <1>3, <2>1
    <2>3. /\ Len(frameBuffer') = size - next + 1
          /\ \A i \in 1 .. size - next + 1 : frameBuffer'[i] = frameBuffer[next + i - 1]
      BY <1>5, <1>6, <2>1, <2>2, Part, ZenonT(30)
    <2>4. size - next + 1 = m - length
      BY <1>2, <1>3, <2>1
    <2>5. ASSUME NEW i \in 1 .. m - length
          PROVE  frameBuffer'[i] = frames[k][length + i]
      <3>1. next + i - 1 = before + (length + i) /\ length + i \in 1 .. m
        BY <1>2, <1>3, <2>1
      <3> QED
        BY <1>4, <2>3, <2>4, <3>1
    <2>6. Length(k)' = length /\ frames' = frames
      BY <1>l DEF Push, senderVars, Length
    <2>7. DOMAIN frameBuffer' = 1 .. m - length
      <3>1. frameBuffer' \in Seq(Byte)
        BY Zenon DEF TypeOK
      <3> QED
        BY <2>3, <2>4, <3>1
    <2> QED
      BY <1>2, <2>3, <2>4, <2>5, <2>6, <2>7 DEF KeepsRest
  <1>8. ASSUME k - 1 \notin damaged
        PROVE  pictures[k] \in Range(pushed')
    <2>1. PICK first \in Nat, e \in Nat : first = before + 1 /\ e = before + length
      BY <1>3
    <2> DEFINE picture == SubSeq(frameBuffer, first, e)
    <2>2. first \in 1 .. Len(frameBuffer) + 1 /\ e \in first - 1 .. Len(frameBuffer)
      BY <1>z, <1>2, <1>3, <2>1
    <2>3. /\ picture \in Seq(Byte) /\ Len(picture) = e - first + 1
          /\ \A i \in 1 .. e - first + 1 : picture[i] = frameBuffer[first + i - 1]
      BY <1>6, <2>2, Part
    <2>4. pushed' = Append(pushed, picture)
      BY <1>2, <1>5, <1>8, <2>1
    <2> HIDE DEF picture
    <2>5. /\ e - first + 1 = length
          /\ \A i \in 1 .. length : first + i - 1 = before + i /\ i \in 1 .. m
      BY <1>2, <1>3, <2>1
    <2>6. \A i \in 1 .. length : picture[i] = frames[k][i]
      BY <1>4, <2>3, <2>5
    <2>7. /\ pictures[k] \in Seq(Byte) /\ Len(pictures[k]) = length
          /\ \A i \in 1 .. length : frames[k][i] = pictures[k][i]
      <3>1. pictures[k] \in Seq(Byte)
        <4>1. pictures \in Seq(Seq(Byte)) /\ k \in DOMAIN pictures
          BY Histories
        <4> QED
          BY <4>1, Zenon, ElementOfSeq
      <3> QED
        BY <1>l, <3>1, SentShape
    <2>8. picture = pictures[k]
      <3>1. /\ Len(picture) = Len(pictures[k])
            /\ \A i \in 1 .. Len(picture) : picture[i] = pictures[k][i]
        BY <2>3, <2>5, <2>6, <2>7
      <3> QED
        BY <2>3, <2>7, <3>1, SeqEqual
    <2>9. picture \in Range(pushed')
      <3>1. pushed \in Seq(Seq(Byte)) /\ Len(pushed) \in Nat
        BY Histories
      <3>2. /\ pushed'[Len(pushed) + 1] = picture /\ Len(pushed) + 1 \in DOMAIN pushed'
        BY <2>3, <2>4, <3>1, AppendProperties
      <3> QED
        BY <3>2 DEF Range
    <2> QED
      BY <2>8, <2>9
  <1> QED
    BY <1>7, <1>8

-----------------------------------------------------------------------------
(* Where the stream goes on, and where a fault has broken it.              *)

\* The place behind which nothing of the next frames is known, and the one in front
\* of which nothing is, because a fault was there.
EndHit(end) == end.frame \in damaged \/ end.at = FRAME_SIZE
BeginHit(begin) == begin.frame \in damaged \/ (begin.at = 0 /\ begin.frame - 1 \in damaged)

\* Places in the stream.
Spot == [frame : Nat, at : 0 .. FRAME_SIZE]

\* Two such places are linked.
LEMMA HitLink ==
  ASSUME NEW end \in Spot, NEW begin \in Spot, EndHit(end)', BeginHit(begin)'
  PROVE  Link(end, begin)'
  BY DEF Link, EndHit, BeginHit, Spot

\* A fault breaks no link.
LEMMA LinkKept ==
  ASSUME NEW end, NEW begin, Link(end, begin), damaged \subseteq damaged'
  PROVE  Link(end, begin)'
  BY DEF Link

\* In front of a datagram whose frame is hit, nothing of the next ones is known.
LEMMA LinkToHit ==
  ASSUME NEW end \in Spot, NEW begin \in Spot, Link(end, begin), damaged \subseteq damaged',
         begin.frame \in damaged'
  PROVE  EndHit(end)'
  BY DEF Link, EndHit, Spot

\* Nor is it behind such a datagram, of what is in front.
LEMMA LinkFromHit ==
  ASSUME NEW end \in Spot, NEW begin \in Spot, Link(end, begin), damaged \subseteq damaged',
         end.frame \in damaged'
  PROVE  BeginHit(begin)'
  BY DEF Link, BeginHit, Spot

\* Where datagrams begin and end.
LEMMA Spots ==
  ASSUME TypeOK
  PROVE  /\ \A i \in 0 .. Len(net) : Ends(i) \in Spot
         /\ \A i \in 1 .. Len(net) + 1 : Begins(i) \in Spot
         /\ \A i \in 1 .. Len(net) : /\ Ends(i) = [frame |-> net[i].frame, at |-> End(net[i])]
                                     /\ Begins(i) = [frame |-> net[i].frame, at |-> net[i].at]
         /\ Begins(Len(net) + 1) = [frame |-> NextSent, at |-> NextAt]
         /\ Len(net) \in Nat
  <1>1. /\ NextSent \in Nat /\ NextAt \in 0 .. FRAME_SIZE
        /\ latest \in Spot
    <2>1. latest \in [frame : 0 .. MAX_FRAMES, at : 1 .. FRAME_SIZE] /\ wBytes \in 0 .. FRAME_SIZE
      BY Zenon DEF TypeOK
    <2>2. latest \in Spot
      BY <2>1 DEF Spot
    <2>3. NextAt \in 0 .. FRAME_SIZE
      BY <2>1 DEF NextAt
    <2> QED
      BY <2>2, <2>3, Numbers
  <1>2. \A i \in 1 .. Len(net) : /\ net[i].frame \in Nat /\ net[i].at \in 0 .. FRAME_SIZE
                                 /\ End(net[i]) \in 0 .. FRAME_SIZE
    <2> TAKE i \in 1 .. Len(net)
    <2>1. net[i] \in Datagram
      BY Numbers
    <2>2. /\ net[i].frame \in Nat /\ net[i].at \in Nat /\ net[i].at < End(net[i])
          /\ End(net[i]) \in 1 .. FRAME_SIZE
      BY <2>1, Numbers
    <2> QED
      BY <2>2
  <1>n. PICK n \in Nat : n = Len(net)
    BY Numbers
  <1>3. \A i \in 1 .. n : /\ Ends(i) = [frame |-> net[i].frame, at |-> End(net[i])]
                          /\ Begins(i) = [frame |-> net[i].frame, at |-> net[i].at]
    BY <1>n DEF Ends, Begins
  <1>4. Ends(0) = latest /\ Begins(n + 1) = [frame |-> NextSent, at |-> NextAt]
    BY <1>n DEF Ends, Begins
  <1>5. \A i \in 1 .. n : Ends(i) \in Spot /\ Begins(i) \in Spot
    BY <1>2, <1>3, <1>n DEF Spot
  <1>6. Begins(n + 1) \in Spot /\ Ends(0) \in Spot
    BY <1>1, <1>4 DEF Spot
  <1>7. \A i \in 0 .. n : i = 0 \/ i \in 1 .. n
    OBVIOUS
  <1>8. \A i \in 1 .. n + 1 : i = n + 1 \/ i \in 1 .. n
    OBVIOUS
  <1> QED
    BY <1>n, <1>3, <1>4, <1>5, <1>6, <1>7, <1>8

\* What RemoveAt does, place by place.
LEMMA Removed ==
  ASSUME NEW D, NEW s \in Seq(D), NEW x \in 1 .. Len(s)
  PROVE  LET t == RemoveAt(s, x) IN
         /\ Len(t) = Len(s) - 1
         /\ \A i \in 1 .. Len(s) - 1 : t[i] = IF i < x THEN s[i] ELSE s[i + 1]
  <1>1. PICK n \in Nat : n = Len(s) /\ x \in 1 .. n
    OBVIOUS
  <1>2. PICK w \in Nat, y \in Nat : w = x - 1 /\ y = x + 1
    BY <1>1
  <1> DEFINE u == SubSeq(s, 1, w)
             v == SubSeq(s, y, n)
  <1>3. /\ 1 \in 1 .. Len(s) + 1 /\ w \in 1 - 1 .. Len(s)
        /\ y \in 1 .. Len(s) + 1 /\ n \in y - 1 .. Len(s)
    BY <1>1, <1>2
  <1>4. /\ u \in Seq(D) /\ Len(u) = w - 1 + 1
        /\ \A i \in 1 .. w - 1 + 1 : u[i] = s[1 + i - 1]
    BY <1>3, Part
  <1>5. /\ v \in Seq(D) /\ Len(v) = n - y + 1
        /\ \A i \in 1 .. n - y + 1 : v[i] = s[y + i - 1]
    BY <1>3, Part
  <1>6. RemoveAt(s, x) = u \o v
    BY <1>1, <1>2 DEF RemoveAt
  <1> HIDE DEF u, v
  <1>7. /\ Len(u \o v) = Len(u) + Len(v)
        /\ \A i \in 1 .. Len(u) + Len(v) :
             (u \o v)[i] = IF i <= Len(u) THEN u[i] ELSE v[i - Len(u)]
    BY <1>4, <1>5, ConcatProperties
  <1>8. Len(u) = w /\ Len(v) = n - x /\ Len(u) + Len(v) = n - 1
    BY <1>1, <1>2, <1>4, <1>5
  <1>9. ASSUME NEW i \in 1 .. n - 1
        PROVE  (u \o v)[i] = IF i < x THEN s[i] ELSE s[i + 1]
    <2>1. (u \o v)[i] = IF i <= w THEN u[i] ELSE v[i - w]
      BY <1>7, <1>8
    <2>2. CASE i < x
      <3>1. i <= w /\ i \in 1 .. w - 1 + 1 /\ 1 + i - 1 = i
        BY <1>1, <1>2, <2>2
      <3> QED
        BY <1>4, <2>1, <2>2, <3>1
    <2>3. CASE i >= x
      <3>1. ~(i <= w) /\ i - w \in 1 .. n - y + 1 /\ y + (i - w) - 1 = i + 1 /\ ~(i < x)
        BY <1>1, <1>2, <2>3
      <3> QED
        BY <1>5, <2>1, <3>1
    <2>4. i < x \/ i >= x
      BY <1>1
    <2> QED
      BY <2>2, <2>3, <2>4
  <1> QED
    BY <1>1, <1>6, <1>7, <1>8, <1>9

\* What InsertAt does to repeat an element.
LEMMA Repeated ==
  ASSUME NEW D, NEW s \in Seq(D), NEW x \in 1 .. Len(s)
  PROVE  LET t == InsertAt(s, x, s[x]) IN
         /\ Len(t) = Len(s) + 1
         /\ \A i \in 1 .. Len(s) + 1 : t[i] = IF i <= x THEN s[i] ELSE s[i - 1]
  <1>1. PICK n \in Nat : n = Len(s) /\ x \in 1 .. n
    OBVIOUS
  <1>2. PICK w \in Nat : w = x - 1
    BY <1>1
  <1> DEFINE u == SubSeq(s, 1, w)
             v == SubSeq(s, x, n)
             e == <<s[x]>>
             ue == u \o e
  <1>3. /\ 1 \in 1 .. Len(s) + 1 /\ w \in 1 - 1 .. Len(s)
        /\ x \in 1 .. Len(s) + 1 /\ n \in x - 1 .. Len(s)
    BY <1>1, <1>2
  <1>4. /\ u \in Seq(D) /\ Len(u) = w - 1 + 1
        /\ \A i \in 1 .. w - 1 + 1 : u[i] = s[1 + i - 1]
    BY <1>3, Part
  <1>5. /\ v \in Seq(D) /\ Len(v) = n - x + 1
        /\ \A i \in 1 .. n - x + 1 : v[i] = s[x + i - 1]
    BY <1>3, Part
  <1>6. InsertAt(s, x, s[x]) = ue \o v
    BY <1>1, <1>2 DEF InsertAt
  <1>e. e \in Seq(D) /\ Len(e) = 1 /\ e[1] = s[x]
    BY <1>1
  <1> HIDE DEF u, v, e
  <1>f. /\ ue \in Seq(D) /\ Len(ue) = Len(u) + Len(e)
        /\ \A i \in 1 .. Len(u) + Len(e) : ue[i] = IF i <= Len(u) THEN u[i] ELSE e[i - Len(u)]
    BY <1>4, <1>e, ConcatProperties
  <1> HIDE DEF ue
  <1>7. /\ Len(ue \o v) = Len(ue) + Len(v)
        /\ \A i \in 1 .. Len(ue) + Len(v) :
             (ue \o v)[i] = IF i <= Len(ue) THEN ue[i] ELSE v[i - Len(ue)]
    BY <1>5, <1>f, ConcatProperties, ZenonT(30)
  <1>8. /\ Len(u) = w /\ Len(u) + Len(e) = x /\ Len(ue) = x /\ Len(v) = n - x + 1
        /\ Len(ue) + Len(v) = n + 1
    BY <1>1, <1>2, <1>4, <1>5, <1>e, <1>f
  <1>9. ASSUME NEW i \in 1 .. n + 1
        PROVE  (ue \o v)[i] = IF i <= x THEN s[i] ELSE s[i - 1]
    <2>1. (ue \o v)[i] = IF i <= x THEN ue[i] ELSE v[i - x]
      BY <1>7, <1>8
    <2>2. CASE i <= w
      <3>1. i <= x /\ i \in 1 .. x /\ i \in 1 .. w - 1 + 1 /\ 1 + i - 1 = i
        BY <1>1, <1>2, <2>2
      <3>2. ue[i] = u[i]
        BY <1>f, <1>8, <2>2, <3>1
      <3> QED
        BY <1>4, <2>1, <3>1, <3>2
    <2>3. CASE i = x
      <3>1. i <= x /\ i \in 1 .. x /\ ~(i <= w) /\ i - w = 1
        BY <1>1, <1>2, <2>3
      <3>2. ue[i] = e[1]
        BY <1>f, <1>8, <3>1
      <3> QED
        BY <1>e, <2>1, <2>3, <3>1, <3>2
    <2>4. CASE i > x
      <3>1. ~(i <= x) /\ i - x \in 1 .. n - x + 1 /\ x + (i - x) - 1 = i - 1
        BY <1>1, <2>4
      <3> QED
        BY <1>5, <2>1, <3>1
    <2>5. i <= w \/ i = x \/ i > x
      BY <1>1, <1>2
    <2> QED
      BY <2>2, <2>3, <2>4, <2>5
  <1> QED
    BY <1>1, <1>6, <1>7, <1>8, <1>9

\* What a swap of neighbours does.
LEMMA Swapped ==
  ASSUME NEW D, NEW s \in Seq(D), NEW x \in 2 .. Len(s)
  PROVE  LET t == [s EXCEPT ![x] = s[x - 1], ![x - 1] = s[x]] IN
         /\ Len(t) = Len(s)
         /\ \A i \in 1 .. Len(s) :
              t[i] = IF i = x THEN s[x - 1] ELSE IF i = x - 1 THEN s[x] ELSE s[i]
  <1> DEFINE u == [s EXCEPT ![x] = s[x - 1]]
             t == [u EXCEPT ![x - 1] = s[x]]
  <1>1. x \in 1 .. Len(s) /\ x - 1 \in 1 .. Len(s) /\ x - 1 # x /\ s[x] \in D /\ s[x - 1] \in D
    OBVIOUS
  <1>2. /\ u \in Seq(D) /\ Len(u) = Len(s)
        /\ \A i \in 1 .. Len(s) : u[i] = IF i = x THEN s[x - 1] ELSE s[i]
    BY <1>1, ExceptSeq
  <1> HIDE DEF u
  <1>3. /\ Len(t) = Len(s)
        /\ \A i \in 1 .. Len(s) : t[i] = IF i = x - 1 THEN s[x] ELSE u[i]
    BY <1>1, <1>2, ExceptSeq
  <1> HIDE DEF t
  <1>4. \A i \in 1 .. Len(s) : t[i] = IF i = x THEN s[x - 1] ELSE IF i = x - 1 THEN s[x] ELSE s[i]
    BY <1>1, <1>2, <1>3
  <1> QED
    BY <1>3, <1>4 DEF t, u

-----------------------------------------------------------------------------
(* Every step keeps the datagrams linked.                                   *)

\* Where datagrams begin and end after a step that moves them.
LEMMA MovedSpot ==
  ASSUME TypeOK, TypeOK', NEW i \in 1 .. Len(net'), NEW j \in 1 .. Len(net), net'[i] = net[j]
  PROVE  Ends(i)' = Ends(j) /\ Begins(i)' = Begins(j)
  <1>1. Len(net') \in Nat /\ Len(net) \in Nat
    <2>1. net' \in Seq(Datagram) /\ net \in Seq(Datagram)
      BY Zenon DEF TypeOK
    <2> QED
      BY <2>1
  <1> QED
    BY <1>1 DEF Ends, Begins, End

\* Behind the last of them comes what image_save sends next.
LEMMA LastSpot ==
  ASSUME TypeOK, TypeOK', NextSent' = NextSent, NextAt' = NextAt, NEW n, n = Len(net')
  PROVE  Begins(n + 1)' = Begins(Len(net) + 1)
  <1>1. Len(net') \in Nat /\ Len(net) \in Nat
    <2>1. net' \in Seq(Datagram) /\ net \in Seq(Datagram)
      BY Zenon DEF TypeOK
    <2> QED
      BY <2>1
  <1> QED
    BY <1>1 DEF Begins

\* A link between two places, and between the datagrams that are there.
LEMMA LinkAt ==
  ASSUME NEW i, NEW end, NEW begin, Ends(i)' = end, Begins(i + 1)' = begin, Link(end, begin)'
  PROVE  Link(Ends(i), Begins(i + 1))'
  BY DEF Link

\* The links before a step.
LEMMA Links ==
  ASSUME TypeOK, LinkInv, NEW n, n = Len(net)
  PROVE  /\ n \in Nat
         /\ \A i \in 0 .. n : /\ Link(Ends(i), Begins(i + 1))
                              /\ Ends(i) \in Spot /\ Begins(i + 1) \in Spot
         /\ \A i \in 1 .. n : /\ Ends(i) \in Spot /\ Begins(i) \in Spot
                              /\ Ends(i).frame = net[i].frame /\ Begins(i).frame = net[i].frame
  <1>1. n \in Nat
    BY Spots
  <1>2. \A i \in 0 .. n : Link(Ends(i), Begins(i + 1))
    BY Zenon DEF LinkInv
  <1>3. \A i \in 0 .. n : Ends(i) \in Spot
    BY Spots
  <1>4. \A i \in 1 .. n + 1 : Begins(i) \in Spot
    BY Spots
  <1>5. \A i \in 0 .. n : i + 1 \in 1 .. n + 1
    BY <1>1
  <1>6. \A i \in 1 .. n : i \in 0 .. n /\ i \in 1 .. n + 1
    BY <1>1
  <1>7. \A i \in 1 .. n : /\ Ends(i) = [frame |-> net[i].frame, at |-> End(net[i])]
                          /\ Begins(i) = [frame |-> net[i].frame, at |-> net[i].at]
    BY Spots
  <1>8. \A i \in 1 .. n : Ends(i).frame = net[i].frame /\ Begins(i).frame = net[i].frame
    BY <1>7
  <1> QED
    BY <1>1, <1>2, <1>3, <1>4, <1>5, <1>6, <1>8, Zenon

\* A place where the stream goes on is still one after a step, unless a fault hits it.
StillBegins(from) ==
  \A i \in from .. Len(net) + 1 :
    Begins(i).frame \notin damaged' => \E j \in 1 .. Len(net') + 1 : Begins(j)' = Begins(i)

\* A step that moves no datagram.
LEMMA LinksStay ==
  ASSUME TypeOK, TypeOK', LinkInv, UNCHANGED <<net, latest>>,
         NextSent' = NextSent, NextAt' = NextAt, damaged \subseteq damaged'
  PROVE  /\ \A i \in 0 .. Len(net') : Link(Ends(i), Begins(i + 1))'
         /\ StillBegins(1)
  <1>a. ASSUME NEW i \in 0 .. Len(net')
        PROVE  Link(Ends(i), Begins(i + 1))'
    <2>1. Ends(i)' = Ends(i) /\ Begins(i + 1)' = Begins(i + 1)
      BY DEF Ends, Begins, End
    <2>2. Link(Ends(i), Begins(i + 1))
      BY Links
    <2>3. PICK end, begin : end = Ends(i) /\ begin = Begins(i + 1)
      OBVIOUS
    <2>4. Link(end, begin)'
      BY <2>2, <2>3, LinkKept
    <2> QED
      BY <2>1, <2>3, <2>4, LinkAt
  <1>b. \A i \in 1 .. Len(net) + 1 : Begins(i)' = Begins(i)
    BY DEF Begins
  <1> QED
    BY <1>a, <1>b DEF StillBegins

\* A datagram more.
LEMMA LinksOfSend ==
  ASSUME TypeOK, TypeOK', FramesInv, LinkInv, SendTo
  PROVE  /\ \A i \in 0 .. Len(net') : Link(Ends(i), Begins(i + 1))'
         /\ StillBegins(1)
  <1>d. PICK d \in Datagram :
          /\ net' = Append(net, d)
          /\ d.frame = NextSent /\ d.at = NextAt /\ d.frame = Len(pictures)
          /\ \A j \in DOMAIN d.data : d.data[j] = frames[d.frame][d.at + j]
          /\ Follows(d.frame, End(d), NextSent', NextAt')
    BY DatagramSent
  <1>n. PICK n \in Nat : n = Len(net)
    BY Numbers
  <1>1. /\ Len(net') = n + 1 /\ net'[n + 1] = d
        /\ \A i \in 1 .. n : net'[i] = net[i]
    <2>1. net \in Seq(Datagram)
      BY Zenon DEF TypeOK
    <2> QED
      BY <1>d, <1>n, <2>1
  <1>2. latest' = latest /\ damaged' = damaged
    BY DEF SendTo, faultVars
  <1>3. \A i \in 0 .. n : Ends(i)' = Ends(i)
    <2> TAKE i \in 0 .. n
    <2>1. CASE i = 0
      BY <1>2, <2>1 DEF Ends
    <2>2. CASE i \in 1 .. n
      <3>1. i \in 1 .. Len(net') /\ i \in 1 .. Len(net)
        BY <1>n, <1>1, <2>2
      <3> QED
        BY <1>1, <2>2, <3>1, MovedSpot
    <2> QED
      BY <2>1, <2>2
  <1>4. \A i \in 0 .. n : Begins(i + 1)' = Begins(i + 1)
    <2> TAKE i \in 0 .. n
    <2>1. CASE i = n
      <3>1. Begins(n + 1) = [frame |-> d.frame, at |-> d.at]
        BY <1>d, <1>n, Spots
      <3>2. Begins(n + 1)' = [frame |-> d.frame, at |-> d.at]
        BY <1>1 DEF Begins
      <3> QED
        BY <2>1, <3>1, <3>2
    <2>2. CASE i \in 0 .. n - 1
      <3>1. i + 1 \in 1 .. Len(net') /\ i + 1 \in 1 .. Len(net) /\ i + 1 \in 1 .. n
        BY <1>n, <1>1, <2>2
      <3>2. net'[i + 1] = net[i + 1]
        BY <1>1, <3>1
      <3> QED
        BY <3>1, <3>2, MovedSpot
    <2> QED
      BY <2>1, <2>2
  <1>5. ASSUME NEW i \in 0 .. n
        PROVE  Link(Ends(i), Begins(i + 1))'
    <2>1. PICK end, begin : end = Ends(i) /\ begin = Begins(i + 1)
      OBVIOUS
    <2>2. Link(end, begin)
      BY <1>n, <2>1, Links
    <2>3. Link(end, begin)'
      BY <1>2, <2>2, LinkKept
    <2> QED
      BY <1>3, <1>4, <2>1, <2>3, LinkAt
  <1>6. Link(Ends(n + 1), Begins((n + 1) + 1))'
    <2>n. /\ NextSent' \in Nat /\ NextAt' \in Nat /\ d.frame \in Nat /\ End(d) \in 1 .. FRAME_SIZE
      <3>1. wBytes' \in Nat /\ Len(pictures') \in Nat
        BY DEF TypeOK
      <3>2. NextSent' \in Nat /\ NextAt' \in Nat
        BY <3>1 DEF NextSent, NextAt
      <3> QED
        BY <1>d, <3>2, Numbers
    <2>1. PICK k \in Nat, m \in 1 .. FRAME_SIZE, next \in Nat, at \in Nat :
            k = d.frame /\ m = End(d) /\ next = NextSent' /\ at = NextAt'
      BY <2>n
    <2>2. Ends(n + 1)' = [frame |-> k, at |-> m]
      <3>1. n + 1 # 0
        BY <1>n
      <3> QED
        BY <1>1, <2>1, <3>1 DEF Ends, End
    <2>3. Begins((n + 1) + 1)' = [frame |-> next, at |-> at]
      <3>1. (n + 1) + 1 > Len(net')
        BY <1>1
      <3> QED
        BY <2>1, <3>1 DEF Begins
    <2>4. IF m = FRAME_SIZE THEN next = k + 1 /\ at = 0 ELSE next = k /\ at = m
      BY <1>d, <2>1 DEF Follows
    <2>5. Link([frame |-> k, at |-> m], [frame |-> next, at |-> at])'
      <3>1. CASE m = FRAME_SIZE
        <4>1. next - 1 = k /\ at = 0
          BY <2>4, <3>1
        <4> QED
          BY <3>1, <4>1 DEF Link
      <3>2. CASE m # FRAME_SIZE
        BY <2>4, <3>2 DEF Link
      <3> QED
        BY <3>1, <3>2
    <2> QED
      BY <2>2, <2>3, <2>5, LinkAt
  <1>7. \A i \in 0 .. Len(net') : i \in 0 .. n \/ i = n + 1
    BY <1>1
  <1>8. ASSUME NEW i \in 1 .. n + 1
        PROVE  Begins(i)' = Begins(i) /\ i \in 1 .. Len(net') + 1
    <2>1. PICK h \in 0 .. n : h + 1 = i
      <3>1. i - 1 \in 0 .. n /\ (i - 1) + 1 = i
        OBVIOUS
      <3> QED
        BY <3>1
    <2>2. Begins(i)' = Begins(i)
      BY <1>4, <2>1
    <2> QED
      BY <1>1, <2>2
  <1> QED
    BY <1>n, <1>5, <1>6, <1>7, <1>8 DEF StillBegins

\* The rest of a frame is given up.
LEMMA LinksOfSendFails ==
  ASSUME TypeOK, TypeOK', LinkInv, SendFails
  PROVE  /\ \A i \in 0 .. Len(net') : Link(Ends(i), Begins(i + 1))'
         /\ StillBegins(1)
  <1>n. PICK n \in Nat : n = Len(net)
    BY Numbers
  <1>c. PICK count \in Nat : count = Len(pictures)
    <2>1. Len(pictures) \in Nat
      BY Numbers
    <2> QED
      BY <2>1
  <1>1. /\ UNCHANGED <<net, latest, pictures>> /\ sending # <<>> /\ sending' = <<>>
        /\ damaged' = damaged \cup {count}
    BY <1>c DEF SendFails, Fault
  <1>2. ASSUME NEW i \in 0 .. n
        PROVE  Link(Ends(i), Begins(i + 1))'
    <2>1. PICK end : end = Ends(i)
      OBVIOUS
    <2>2. Ends(i)' = end
      BY <1>1, <2>1 DEF Ends, End
    <2>3. CASE i = n
      <3>1. Begins(n + 1) = [frame |-> count, at |-> wBytes]
        BY <1>n, <1>c, <1>1 DEF Begins, NextSent, NextAt
      <3>2. Begins(n + 1)' = [frame |-> count + 1, at |-> 0]
        BY <1>n, <1>c, <1>1 DEF Begins, NextSent, NextAt
      <3>3. Link(end, [frame |-> count, at |-> wBytes]) /\ end \in Spot
            /\ [frame |-> count, at |-> wBytes] \in Spot
        BY <1>n, <2>1, <2>3, <3>1, Links
      <3>4. EndHit(end)'
        <4>1. PICK begin \in Spot : begin = [frame |-> count, at |-> wBytes]
          BY <3>3
        <4>2. begin.frame \in damaged' /\ damaged \subseteq damaged' /\ Link(end, begin)
          BY <1>1, <3>3, <4>1
        <4> QED
          BY <3>3, <4>2, LinkToHit
      <3>5. PICK begin \in Spot : begin = [frame |-> count + 1, at |-> 0]
        <4>1. count + 1 \in Nat /\ 0 \in 0 .. FRAME_SIZE
          OBVIOUS
        <4>2. [frame |-> count + 1, at |-> 0] \in Spot
          BY <4>1 DEF Spot
        <4> QED
          BY <4>2
      <3>6. BeginHit(begin)'
        <4>1. begin.at = 0 /\ begin.frame - 1 = count
          BY <3>5
        <4> QED
          BY <1>1, <4>1 DEF BeginHit
      <3>7. Link(end, begin)'
        BY <3>3, <3>4, <3>6, HitLink
      <3>8. Begins(i + 1)' = begin
        BY <2>3, <3>2, <3>5
      <3> QED
        BY <2>2, <3>7, <3>8, LinkAt
    <2>4. CASE i # n
      <3>1. PICK begin : begin = Begins(i + 1)
        OBVIOUS
      <3>2. Begins(i + 1)' = begin
        <4>1. ~(i + 1 > Len(net)) /\ net' = net
          BY <1>n, <1>1, <2>4
        <4> QED
          BY <3>1, <4>1 DEF Begins
      <3>3. Link(end, begin) /\ damaged \subseteq damaged'
        BY <1>n, <1>1, <2>1, <3>1, Links
      <3>4. Link(end, begin)'
        BY <3>3, LinkKept
      <3> QED
        BY <2>2, <3>2, <3>4, LinkAt
    <2> QED
      BY <2>3, <2>4
  <1>3. ASSUME NEW i \in 1 .. n + 1, Begins(i).frame \notin damaged'
        PROVE  Begins(i)' = Begins(i)
    <2>1. CASE i = n + 1
      <3>1. Begins(n + 1) = [frame |-> count, at |-> wBytes]
        BY <1>n, <1>c, <1>1 DEF Begins, NextSent, NextAt
      <3> QED
        BY <1>1, <1>3, <2>1, <3>1
    <2>2. CASE i # n + 1
      <3>1. ~(i > Len(net)) /\ net' = net
        BY <1>n, <1>1, <2>2
      <3> QED
        BY <3>1 DEF Begins
    <2> QED
      BY <2>1, <2>2
  <1>4. Len(net') = n
    BY <1>n, <1>1
  <1> QED
    BY <1>n, <1>2, <1>3, <1>4 DEF StillBegins

\* The first datagram arrives.
LEMMA LinksOfMessage ==
  ASSUME TypeOK, TypeOK', LinkInv, Message
  PROVE  /\ \A i \in 0 .. Len(net') : Link(Ends(i), Begins(i + 1))'
         /\ StillBegins(2)
  <1>n. PICK n \in Nat : n = Len(net)
    BY Numbers
  <1>1. /\ n > 0 /\ Len(net') = n - 1 /\ \A i \in 1 .. n - 1 : net'[i] = net[i + 1]
        /\ NextSent' = NextSent /\ NextAt' = NextAt /\ net[1] = Head(net)
    <2>1. /\ Len(net) \in Nat \ {0} /\ Len(net') = Len(net) - 1
          /\ \A i \in 1 .. Len(net') : net'[i] = net[i + 1]
          /\ NextSent' = NextSent /\ NextAt' = NextAt
      BY Arrival
    <2>2. net[1] = Head(net)
      <3>1. net \in Seq(Datagram) /\ net # <<>>
        BY Zenon DEF TypeOK, Message
      <3> QED
        BY <3>1
    <2> QED
      BY <1>n, <2>1, <2>2
  <1>2. damaged' = damaged /\ latest' = Ends(1)
    <2>1. latest' = [frame |-> Head(net).frame, at |-> End(Head(net))] /\ damaged' = damaged
      BY DEF Message, faultVars
    <2> QED
      BY <1>1, <2>1 DEF Ends
  <1>b. ASSUME NEW i \in 0 .. n - 1
        PROVE  Begins(i + 1)' = Begins((i + 1) + 1)
    <2>1. CASE i = n - 1
      <3>1. PICK l : l = n - 1 /\ l = Len(net') /\ l + 1 = i + 1 /\ (i + 1) + 1 = Len(net) + 1
        BY <1>n, <1>1, <2>1
      <3>2. Begins(l + 1)' = Begins(Len(net) + 1)
        BY <1>1, <3>1, LastSpot
      <3> QED
        BY <3>1, <3>2
    <2>2. CASE i # n - 1
      <3>1. /\ i + 1 \in 1 .. Len(net') /\ (i + 1) + 1 \in 1 .. Len(net)
            /\ i + 1 \in 1 .. n - 1
        BY <1>n, <1>1, <2>2
      <3>2. net'[i + 1] = net[(i + 1) + 1]
        BY <1>1, <3>1
      <3> QED
        BY <3>1, <3>2, MovedSpot
    <2> QED
      BY <2>1, <2>2
  <1>3. ASSUME NEW i \in 0 .. n - 1
        PROVE  Link(Ends(i), Begins(i + 1))'
    <2>1. PICK end, begin : end = Ends(i + 1) /\ begin = Begins((i + 1) + 1)
      OBVIOUS
    <2>2. Ends(i)' = end
      <3>1. CASE i = 0
        BY <1>2, <2>1, <3>1 DEF Ends
      <3>2. CASE i # 0
        <4>1. i \in 1 .. Len(net') /\ i + 1 \in 1 .. Len(net) /\ net'[i] = net[i + 1]
          BY <1>n, <1>1, <3>2
        <4> QED
          BY <2>1, <4>1, MovedSpot
      <3> QED
        BY <3>1, <3>2
    <2>3. Begins(i + 1)' = begin
      BY <1>b, <2>1
    <2>4. Link(end, begin)
      <3>1. i + 1 \in 0 .. n
        BY <1>1
      <3> QED
        BY <1>n, <2>1, <3>1, Links
    <2>5. Link(end, begin)'
      BY <1>2, <2>4, LinkKept
    <2> QED
      BY <2>2, <2>3, <2>5, LinkAt
  <1>4. \A i \in 0 .. Len(net') : i \in 0 .. n - 1
    BY <1>1
  <1>5. ASSUME NEW i \in 2 .. n + 1
        PROVE  \E j \in 1 .. Len(net') + 1 : Begins(j)' = Begins(i)
    <2>1. PICK h \in 0 .. n - 1 : (h + 1) + 1 = i
      <3>1. i - 2 \in 0 .. n - 1 /\ ((i - 2) + 1) + 1 = i
        OBVIOUS
      <3> QED
        BY <3>1
    <2>2. Begins(h + 1)' = Begins(i)
      BY <1>b, <2>1
    <2>3. h + 1 \in 1 .. Len(net') + 1
      BY <1>1
    <2> QED
      BY <2>2, <2>3
  <1> QED
    BY <1>n, <1>3, <1>4, <1>5 DEF StillBegins

\* Ends(i) after a step that leaves the last datagram that has arrived.
LEMMA FirstSpot ==
  ASSUME latest' = latest
  PROVE  Ends(0)' = Ends(0)
  BY DEF Ends

\* A datagram is lost: what was in front of it and what was behind it meet.
LEMMA LinksOfLose ==
  ASSUME TypeOK, TypeOK', LinkInv, NEW x \in DOMAIN net, Lose(x),
         UNCHANGED <<senderVars, latest>>
  PROVE  /\ \A i \in 0 .. Len(net') : Link(Ends(i), Begins(i + 1))'
         /\ StillBegins(1)
  <1>n. PICK n \in Nat : n = Len(net) /\ x \in 1 .. n
    BY Numbers
  <1>1. /\ Len(net') = n - 1
        /\ \A i \in 1 .. n - 1 : net'[i] = IF i < x THEN net[i] ELSE net[i + 1]
    <2>1. net \in Seq(Datagram)
      BY Zenon DEF TypeOK
    <2>2. net' = RemoveAt(net, x) /\ x \in 1 .. Len(net)
      BY <1>n DEF Lose
    <2> QED
      BY <1>n, <2>1, <2>2, Removed
  <1>2. damaged \subseteq damaged' /\ net[x].frame \in damaged'
    BY DEF Lose, Fault
  <1>3. NextSent' = NextSent /\ NextAt' = NextAt
    BY DEF senderVars, NextSent, NextAt
  <1>4. \A i \in 0 .. n - 1 : Ends(i)' = IF i < x THEN Ends(i) ELSE Ends(i + 1)
    <2> TAKE i \in 0 .. n - 1
    <2>1. CASE i = 0
      BY <1>n, <2>1, FirstSpot
    <2>2. CASE i # 0
      <3>1. /\ i \in 1 .. Len(net') /\ i \in 1 .. n - 1
            /\ i \in 1 .. Len(net) /\ i + 1 \in 1 .. Len(net)
        BY <1>n, <1>1, <2>2
      <3>2. net'[i] = IF i < x THEN net[i] ELSE net[i + 1]
        BY <1>1, <3>1
      <3> QED
        BY <3>1, <3>2, MovedSpot
    <2> QED
      BY <2>1, <2>2
  <1>5. \A i \in 0 .. n - 1 :
          Begins(i + 1)' = IF i + 1 < x THEN Begins(i + 1) ELSE Begins((i + 1) + 1)
    <2> TAKE i \in 0 .. n - 1
    <2>1. CASE i = n - 1
      <3>1. PICK l : l = n - 1 /\ l = Len(net') /\ l + 1 = i + 1
        BY <1>1, <2>1
      <3>2. Begins(l + 1)' = Begins(Len(net) + 1)
        BY <1>3, <3>1, LastSpot
      <3>3. ~(i + 1 < x) /\ (i + 1) + 1 = Len(net) + 1
        BY <1>n, <2>1
      <3> QED
        BY <3>1, <3>2, <3>3
    <2>2. CASE i # n - 1
      <3>1. /\ i + 1 \in 1 .. Len(net') /\ i + 1 \in 1 .. n - 1 /\ i + 1 \in 1 .. Len(net)
            /\ (i + 1) + 1 \in 1 .. Len(net)
        BY <1>n, <1>1, <2>2
      <3>2. net'[i + 1] = IF i + 1 < x THEN net[i + 1] ELSE net[(i + 1) + 1]
        BY <1>1, <3>1
      <3> QED
        BY <3>1, <3>2, MovedSpot
    <2> QED
      BY <2>1, <2>2
  <1>6. ASSUME NEW i \in 0 .. n - 1
        PROVE  Link(Ends(i), Begins(i + 1))'
    <2>1. PICK end, begin : end = Ends(i)' /\ begin = Begins(i + 1)'
      OBVIOUS
    <2>2. CASE i + 1 < x
      <3>1. i < x /\ i \in 0 .. n
        BY <1>n, <2>2
      <3>2. end = Ends(i) /\ begin = Begins(i + 1)
        BY <1>4, <1>5, <2>1, <2>2, <3>1
      <3>3. Link(end, begin)
        BY <1>n, <3>1, <3>2, Links
      <3>4. Link(end, begin)'
        BY <1>2, <3>3, LinkKept
      <3> QED
        BY <2>1, <3>4, LinkAt
    <2>3. CASE i + 1 = x
      <3>1. i < x /\ i \in 0 .. n /\ x \in 0 .. n /\ ~(i + 1 < x)
        BY <1>n, <2>3
      <3>2. end = Ends(i) /\ begin = Begins(x + 1)
        BY <1>4, <1>5, <2>1, <2>3, <3>1
      <3>3. PICK b, e : b = Begins(x) /\ e = Ends(x)
        OBVIOUS
      <3>4. /\ Link(end, b) /\ Link(e, begin)
            /\ end \in Spot /\ b \in Spot /\ e \in Spot /\ begin \in Spot
            /\ b.frame = net[x].frame /\ e.frame = net[x].frame
        BY <1>n, <2>3, <3>1, <3>2, <3>3, Links
      <3>5. EndHit(end)'
        BY <1>2, <3>4, LinkToHit
      <3>6. BeginHit(begin)'
        BY <1>2, <3>4, LinkFromHit
      <3>7. Link(end, begin)'
        BY <3>4, <3>5, <3>6, HitLink
      <3> QED
        BY <2>1, <3>7, LinkAt
    <2>4. CASE i + 1 > x
      <3>1. ~(i < x) /\ i + 1 \in 0 .. n /\ ~(i + 1 < x)
        BY <1>n, <2>4
      <3>2. end = Ends(i + 1) /\ begin = Begins((i + 1) + 1)
        BY <1>4, <1>5, <2>1, <3>1
      <3>3. Link(end, begin)
        BY <1>n, <3>1, <3>2, Links
      <3>4. Link(end, begin)'
        BY <1>2, <3>3, LinkKept
      <3> QED
        BY <2>1, <3>4, LinkAt
    <2>5. i + 1 < x \/ i + 1 = x \/ i + 1 > x
      BY <1>n
    <2> QED
      BY <2>2, <2>3, <2>4, <2>5
  <1>7. \A i \in 0 .. Len(net') : i \in 0 .. n - 1
    BY <1>1
  <1>8. ASSUME NEW i \in 1 .. n + 1, Begins(i).frame \notin damaged'
        PROVE  \E j \in 1 .. Len(net') + 1 : Begins(j)' = Begins(i)
    <2>1. CASE i < x
      <3>1. PICK h \in 0 .. n - 1 : h + 1 = i
        <4>1. i - 1 \in 0 .. n - 1 /\ (i - 1) + 1 = i
          BY <1>n, <2>1
        <4> QED
          BY <4>1
      <3>2. Begins(i)' = Begins(i)
        BY <1>5, <2>1, <3>1
      <3>3. i \in 1 .. Len(net') + 1
        BY <1>n, <1>1, <2>1
      <3> QED
        BY <3>2, <3>3
    <2>2. CASE i = x
      <3>1. Begins(x).frame = net[x].frame
        BY <1>n, Links
      <3> QED
        BY <1>2, <1>8, <2>2, <3>1
    <2>3. CASE i > x
      <3>1. PICK h \in 0 .. n - 1 : (h + 1) + 1 = i /\ ~(h + 1 < x)
        <4>1. i - 2 \in 0 .. n - 1 /\ ((i - 2) + 1) + 1 = i /\ ~((i - 2) + 1 < x)
          BY <1>n, <2>3
        <4> QED
          BY <4>1
      <3>2. Begins(h + 1)' = Begins(i) /\ h + 1 \in 1 .. Len(net') + 1
        BY <1>n, <1>1, <1>5, <3>1
      <3> QED
        BY <3>2
    <2>4. i < x \/ i = x \/ i > x
      BY <1>n
    <2> QED
      BY <2>1, <2>2, <2>3, <2>4
  <1> QED
    BY <1>n, <1>6, <1>7, <1>8 DEF StillBegins

\* A datagram is repeated: it follows itself.
LEMMA LinksOfRepeat ==
  ASSUME TypeOK, TypeOK', LinkInv, NEW x \in DOMAIN net, Repeat(x),
         UNCHANGED <<senderVars, latest>>
  PROVE  /\ \A i \in 0 .. Len(net') : Link(Ends(i), Begins(i + 1))'
         /\ StillBegins(1)
  <1>n. PICK n \in Nat : n = Len(net) /\ x \in 1 .. n
    BY Numbers
  <1>1. /\ Len(net') = n + 1
        /\ \A i \in 1 .. n + 1 : net'[i] = IF i <= x THEN net[i] ELSE net[i - 1]
    <2>1. net \in Seq(Datagram)
      BY Zenon DEF TypeOK
    <2>2. net' = InsertAt(net, x, net[x]) /\ x \in 1 .. Len(net)
      BY <1>n DEF Repeat
    <2> QED
      BY <1>n, <2>1, <2>2, Repeated
  <1>2. damaged \subseteq damaged' /\ net[x].frame \in damaged'
    BY DEF Repeat, Fault
  <1>3. NextSent' = NextSent /\ NextAt' = NextAt
    BY DEF senderVars, NextSent, NextAt
  <1>4. \A i \in 0 .. n + 1 : Ends(i)' = IF i <= x THEN Ends(i) ELSE Ends(i - 1)
    <2> TAKE i \in 0 .. n + 1
    <2>1. CASE i = 0
      BY <1>n, <2>1, FirstSpot
    <2>2. CASE i # 0
      <3>1. /\ i \in 1 .. Len(net') /\ i \in 1 .. n + 1
            /\ i <= x => i \in 1 .. Len(net)
            /\ ~(i <= x) => i - 1 \in 1 .. Len(net)
        BY <1>n, <1>1, <2>2
      <3>2. net'[i] = IF i <= x THEN net[i] ELSE net[i - 1]
        BY <1>1, <3>1
      <3> QED
        BY <3>1, <3>2, MovedSpot
    <2> QED
      BY <2>1, <2>2
  <1>5. \A i \in 0 .. n + 1 : Begins(i + 1)' = IF i + 1 <= x THEN Begins(i + 1) ELSE Begins(i)
    <2> TAKE i \in 0 .. n + 1
    <2>1. CASE i = n + 1
      <3>1. PICK l : l = n + 1 /\ l = Len(net') /\ l + 1 = i + 1
        BY <1>1, <2>1
      <3>2. Begins(l + 1)' = Begins(Len(net) + 1)
        BY <1>3, <3>1, LastSpot
      <3>3. ~(i + 1 <= x) /\ i = Len(net) + 1
        BY <1>n, <2>1
      <3> QED
        BY <3>1, <3>2, <3>3
    <2>2. CASE i # n + 1
      <3>1. /\ i + 1 \in 1 .. Len(net') /\ i + 1 \in 1 .. n + 1 /\ (i + 1) - 1 = i
            /\ i + 1 <= x => i + 1 \in 1 .. Len(net)
            /\ ~(i + 1 <= x) => i \in 1 .. Len(net)
        BY <1>n, <1>1, <2>2
      <3>2. net'[i + 1] = IF i + 1 <= x THEN net[i + 1] ELSE net[i]
        BY <1>1, <3>1
      <3> QED
        BY <3>1, <3>2, MovedSpot
    <2> QED
      BY <2>1, <2>2
  <1>6. ASSUME NEW i \in 0 .. n + 1
        PROVE  Link(Ends(i), Begins(i + 1))'
    <2>1. PICK end, begin : end = Ends(i)' /\ begin = Begins(i + 1)'
      OBVIOUS
    <2>2. CASE i < x
      <3>1. i <= x /\ i + 1 <= x /\ i \in 0 .. n
        BY <1>n, <2>2
      <3>2. end = Ends(i) /\ begin = Begins(i + 1)
        BY <1>4, <1>5, <2>1, <3>1
      <3>3. Link(end, begin)
        BY <1>n, <3>1, <3>2, Links
      <3>4. Link(end, begin)'
        BY <1>2, <3>3, LinkKept
      <3> QED
        BY <2>1, <3>4, LinkAt
    <2>3. CASE i = x
      <3>1. i <= x /\ ~(i + 1 <= x)
        BY <1>n, <2>3
      <3>2. end = Ends(x) /\ begin = Begins(x)
        BY <1>4, <1>5, <2>1, <2>3, <3>1
      <3>3. /\ end \in Spot /\ begin \in Spot
            /\ end.frame = net[x].frame /\ begin.frame = net[x].frame
        BY <1>n, <3>2, Links
      <3>4. EndHit(end)' /\ BeginHit(begin)'
        BY <1>2, <3>3 DEF EndHit, BeginHit
      <3>5. Link(end, begin)'
        BY <3>3, <3>4, HitLink
      <3> QED
        BY <2>1, <3>5, LinkAt
    <2>4. CASE i > x
      <3>1. ~(i <= x) /\ ~(i + 1 <= x) /\ i - 1 \in 0 .. n /\ (i - 1) + 1 = i
        BY <1>n, <2>4
      <3>2. end = Ends(i - 1) /\ begin = Begins((i - 1) + 1)
        BY <1>4, <1>5, <2>1, <3>1
      <3>3. Link(end, begin)
        BY <1>n, <3>1, <3>2, Links
      <3>4. Link(end, begin)'
        BY <1>2, <3>3, LinkKept
      <3> QED
        BY <2>1, <3>4, LinkAt
    <2>5. i < x \/ i = x \/ i > x
      BY <1>n
    <2> QED
      BY <2>2, <2>3, <2>4, <2>5
  <1>7. \A i \in 0 .. Len(net') : i \in 0 .. n + 1
    BY <1>1
  <1>8. ASSUME NEW i \in 1 .. n + 1
        PROVE  \E j \in 1 .. Len(net') + 1 : Begins(j)' = Begins(i)
    <2>1. CASE i <= x
      <3>1. PICK h \in 0 .. n + 1 : h + 1 = i
        <4>1. i - 1 \in 0 .. n + 1 /\ (i - 1) + 1 = i
          BY <1>n, <2>1
        <4> QED
          BY <4>1
      <3>2. Begins(i)' = Begins(i)
        BY <1>5, <2>1, <3>1
      <3>3. i \in 1 .. Len(net') + 1
        BY <1>n, <1>1, <2>1
      <3> QED
        BY <3>2, <3>3
    <2>2. CASE i > x
      <3>1. i \in 0 .. n + 1 /\ ~(i + 1 <= x)
        BY <1>n, <2>2
      <3>2. Begins(i + 1)' = Begins(i)
        BY <1>5, <3>1
      <3>3. i + 1 \in 1 .. Len(net') + 1
        BY <1>n, <1>1
      <3> QED
        BY <3>2, <3>3
    <2>3. i <= x \/ i > x
      BY <1>n
    <2> QED
      BY <2>1, <2>2, <2>3
  <1> QED
    BY <1>n, <1>6, <1>7, <1>8 DEF StillBegins

\* Two datagrams change places.
LEMMA LinksOfOvertake ==
  ASSUME TypeOK, TypeOK', LinkInv, NEW x \in DOMAIN net, Overtake(x),
         UNCHANGED <<senderVars, latest>>
  PROVE  /\ \A i \in 0 .. Len(net') : Link(Ends(i), Begins(i + 1))'
         /\ StillBegins(1)
  <1>n. PICK n \in Nat, y \in Nat : n = Len(net) /\ x \in 2 .. n /\ y = x - 1
    <2>1. Len(net) \in Nat /\ x \in 1 .. Len(net) /\ x > 1
      BY Numbers DEF Overtake
    <2>2. x \in 2 .. Len(net) /\ x - 1 \in Nat
      BY <2>1
    <2> QED
      BY <2>1, <2>2
  <1>y. y + 1 = x /\ x \in 1 .. n /\ y \in 1 .. n /\ y # x /\ y \in Int /\ x \in Int
    BY <1>n
  <1>1. /\ Len(net') = n
        /\ \A i \in 1 .. n : net'[i] = IF i = x THEN net[y] ELSE IF i = y THEN net[x] ELSE net[i]
    <2>1. net \in Seq(Datagram)
      BY Zenon DEF TypeOK
    <2>2. net' = [net EXCEPT ![x] = net[x - 1], ![x - 1] = net[x]] /\ x \in 2 .. Len(net)
      BY <1>n DEF Overtake
    <2>3. /\ Len(net') = Len(net)
          /\ \A i \in 1 .. Len(net) :
               net'[i] = IF i = x THEN net[x - 1] ELSE IF i = x - 1 THEN net[x] ELSE net[i]
      BY <2>1, <2>2, Swapped
    <2> QED
      BY <1>n, <2>3, Zenon
  <1>2. damaged \subseteq damaged' /\ net[x].frame \in damaged' /\ net[y].frame \in damaged'
    BY <1>n DEF Overtake, Fault
  <1>3. NextSent' = NextSent /\ NextAt' = NextAt
    BY DEF senderVars, NextSent, NextAt
  <1>4. \A i \in 0 .. n :
          Ends(i)' = IF i = x THEN Ends(y) ELSE IF i = y THEN Ends(x) ELSE Ends(i)
    <2> TAKE i \in 0 .. n
    <2>1. CASE i = 0
      BY <1>y, <2>1, FirstSpot
    <2>2. CASE i # 0
      <3>1. /\ i \in 1 .. Len(net') /\ i \in 1 .. n
            /\ i \in 1 .. Len(net) /\ x \in 1 .. Len(net) /\ y \in 1 .. Len(net)
        BY <1>n, <1>y, <1>1, <2>2
      <3>2. net'[i] = IF i = x THEN net[y] ELSE IF i = y THEN net[x] ELSE net[i]
        BY <1>1, <3>1
      <3> QED
        BY <3>1, <3>2, MovedSpot
    <2> QED
      BY <2>1, <2>2
  <1>5. \A i \in 1 .. n + 1 :
          Begins(i)' = IF i = x THEN Begins(y) ELSE IF i = y THEN Begins(x) ELSE Begins(i)
    <2> TAKE i \in 1 .. n + 1
    <2>1. CASE i = n + 1
      <3>1. n = Len(net') /\ n = Len(net)
        BY <1>n, <1>1
      <3>2. Begins(n + 1)' = Begins(Len(net) + 1)
        BY <1>3, <3>1, LastSpot
      <3>3. i # x /\ i # y
        BY <1>n, <1>y, <2>1
      <3> QED
        BY <2>1, <3>1, <3>2, <3>3
    <2>2. CASE i # n + 1
      <3>1. /\ i \in 1 .. Len(net') /\ i \in 1 .. n
            /\ i \in 1 .. Len(net) /\ x \in 1 .. Len(net) /\ y \in 1 .. Len(net)
        BY <1>n, <1>y, <1>1, <2>2
      <3>2. net'[i] = IF i = x THEN net[y] ELSE IF i = y THEN net[x] ELSE net[i]
        BY <1>1, <3>1
      <3> QED
        BY <3>1, <3>2, MovedSpot
    <2> QED
      BY <2>1, <2>2
  <1>s. PICK ex, bx, ey, by :
          ex = Ends(x) /\ bx = Begins(x) /\ ey = Ends(y) /\ by = Begins(y)
    OBVIOUS
  <1>h. /\ ex \in Spot /\ bx \in Spot /\ ey \in Spot /\ by \in Spot
        /\ ex.frame \in damaged' /\ bx.frame \in damaged'
        /\ ey.frame \in damaged' /\ by.frame \in damaged'
    <2>1. /\ ex \in Spot /\ bx \in Spot /\ ey \in Spot /\ by \in Spot
          /\ ex.frame = net[x].frame /\ bx.frame = net[x].frame
          /\ ey.frame = net[y].frame /\ by.frame = net[y].frame
      BY <1>n, <1>y, <1>s, Links
    <2> QED
      BY <1>2, <2>1
  <1>e. EndHit(ex)' /\ EndHit(ey)' /\ BeginHit(bx)' /\ BeginHit(by)'
    BY <1>h DEF EndHit, BeginHit
  <1>6. ASSUME NEW i \in 0 .. n
        PROVE  Link(Ends(i), Begins(i + 1))'
    <2>1. PICK end, begin : end = Ends(i)' /\ begin = Begins(i + 1)'
      OBVIOUS
    <2>2. CASE i + 1 = y
      <3>1. i # x /\ i # y /\ i + 1 # x /\ i + 1 \in 1 .. n + 1
        BY <1>y, <2>2
      <3>2. end = Ends(i) /\ begin = bx
        BY <1>4, <1>5, <1>s, <2>1, <2>2, <3>1
      <3>3. Link(end, by) /\ end \in Spot
        BY <1>n, <1>s, <2>2, <3>2, Links
      <3>4. EndHit(end)'
        BY <1>2, <1>h, <3>3, LinkToHit
      <3>5. Link(end, begin)'
        BY <1>h, <1>e, <3>2, <3>3, <3>4, HitLink
      <3> QED
        BY <2>1, <3>5, LinkAt
    <2>3. CASE i = y
      <3>1. i # x /\ i + 1 = x /\ i + 1 \in 1 .. n + 1
        BY <1>y, <2>3
      <3>2. end = ex /\ begin = by
        BY <1>4, <1>5, <1>s, <2>1, <2>3, <3>1
      <3>3. Link(end, begin)'
        BY <1>h, <1>e, <3>2, HitLink
      <3> QED
        BY <2>1, <3>3, LinkAt
    <2>4. CASE i = x
      <3>1. i # y /\ i + 1 # x /\ i + 1 # y /\ i + 1 \in 1 .. n + 1
        BY <1>y, <2>4
      <3>2. end = ey /\ begin = Begins(x + 1)
        BY <1>4, <1>5, <1>s, <2>1, <2>4, <3>1
      <3>3. Link(ex, begin) /\ begin \in Spot
        BY <1>n, <1>s, <2>4, <3>2, Links
      <3>4. BeginHit(begin)'
        BY <1>2, <1>h, <3>3, LinkFromHit
      <3>5. Link(end, begin)'
        BY <1>h, <1>e, <3>2, <3>3, <3>4, HitLink
      <3> QED
        BY <2>1, <3>5, LinkAt
    <2>5. CASE i # x /\ i # y /\ i + 1 # y
      <3>1. i + 1 # x /\ i + 1 \in 1 .. n + 1
        BY <1>y, <2>5
      <3>2. end = Ends(i) /\ begin = Begins(i + 1)
        BY <1>4, <1>5, <2>1, <2>5, <3>1
      <3>3. Link(end, begin)
        BY <1>n, <3>2, Links
      <3>4. Link(end, begin)'
        BY <1>2, <3>3, LinkKept
      <3> QED
        BY <2>1, <3>4, LinkAt
    <2> QED
      BY <2>2, <2>3, <2>4, <2>5
  <1>7. ASSUME NEW i \in 1 .. n + 1, Begins(i).frame \notin damaged'
        PROVE  \E j \in 1 .. Len(net') + 1 : Begins(j)' = Begins(i)
    <2>1. i # x /\ i # y
      BY <1>7, <1>s, <1>h
    <2>2. Begins(i)' = Begins(i)
      BY <1>5, <2>1
    <2> QED
      BY <1>1, <2>2
  <1> QED
    BY <1>n, <1>1, <1>6, <1>7 DEF StillBegins

\* A fault of the network.
LEMMA LinksOfNetwork ==
  ASSUME TypeOK, TypeOK', LinkInv, NetworkFault
  PROVE  /\ \A i \in 0 .. Len(net') : Link(Ends(i), Begins(i + 1))'
         /\ StillBegins(1)
         /\ \A i \in DOMAIN net' : \E j \in DOMAIN net : net'[i] = net[j]
  <1>1. PICK x \in DOMAIN net : Lose(x) \/ Overtake(x) \/ Repeat(x)
    BY DEF NetworkFault
  <1>2. UNCHANGED <<senderVars, latest>>
    BY DEF NetworkFault
  <1>3. \A i \in DOMAIN net' : \E j \in DOMAIN net : net'[i] = net[j]
    <2>n. PICK n \in Nat : n = Len(net) /\ DOMAIN net = 1 .. n /\ x \in 1 .. n
      BY Numbers
    <2>t. net \in Seq(Datagram) /\ net' \in Seq(Datagram) /\ x \in 1 .. Len(net)
      BY <2>n, Zenon DEF TypeOK
    <2>d. DOMAIN net' = 1 .. Len(net')
      BY <2>t
    <2>1. CASE Lose(x)
      <3>1. net' = RemoveAt(net, x)
        BY <2>1 DEF Lose
      <3>2. /\ Len(net') = n - 1
            /\ \A i \in 1 .. n - 1 : net'[i] = IF i < x THEN net[i] ELSE net[i + 1]
        BY <2>n, <2>t, <3>1, Removed
      <3>3. \A i \in 1 .. n - 1 : i \in 1 .. n /\ i + 1 \in 1 .. n
        BY <2>n
      <3> QED
        BY <2>n, <2>d, <3>2, <3>3
    <2>2. CASE Repeat(x)
      <3>1. net' = InsertAt(net, x, net[x])
        BY <2>2 DEF Repeat
      <3>2. /\ Len(net') = n + 1
            /\ \A i \in 1 .. n + 1 : net'[i] = IF i <= x THEN net[i] ELSE net[i - 1]
        BY <2>n, <2>t, <3>1, Repeated
      <3>3. \A i \in 1 .. n + 1 : (i <= x => i \in 1 .. n) /\ (~(i <= x) => i - 1 \in 1 .. n)
        BY <2>n
      <3> QED
        BY <2>n, <2>d, <3>2, <3>3
    <2>3. CASE Overtake(x)
      <3>1. /\ net' = [net EXCEPT ![x] = net[x - 1], ![x - 1] = net[x]]
            /\ x \in 2 .. Len(net) /\ x - 1 \in 1 .. n
        BY <2>3, <2>n DEF Overtake
      <3>2. /\ Len(net') = Len(net)
            /\ \A i \in 1 .. Len(net) :
                 net'[i] = IF i = x THEN net[x - 1] ELSE IF i = x - 1 THEN net[x] ELSE net[i]
        BY <2>t, <3>1, Swapped
      <3> QED
        BY <2>n, <2>d, <3>1, <3>2
    <2> QED
      BY <1>1, <2>1, <2>2, <2>3
  <1> QED
    BY <1>1, <1>2, <1>3, LinksOfLose, LinksOfRepeat, LinksOfOvertake

\* What was sent, pushed or hit stays so, and a new picture is the next to be sent.
LEMMA Grown ==
  ASSUME TypeOK, FramesInv, Next
  PROVE  /\ Len(pictures) \in Nat /\ Len(pictures') \in Nat /\ Len(pictures) <= Len(pictures')
         /\ DOMAIN pictures = 1 .. Len(pictures)
         /\ \A p \in DOMAIN pictures : pictures'[p] = pictures[p] /\ frames'[p] = frames[p]
         /\ damaged \subseteq damaged'
         /\ Range(pushed) \subseteq Range(pushed')
         /\ ~NextFrame => UNCHANGED <<pictures, frames>>
  <1>1. /\ Len(pictures) \in Nat /\ DOMAIN pictures = 1 .. Len(pictures)
        /\ pushed \in Seq(Seq(Byte))
    BY Histories
  <1>2. damaged \subseteq damaged'
    <2>1. \A hit : Fault(hit) => damaged \subseteq damaged'
      BY DEF Fault
    <2> QED
      BY <2>1, Zenon DEF Next, NextFrame, SendTo, SendFails, NetworkFault, Lose, Overtake, Repeat,
                   Message, Push, Restart, Connect, Close, faultVars
  <1>3. Range(pushed) \subseteq Range(pushed')
    <2>1. CASE Push
      <3>1. PICK f \in Seq(Byte) : Deliver(f)
        BY <2>1, PushWhole
      <3>2. pushed' = Append(pushed, f)
        BY <3>1 DEF Deliver
      <3>3. /\ DOMAIN pushed \subseteq DOMAIN pushed'
            /\ \A i \in DOMAIN pushed : pushed'[i] = pushed[i]
        BY <1>1, <3>2
      <3> QED
        BY <3>3 DEF Range
    <2>2. CASE ~Push
      <3>1. pushed' = pushed
        BY <2>2, Zenon DEF Next, NextFrame, SendTo, SendFails, NetworkFault, Message, Restart,
                     Connect, Close
      <3> QED
        BY <3>1
    <2> QED
      BY <2>1, <2>2
  <1>4. ~NextFrame => UNCHANGED <<pictures, frames>>
    BY Zenon DEF Next, SendTo, SendFails, NetworkFault, Message, Push, Restart, Connect, Close,
             senderVars
  <1>5. CASE NextFrame
    <2>1. /\ Len(pictures') = Len(pictures) + 1
          /\ \A p \in DOMAIN pictures : pictures'[p] = pictures[p] /\ frames'[p] = frames[p]
      BY <1>5, FrameAppended
    <2>2. Len(pictures') \in Nat /\ Len(pictures) <= Len(pictures')
      BY <1>1, <2>1
    <2> QED
      BY <1>1, <1>2, <1>3, <1>5, <2>1, <2>2
  <1>6. CASE ~NextFrame
    BY <1>1, <1>2, <1>3, <1>4, <1>6
  <1> QED
    BY <1>5, <1>6

\* What a datagram carries stays genuine.
LEMMA GenuineKept ==
  ASSUME TypeOK, TypeOK', FramesInv, Next, LinkInv,
         NEW i \in DOMAIN net', NEW j \in DOMAIN net, net'[i] = net[j]
  PROVE  Genuine(net[i])'
  <1>1. /\ net[j].frame <= Len(pictures)
        /\ \A x \in DOMAIN net[j].data : net[j].data[x] = frames[net[j].frame][net[j].at + x]
    BY DEF LinkInv, Genuine
  <1>2. net[j].frame \in Nat \ {0}
    BY Numbers
  <1>3. /\ Len(pictures) \in Nat /\ Len(pictures') \in Nat /\ Len(pictures) <= Len(pictures')
        /\ DOMAIN pictures = 1 .. Len(pictures)
        /\ \A p \in DOMAIN pictures : pictures'[p] = pictures[p] /\ frames'[p] = frames[p]
    BY Grown
  <1>4. net[j].frame \in DOMAIN pictures /\ net[j].frame <= Len(pictures')
    BY <1>1, <1>2, <1>3
  <1>5. frames'[net[j].frame] = frames[net[j].frame]
    BY <1>3, <1>4
  <1> QED
    BY <1>1, <1>4, <1>5 DEF Genuine

\* Every step keeps the datagrams linked.
LEMMA LinkStep ==
  ASSUME TypeOK, TypeOK', FramesInv, LinkInv, Next
  PROVE  LinkInv'
  <1>g. /\ Len(pictures) \in Nat /\ Len(pictures') \in Nat /\ Len(pictures) <= Len(pictures')
        /\ damaged \subseteq damaged'
        /\ ~NextFrame => UNCHANGED <<pictures, frames>>
    BY Grown
  <1>n. /\ DOMAIN net = 1 .. Len(net) /\ Len(net) \in Nat
        /\ DOMAIN net' = 1 .. Len(net') /\ Len(net') \in Nat
    <2>1. net \in Seq(Datagram) /\ net' \in Seq(Datagram)
      BY Zenon DEF TypeOK
    <2> QED
      BY <2>1
  <1>1. \A i \in 0 .. Len(net') : Link(Ends(i), Begins(i + 1))'
    <2>1. CASE NextFrame
      <3>1. UNCHANGED <<net, latest>> /\ NextSent' = NextSent /\ NextAt' = NextAt
        <4>1. UNCHANGED <<net, latest>>
          BY <2>1 DEF NextFrame
        <4> QED
          BY <2>1, <4>1, FrameAppended
      <3> QED
        BY <1>g, <3>1, LinksStay
    <2>2. CASE SendTo
      BY <2>2, LinksOfSend
    <2>3. CASE SendFails
      BY <2>3, LinksOfSendFails
    <2>4. CASE NetworkFault
      BY <2>4, LinksOfNetwork
    <2>5. CASE Message
      BY <2>5, LinksOfMessage
    <2>6. CASE Push \/ Restart \/ \E c \in Client : Connect(c) \/ Close(c)
      <3>1. UNCHANGED <<net, latest, senderVars>>
        BY <2>6 DEF Push, Restart, Connect, Close
      <3>2. NextSent' = NextSent /\ NextAt' = NextAt
        BY <3>1 DEF senderVars, NextSent, NextAt
      <3> QED
        BY <1>g, <3>1, <3>2, LinksStay
    <2> QED
      BY <2>1, <2>2, <2>3, <2>4, <2>5, <2>6 DEF Next
  <1>2. \A i \in DOMAIN net' : Genuine(net[i])'
    <2> SUFFICES ASSUME NEW i \in DOMAIN net'
                 PROVE  Genuine(net[i])'
      OBVIOUS
    <2>1. CASE \E j \in DOMAIN net : net'[i] = net[j]
      BY <2>1, GenuineKept
    <2>2. CASE SendTo
      <3>1. PICK d \in Datagram :
              /\ net' = Append(net, d)
              /\ d.frame = NextSent /\ d.at = NextAt /\ d.frame = Len(pictures)
              /\ \A j \in DOMAIN d.data : d.data[j] = frames[d.frame][d.at + j]
              /\ Follows(d.frame, End(d), NextSent', NextAt')
        BY <2>2, DatagramSent
      <3>2. net \in Seq(Datagram)
        BY Zenon DEF TypeOK
      <3>3. net'[i] = d \/ \E j \in DOMAIN net : net'[i] = net[j]
        BY <1>n, <3>1, <3>2
      <3>4. CASE net'[i] = d
        <4>1. UNCHANGED <<pictures, frames>>
          BY <2>2 DEF SendTo
        <4> QED
          BY <1>g, <3>1, <3>4, <4>1 DEF Genuine
      <3> QED
        BY <2>1, <3>3, <3>4
    <2>3. CASE NetworkFault
      BY <2>1, <2>3, LinksOfNetwork
    <2>4. CASE Message
      <3>1. /\ Len(net') = Len(net) - 1
            /\ \A j \in 1 .. Len(net') : net'[j] = net[j + 1]
        BY <2>4, Arrival
      <3>2. i + 1 \in DOMAIN net /\ net'[i] = net[i + 1]
        BY <1>n, <3>1
      <3> QED
        BY <2>1, <3>2
    <2>5. CASE ~SendTo /\ ~NetworkFault /\ ~Message
      <3>1. net' = net
        BY <2>5, Zenon DEF Next, NextFrame, SendFails, Push, Restart, Connect, Close
      <3> QED
        BY <2>1, <3>1
    <2> QED
      BY <2>2, <2>3, <2>4, <2>5
  <1>3. latest'.frame <= Len(pictures') /\ (latest'.frame = 0 => latest'.at = FRAME_SIZE)
    <2>1. CASE Message
      <3>1. net # <<>> /\ net[1] \in Datagram /\ 1 \in DOMAIN net /\ UNCHANGED pictures
        BY <2>1, Arrival
      <3>2. net[1] = Head(net)
        <4>1. net \in Seq(Datagram) /\ net # <<>>
          BY <3>1, Zenon DEF TypeOK
        <4> QED
          BY <4>1
      <3>3. latest'.frame = net[1].frame
        BY <2>1, <3>2 DEF Message
      <3>4. net[1].frame <= Len(pictures) /\ net[1].frame # 0
        <4>1. net[1].frame <= Len(pictures)
          BY <3>1 DEF LinkInv, Genuine
        <4> QED
          BY <3>1, <4>1, Numbers
      <3> QED
        BY <3>1, <3>3, <3>4
    <2>2. CASE ~Message
      <3>1. latest' = latest
        BY <2>2, Zenon DEF Next, NextFrame, SendTo, SendFails, NetworkFault, Push, Restart,
                     Connect, Close
      <3>2. latest.frame <= Len(pictures) /\ (latest.frame = 0 => latest.at = FRAME_SIZE)
        BY DEF LinkInv
      <3>3. latest.frame \in Nat
        <4>1. latest \in [frame : 0 .. MAX_FRAMES, at : 1 .. FRAME_SIZE]
          BY Zenon DEF TypeOK
        <4> QED
          BY <4>1
      <3> QED
        BY <1>g, <3>1, <3>2, <3>3
    <2> QED
      BY <2>1, <2>2
  <1> QED
    BY <1>1, <1>2, <1>3 DEF LinkInv

-----------------------------------------------------------------------------
(* What the viewer keeps of frames that were not hit.                       *)

\* What the viewer keeps stays what it is while it changes nothing.
LEMMA KeepsStay ==
  ASSUME TypeOK, FramesInv, Next, frameBuffer' = frameBuffer,
         NEW k \in 0 .. Len(pictures), NEW m \in 1 .. FRAME_SIZE, k = 0 => m = FRAME_SIZE
  PROVE  /\ KeepsRest(k, m) => KeepsRest(k, m)'
         /\ KeepsFrame(k, m) => KeepsFrame(k, m)'
  <1>1. /\ Len(pictures) \in Nat /\ DOMAIN pictures = 1 .. Len(pictures)
        /\ \A p \in DOMAIN pictures : pictures'[p] = pictures[p] /\ frames'[p] = frames[p]
        /\ damaged \subseteq damaged'
    BY Grown
  <1>2. Length(k)' = Length(k) /\ (k # 0 => frames'[k] = frames[k])
    BY <1>1 DEF Length
  <1>3. ASSUME KeepsRest(k, m)
        PROVE  KeepsRest(k, m)'
    <2>1. /\ Length(k) <= m /\ Len(frameBuffer) = m - Length(k)
          /\ \A i \in DOMAIN frameBuffer : frameBuffer[i] = frames[k][Length(k) + i]
      BY <1>3 DEF KeepsRest
    <2>2. CASE k = 0
      <3>1. Length(k) = FRAME_SIZE
        BY <2>2 DEF Length
      <3>2. DOMAIN frameBuffer = {}
        <4>1. Len(frameBuffer) = 0
          BY <2>1, <2>2, <3>1
        <4>2. DOMAIN frameBuffer = 1 .. Len(frameBuffer)
          BY Histories
        <4> QED
          BY <4>1, <4>2
      <3> QED
        BY <1>2, <2>1, <3>2 DEF KeepsRest
    <2>3. CASE k # 0
      BY <1>2, <2>1, <2>3 DEF KeepsRest
    <2> QED
      BY <2>2, <2>3
  <1>4. ASSUME KeepsFrame(k, m)
        PROVE  KeepsFrame(k, m)'
    <2>1. PICK before : before = Len(frameBuffer) - m
      OBVIOUS
    <2>2. /\ k > 0 /\ before >= 0
          /\ \A i \in 1 .. m : frameBuffer[before + i] = frames[k][i]
          /\ \A s \in Places(frameBuffer, startMarker, 1) :
               /\ \A e \in Places(frameBuffer, endMarker, s) : e >= before + Length(k) - 1
               /\ k - 1 \notin damaged => s > before
      BY <1>4, <2>1 DEF KeepsFrame
    <2>3. Places(frameBuffer, startMarker, 1)' = Places(frameBuffer, startMarker, 1)
      BY DEF Places, IsAt
    <2>4. \A s : Places(frameBuffer, endMarker, s)' = Places(frameBuffer, endMarker, s)
      BY DEF Places, IsAt
    <2>5. k - 1 \notin damaged' => k - 1 \notin damaged
      BY <1>1
    <2>6. frames'[k] = frames[k] /\ Len(frameBuffer') - m = before
      BY <1>2, <2>1, <2>2
    <2> QED
      BY <1>2, <2>2, <2>3, <2>4, <2>5, <2>6 DEF KeepsFrame
  <1> QED
    BY <1>3, <1>4

\* Where the last datagram that has arrived ends.
LEMMA LatestSpot ==
  ASSUME TypeOK, LinkInv
  PROVE  /\ latest.frame \in 0 .. Len(pictures) /\ latest.at \in 1 .. FRAME_SIZE
         /\ latest.frame = 0 => latest.at = FRAME_SIZE
         /\ latest = [frame |-> latest.frame, at |-> latest.at]
  <1>1. latest \in [frame : 0 .. MAX_FRAMES, at : 1 .. FRAME_SIZE]
    BY Zenon DEF TypeOK
  <1>2. /\ latest.frame \in Nat /\ latest.at \in 1 .. FRAME_SIZE
        /\ latest = [frame |-> latest.frame, at |-> latest.at]
    BY <1>1
  <1>3. latest.frame <= Len(pictures) /\ (latest.frame = 0 => latest.at = FRAME_SIZE)
    BY DEF LinkInv
  <1> QED
    BY <1>2, <1>3, Histories

\* The steps that leave the viewer's buffer.
LEMMA Quiet ==
  ASSUME Next, ~Message, ~Push, ~Restart
  PROVE  frameBuffer' = frameBuffer /\ latest' = latest
  BY Zenon DEF Next, NextFrame, SendTo, SendFails, NetworkFault, Connect, Close

\* A message, in its parts.
LEMMA Arrives ==
  ASSUME TypeOK, Message, NEW d, d = net[1]
  PROVE  /\ latest' = [frame |-> d.frame, at |-> End(d)] /\ damaged' = damaged
         /\ net # <<>> /\ ~HasPicture /\ d \in Datagram /\ UNCHANGED <<pictures, frames, pushed>>
  <1>1. /\ net # <<>> /\ d \in Datagram /\ UNCHANGED <<pictures, frames, pushed>>
    BY Arrival
  <1>2. Head(net) = d
    <2>1. net \in Seq(Datagram) /\ net # <<>>
      BY <1>1, Zenon DEF TypeOK
    <2> QED
      BY <2>1
  <1> QED
    BY <1>1, <1>2 DEF Message, faultVars

\* Every step keeps what the viewer has of a frame that was not hit.
LEMMA KeptStep ==
  ASSUME TypeOK, TypeOK', FramesInv, LinkInv, KeptInv, Next
  PROVE  KeptInv'
  <1> SUFFICES ASSUME latest'.frame \notin damaged'
               PROVE  KeepsRest(latest.frame, latest.at)' \/ KeepsFrame(latest.frame, latest.at)'
    BY DEF KeptInv
  <1>l. PICK k \in 0 .. Len(pictures), m \in 1 .. FRAME_SIZE :
          /\ k = latest.frame /\ m = latest.at /\ (k = 0 => m = FRAME_SIZE)
          /\ latest = [frame |-> k, at |-> m]
    BY LatestSpot
  <1>g. damaged \subseteq damaged'
    BY Grown
  <1>k. k \notin damaged => KeepsRest(k, m) \/ KeepsFrame(k, m)
    BY <1>l DEF KeptInv
  <1>1. CASE Message
    <2>1. PICK d : d = net[1]
      OBVIOUS
    <2>2. /\ latest' = [frame |-> d.frame, at |-> End(d)] /\ damaged' = damaged
          /\ net # <<>> /\ d \in Datagram
      BY <1>1, <2>1, Arrives
    <2>3. d.frame \notin damaged /\ d.at \in Nat
      BY <2>2, Numbers
    <2>4. PICK j, n : j = d.frame /\ n = End(d)
      OBVIOUS
    <2>5. End(d)' = End(d)
      BY DEF End
    <2>6. KeepsRest(j, n)' \/ KeepsFrame(j, n)'
      <3>1. CASE d.at = 0
        <4>1. KeepsFrame(d.frame, End(d))'
          BY <1>1, <2>1, <2>3, <3>1, FrameBegins
        <4> QED
          BY <2>4, <2>5, <4>1 DEF KeepsFrame
      <3>2. CASE d.at > 0
        <4>1. Link(latest, [frame |-> d.frame, at |-> d.at])
          BY <2>1, <2>2, FirstLink
        <4>2. [frame |-> d.frame, at |-> d.at] = [frame |-> k, at |-> m]
          BY <1>l, <2>3, <3>2, <4>1 DEF Link
        <4>3. d.frame = k /\ d.at = m
          BY <4>2
        <4>4. KeepsRest(d.frame, d.at) \/ KeepsFrame(d.frame, d.at)
          BY <1>k, <2>3, <4>3
        <4>5. KeepsRest(d.frame, End(d))' \/ KeepsFrame(d.frame, End(d))'
          BY <1>1, <2>1, <3>2, <4>4, RestContinues, FrameContinues
        <4> QED
          BY <2>4, <2>5, <4>5 DEF KeepsRest, KeepsFrame
      <3> QED
        BY <2>3, <3>1, <3>2
    <2>7. latest'.frame = j /\ latest'.at = n
      BY <2>2, <2>4
    <2> QED
      BY <2>6, <2>7 DEF KeepsRest, KeepsFrame
  <1>2. CASE Push
    <2>1. latest' = latest /\ damaged' = damaged
      BY <1>2 DEF Push, faultVars
    <2>2. KeepsRest(k, m) \/ KeepsFrame(k, m)
      BY <1>l, <1>k, <2>1
    <2>3. Places(frameBuffer, startMarker, 1) # {}
      BY <1>2 DEF Push, IndexOf
    <2>4. ~KeepsRest(k, m)
      BY <1>l, <2>3, RestIsClean
    <2>5. KeepsFrame(k, m) /\ k \in 1 .. Len(pictures)
      <3>1. KeepsFrame(k, m)
        BY <2>2, <2>4
      <3>2. k > 0
        BY <3>1 DEF KeepsFrame
      <3> QED
        BY <3>1, <3>2
    <2>6. KeepsRest(k, m)'
      BY <1>2, <2>5, FramePushed
    <2> QED
      BY <1>l, <2>1, <2>6 DEF KeepsRest
  <1>3. CASE Restart
    <2>1. /\ latest' = latest /\ frameBuffer' = <<>>
          /\ damaged' = damaged \cup ({latest.frame} \ {0})
      BY <1>3 DEF Restart, Fault
    <2>2. latest'.frame = 0 /\ latest'.at = FRAME_SIZE
      BY <1>l, <2>1
    <2>3. KeepsRest(0, FRAME_SIZE)'
      BY <2>1 DEF KeepsRest, Length
    <2> QED
      BY <2>2, <2>3 DEF KeepsRest
  <1>4. CASE ~Message /\ ~Push /\ ~Restart
    <2>1. frameBuffer' = frameBuffer /\ latest' = latest
      BY <1>4, Quiet
    <2>2. KeepsRest(k, m) \/ KeepsFrame(k, m)
      BY <1>l, <1>k, <1>g, <2>1
    <2>3. KeepsRest(k, m)' \/ KeepsFrame(k, m)'
      BY <1>l, <2>1, <2>2, KeepsStay
    <2> QED
      BY <1>l, <2>1, <2>3 DEF KeepsRest, KeepsFrame
  <1> QED
    BY <1>1, <1>2, <1>3, <1>4

\* Every step keeps the pictures that were not hit, on their way.
LEMMA PushedStep ==
  ASSUME TypeOK, TypeOK', FramesInv, LinkInv, KeptInv, PushedInv, Next
  PROVE  PushedInv'
  <1> SUFFICES ASSUME NEW k \in DOMAIN pictures', damaged' \cap {k - 1, k} = {}
               PROVE  \/ pictures'[k] \in Range(pushed')
                      \/ latest'.frame = k /\ KeepsFrame(k, latest.at)'
                      \/ \E i \in 1 .. Len(net') + 1 : Begins(i)' = [frame |-> k, at |-> 0]
    BY DEF PushedInv
  <1>g. /\ Len(pictures) \in Nat /\ DOMAIN pictures = 1 .. Len(pictures)
        /\ \A p \in DOMAIN pictures : pictures'[p] = pictures[p]
        /\ damaged \subseteq damaged' /\ Range(pushed) \subseteq Range(pushed')
        /\ ~NextFrame => UNCHANGED pictures
    BY Grown
  <1>n. Len(net') \in Nat /\ Len(net) \in Nat
    <2>1. net \in Seq(Datagram) /\ net' \in Seq(Datagram)
      BY Zenon DEF TypeOK
    <2> QED
      BY <2>1
  <1>d. /\ k \notin damaged' /\ k \notin damaged /\ k - 1 \notin damaged
        /\ damaged \cap {k - 1, k} = {}
    BY <1>g
  <1>l. PICK j \in 0 .. Len(pictures), m \in 1 .. FRAME_SIZE :
          /\ j = latest.frame /\ m = latest.at /\ (j = 0 => m = FRAME_SIZE)
          /\ latest = [frame |-> j, at |-> m]
    BY LatestSpot
  <1>1. CASE k \notin DOMAIN pictures
    <2>1. NextFrame
      BY <1>1, <1>g
    <2>2. /\ Len(pictures') = Len(pictures) + 1
          /\ NextSent' = Len(pictures) + 1 /\ NextAt' = 0
      BY <2>1, FrameAppended
    <2>3. k = Len(pictures) + 1
      <3>1. DOMAIN pictures' = 1 .. Len(pictures')
        <4>1. pictures' \in Seq(Seq(Byte))
          BY Zenon DEF TypeOK
        <4> QED
          BY <4>1
      <3> QED
        BY <1>1, <1>g, <2>2, <3>1
    <2>4. Begins(Len(net) + 1)' = [frame |-> k, at |-> 0]
      <3>1. net' = net
        BY <2>1 DEF NextFrame
      <3>2. Len(net) + 1 > Len(net')
        BY <1>n, <3>1
      <3> QED
        BY <2>2, <2>3, <3>2 DEF Begins
    <2>5. Len(net) + 1 \in 1 .. Len(net') + 1
      <3>1. net' = net
        BY <2>1 DEF NextFrame
      <3> QED
        BY <1>n, <3>1
    <2> QED
      BY <2>4, <2>5
  <1>2. CASE k \in DOMAIN pictures /\ pictures[k] \in Range(pushed)
    BY <1>g, <1>2
  <1>3. CASE k \in DOMAIN pictures /\ latest.frame = k /\ KeepsFrame(k, latest.at)
    <2>k. k \in 1 .. Len(pictures) /\ k \in 0 .. Len(pictures) /\ k = j /\ KeepsFrame(k, m)
      BY <1>g, <1>l, <1>3
    <2>1. CASE Message
      <3>1. PICK d : d = net[1]
        OBVIOUS
      <3>2. /\ latest' = [frame |-> d.frame, at |-> End(d)] /\ net # <<>> /\ ~HasPicture
        BY <2>1, <3>1, Arrives
      <3>3. m < FRAME_SIZE
        <4>1. m < Length(k) /\ Length(k) \in 4 .. FRAME_SIZE
          BY <2>k, <3>2, NotWhole, SentShape
        <4> QED
          BY <4>1
      <3>4. Link(latest, [frame |-> d.frame, at |-> d.at])
        BY <3>1, <3>2, FirstLink
      <3>5. [frame |-> d.frame, at |-> d.at] = [frame |-> k, at |-> m]
        BY <1>d, <1>l, <2>k, <3>3, <3>4 DEF Link
      <3>6. d.frame = k /\ d.at = m /\ d.at > 0
        BY <3>5
      <3>7. KeepsFrame(d.frame, End(d))'
        BY <2>1, <2>k, <3>1, <3>6, FrameContinues
      <3>8. End(d)' = End(d) /\ latest'.at = End(d) /\ latest'.frame = k
        BY <3>2, <3>6 DEF End
      <3> QED
        BY <3>6, <3>7, <3>8 DEF KeepsFrame
    <2>2. CASE Push
      <3>1. pictures[k] \in Range(pushed')
        BY <1>d, <2>k, <2>2, FramePushed
      <3> QED
        BY <1>g, <1>3, <3>1
    <2>3. CASE Restart
      <3>1. k \in damaged'
        BY <2>k, <1>l, <2>3 DEF Restart, Fault
      <3> QED
        BY <1>d, <3>1
    <2>4. CASE ~Message /\ ~Push /\ ~Restart
      <3>1. frameBuffer' = frameBuffer /\ latest' = latest
        BY <2>4, Quiet
      <3>2. KeepsFrame(k, m)'
        BY <1>l, <2>k, <3>1, KeepsStay
      <3> QED
        BY <1>l, <2>k, <3>1, <3>2 DEF KeepsFrame
    <2> QED
      BY <2>1, <2>2, <2>3, <2>4
  <1>4. CASE /\ k \in DOMAIN pictures
             /\ \E i \in 1 .. Len(net) + 1 : Begins(i) = [frame |-> k, at |-> 0]
    <2>i. PICK i \in 1 .. Len(net) + 1 : Begins(i) = [frame |-> k, at |-> 0]
      BY <1>4
    <2>f. Begins(i).frame \notin damaged'
      BY <1>d, <2>i
    <2>1. CASE StillBegins(1)
      BY <2>i, <2>f, <2>1 DEF StillBegins
    <2>2. CASE Message
      <3>1. CASE i = 1
        <4>1. PICK d : d = net[1]
          OBVIOUS
        <4>2. /\ latest' = [frame |-> d.frame, at |-> End(d)] /\ net # <<>>
          BY <2>2, <4>1, Arrives
        <4>3. Begins(1) = [frame |-> d.frame, at |-> d.at]
          <5>1. Len(net) \in Nat \ {0}
            BY <2>2, Arrival
          <5> QED
            BY <4>1, <5>1 DEF Begins
        <4>4. [frame |-> d.frame, at |-> d.at] = [frame |-> k, at |-> 0]
          BY <2>i, <3>1, <4>3
        <4>5. d.frame = k /\ d.at = 0
          BY <4>4
        <4>6. KeepsFrame(d.frame, End(d))'
          BY <1>d, <2>2, <4>1, <4>5, FrameBegins
        <4>7. End(d)' = End(d) /\ latest'.at = End(d) /\ latest'.frame = k
          BY <4>2, <4>5 DEF End
        <4> QED
          BY <4>5, <4>6, <4>7 DEF KeepsFrame
      <3>2. CASE i # 1
        <4>1. i \in 2 .. Len(net) + 1 /\ StillBegins(2)
          BY <1>n, <2>2, <3>2, LinksOfMessage
        <4>2. PICK h \in 1 .. Len(net') + 1 : Begins(h)' = Begins(i)
          BY <2>f, <4>1 DEF StillBegins
        <4> QED
          BY <2>i, <4>2
      <3> QED
        BY <3>1, <3>2
    <2>3. CASE SendTo
      BY <2>1, <2>3, LinksOfSend
    <2>4. CASE SendFails
      BY <2>1, <2>4, LinksOfSendFails
    <2>5. CASE NetworkFault
      <3>1. StillBegins(1)
        BY <2>5, LinksOfNetwork DEF StillBegins
      <3> QED
        BY <2>1, <3>1
    <2>6. CASE NextFrame \/ Push \/ Restart \/ \E c \in Client : Connect(c) \/ Close(c)
      <3>1. UNCHANGED <<net, latest>> /\ NextSent' = NextSent /\ NextAt' = NextAt
        <4>1. CASE NextFrame
          <5>1. UNCHANGED <<net, latest>>
            BY <4>1 DEF NextFrame
          <5> QED
            BY <4>1, <5>1, FrameAppended
        <4>2. CASE Push \/ Restart \/ \E c \in Client : Connect(c) \/ Close(c)
          <5>1. UNCHANGED <<net, latest, senderVars>>
            BY <4>2 DEF Push, Restart, Connect, Close
          <5> QED
            BY <5>1 DEF senderVars, NextSent, NextAt
        <4> QED
          BY <2>6, <4>1, <4>2
      <3>2. StillBegins(1)
        BY <1>g, <3>1, LinksStay
      <3> QED
        BY <2>1, <3>2
    <2> QED
      BY <2>2, <2>3, <2>4, <2>5, <2>6 DEF Next
  <1> QED
    BY <1>d, <1>1, <1>2, <1>3, <1>4 DEF PushedInv

\* Every step keeps the whole invariant of what faults may do.
LEMMA LossStep ==
  ASSUME IInv, Next, TypeOK'
  PROVE  LossInv'
  <1>1. TypeOK /\ FramesInv /\ LinkInv /\ KeptInv /\ PushedInv
    BY DEF IInv, LossInv
  <1>2. LinkInv' /\ KeptInv' /\ PushedInv'
    BY <1>1, LinkStep, KeptStep, PushedStep
  <1> QED
    BY <1>2 DEF LossInv

\* So does a stutter.
LEMMA LossKept ==
  ASSUME LossInv,
         UNCHANGED <<pictures, frames, net, sending, wBytes, pushed, frameBuffer, damaged, latest>>
  PROVE  LossInv'
  <1>1. NextSent' = NextSent /\ NextAt' = NextAt
    BY DEF NextSent, NextAt
  <1>2. /\ \A i : Ends(i)' = Ends(i)
        /\ \A i : Begins(i)' = Begins(i)
    BY <1>1 DEF Ends, Begins, End
  <1>3. LinkInv'
    <2>1. /\ \A i \in 0 .. Len(net) : Link(Ends(i), Begins(i + 1))
          /\ \A i \in DOMAIN net : Genuine(net[i])
          /\ latest.frame <= Len(pictures) /\ (latest.frame = 0 => latest.at = FRAME_SIZE)
      BY DEF LossInv, LinkInv
    <2>2. \A i \in 0 .. Len(net) : Link(Ends(i), Begins(i + 1))'
      BY <1>2, <2>1 DEF Link
    <2>3. \A i \in DOMAIN net : Genuine(net[i])'
      BY <2>1 DEF Genuine
    <2> QED
      BY <2>1, <2>2, <2>3 DEF LinkInv
  <1>4. /\ \A k : Length(k)' = Length(k)
        /\ \A marker, i : Places(frameBuffer, marker, i)' = Places(frameBuffer, marker, i)
    BY DEF Length, Places, IsAt
  <1>5. \A k, m : KeepsRest(k, m)' <=> KeepsRest(k, m)
    BY <1>4 DEF KeepsRest
  <1>6. \A k, m : KeepsFrame(k, m)' <=> KeepsFrame(k, m)
    BY <1>4 DEF KeepsFrame
  <1>7. KeptInv'
    BY <1>5, <1>6 DEF LossInv, KeptInv
  <1>8. PushedInv'
    BY <1>2, <1>6 DEF LossInv, PushedInv
  <1> QED
    BY <1>3, <1>7, <1>8 DEF LossInv

\* It holds when nothing has been sent.
LEMMA LossInit ==
  ASSUME Init
  PROVE  LossInv
  <1>1. /\ pictures = <<>> /\ sending = <<>> /\ net = <<>> /\ frameBuffer = <<>> /\ damaged = {}
        /\ latest = [frame |-> 0, at |-> FRAME_SIZE]
    BY DEF Init
  <1>2. latest.frame = 0 /\ latest.at = FRAME_SIZE
    BY <1>1
  <1>3. LinkInv
    <2>1. Ends(0) = [frame |-> 0, at |-> FRAME_SIZE] /\ Begins(0 + 1) = [frame |-> 1, at |-> 0]
      BY <1>1 DEF Ends, Begins, NextSent, NextAt
    <2>2. Link([frame |-> 0, at |-> FRAME_SIZE], [frame |-> 1, at |-> 0])
      BY <1>1 DEF Link
    <2>3. Link(Ends(0), Begins(0 + 1))
      BY <2>1, <2>2
    <2>4. \A i \in 0 .. Len(net) : i = 0
      BY <1>1
    <2>5. \A i \in 0 .. Len(net) : Link(Ends(i), Begins(i + 1))
      BY <2>3, <2>4
    <2>6. DOMAIN net = {} /\ Len(pictures) = 0
      BY <1>1
    <2> QED
      BY <1>2, <2>5, <2>6 DEF LinkInv
  <1>4. KeptInv
    <2>1. KeepsRest(0, FRAME_SIZE)
      BY <1>1 DEF KeepsRest, Length
    <2> QED
      BY <1>2, <2>1 DEF KeptInv
  <1>5. PushedInv
    BY <1>1 DEF PushedInv
  <1> QED
    BY <1>3, <1>4, <1>5 DEF LossInv

\* The invariant has the losses where the faults are.
LEMMA LossByInvariant ==
  ASSUME IInv
  PROVE  OnlyHitFramesLost
  <1> SUFFICES ASSUME ~HasPicture, NEW k \in DOMAIN pictures, Passed(k),
                      damaged \cap {k - 1, k} = {}
               PROVE  pictures[k] \in Range(pushed)
    BY DEF OnlyHitFramesLost
  <1>1. TypeOK /\ FramesInv /\ LinkInv /\ PushedInv
    BY DEF IInv, LossInv
  <1>2. k \in 1 .. Len(pictures)
    BY <1>1, Histories
  <1>n. PICK n \in Nat : n = Len(net) /\ DOMAIN net = 1 .. n
    BY <1>1, Numbers
  <1>3. \A i \in 1 .. n + 1 : Begins(i).frame # k
    <2> TAKE i \in 1 .. n + 1
    <2>1. CASE i = n + 1
      <3>1. Begins(i).frame = NextSent
        BY <1>n, <2>1 DEF Begins
      <3>2. Len(pictures) \in Nat
        BY <1>1, Numbers, Histories
      <3> QED
        BY <1>2, <3>1, <3>2 DEF Passed, NextSent
    <2>2. CASE i # n + 1
      <3>1. i \in DOMAIN net /\ Begins(i).frame = net[i].frame
        BY <1>n, <2>2 DEF Begins
      <3> QED
        BY <3>1 DEF Passed
    <2> QED
      BY <2>1, <2>2
  <1>4. ASSUME latest.frame = k, KeepsFrame(k, latest.at)
        PROVE  FALSE
    <2>1. latest.at \in 1 .. FRAME_SIZE
      BY <1>1, LatestSpot
    <2>2. latest.at < FRAME_SIZE
      <3>1. latest.at < Length(k) /\ Length(k) \in 4 .. FRAME_SIZE
        BY <1>1, <1>2, <1>4, <2>1, NotWhole, SentShape
      <3> QED
        BY <2>1, <3>1
    <2>3. Link(Ends(0), Begins(0 + 1)) /\ Ends(0) = latest
      <3>1. 0 \in 0 .. Len(net)
        BY <1>n
      <3> QED
        BY <3>1 DEF LinkInv, Ends, LossInv, IInv
    <2>4. Begins(0 + 1) = latest
      BY <1>4, <2>2, <2>3 DEF Link
    <2>5. 0 + 1 \in 1 .. n + 1
      BY <1>n
    <2> QED
      BY <1>3, <1>4, <2>4, <2>5
  <1>5. ASSUME NEW i \in 1 .. n + 1, Begins(i) = [frame |-> k, at |-> 0]
        PROVE  FALSE
    BY <1>3, <1>5
  <1> QED
    BY <1>1, <1>n, <1>4, <1>5 DEF PushedInv

-----------------------------------------------------------------------------
(* How many pictures are lost.                                              *)

\* A fault hits two frames at most.
HitsCounted == Cardinality(damaged) <= 2 * faults

\* Two more elements of a finite set.
LEMMA TwoMore ==
  ASSUME NEW S, IsFiniteSet(S), NEW a, NEW b, NEW T \in SUBSET {a, b}
  PROVE  /\ IsFiniteSet(S \cup T)
         /\ Cardinality(S \cup T) \in Nat /\ Cardinality(S) \in Nat
         /\ Cardinality(S \cup T) <= Cardinality(S) + 2
  <1>1. /\ IsFiniteSet(S \cup {a}) /\ Cardinality(S) \in Nat
        /\ Cardinality(S \cup {a}) \in Nat /\ Cardinality(S \cup {a}) <= Cardinality(S) + 1
    BY FS_AddElement, FS_CardinalityType
  <1>2. /\ IsFiniteSet((S \cup {a}) \cup {b})
        /\ Cardinality((S \cup {a}) \cup {b}) <= Cardinality(S) + 2
    <2>1. /\ IsFiniteSet((S \cup {a}) \cup {b})
          /\ \/ Cardinality((S \cup {a}) \cup {b}) = Cardinality(S \cup {a})
             \/ Cardinality((S \cup {a}) \cup {b}) = Cardinality(S \cup {a}) + 1
      BY <1>1, FS_AddElement
    <2> QED
      BY <1>1, <2>1
  <1>3. S \cup T \subseteq (S \cup {a}) \cup {b}
    OBVIOUS
  <1>4. /\ IsFiniteSet(S \cup T) /\ Cardinality(S \cup T) \in Nat
        /\ Cardinality(S \cup T) <= Cardinality((S \cup {a}) \cup {b})
        /\ Cardinality((S \cup {a}) \cup {b}) \in Nat
    BY <1>2, <1>3, FS_Subset, FS_CardinalityType
  <1> QED
    BY <1>1, <1>2, <1>4

\* There are few frames, and few faults.
LEMMA FewFrames ==
  ASSUME TypeOK
  PROVE  /\ IsFiniteSet(damaged) /\ Cardinality(damaged) \in Nat
         /\ damaged \subseteq Int /\ faults \in Nat
  <1>1. damaged \in SUBSET (1 .. MAX_FRAMES) /\ faults \in 0 .. MAX_FAULTS
    BY Zenon DEF TypeOK
  <1>2. IsFiniteSet(1 .. MAX_FRAMES)
    <2>1. 1 \in Int /\ MAX_FRAMES \in Int
      OBVIOUS
    <2> QED
      BY <2>1, FS_Interval
  <1>3. IsFiniteSet(damaged)
    BY <1>1, <1>2, FS_Subset
  <1> QED
    BY <1>1, <1>3, FS_CardinalityType

\* Every step counts what it hits.
LEMMA HitsStep ==
  ASSUME TypeOK, HitsCounted, Next
  PROVE  HitsCounted'
  <1>1. IsFiniteSet(damaged) /\ faults \in Nat
    BY FewFrames
  <1>2. ASSUME NEW a, NEW b, NEW hit \in SUBSET {a, b}, Fault(hit)
        PROVE  HitsCounted'
    <2>1. /\ damaged' = damaged \cup hit /\ faults' = faults + 1
      BY <1>2 DEF Fault
    <2>2. /\ Cardinality(damaged \cup hit) \in Nat /\ Cardinality(damaged) \in Nat
          /\ Cardinality(damaged \cup hit) <= Cardinality(damaged) + 2
      BY <1>1, TwoMore
    <2> QED
      BY <1>1, <2>1, <2>2 DEF HitsCounted
  <1>3. CASE SendFails
    <2>1. Fault({Len(pictures)})
      BY <1>3 DEF SendFails
    <2> QED
      BY <1>2, <2>1
  <1>4. CASE NetworkFault
    <2>1. PICK i \in DOMAIN net : Lose(i) \/ Overtake(i) \/ Repeat(i)
      BY <1>4 DEF NetworkFault
    <2>2. Fault({net[i].frame}) \/ Fault({net[i - 1].frame, net[i].frame})
      BY <2>1 DEF Lose, Overtake, Repeat
    <2> QED
      BY <1>2, <2>2
  <1>5. CASE Restart
    <2>1. Fault({latest.frame} \ {0})
      BY <1>5 DEF Restart
    <2>2. {latest.frame} \ {0} \in SUBSET {latest.frame, 0}
      OBVIOUS
    <2> QED
      BY <1>2, <2>1, <2>2
  <1>6. CASE ~SendFails /\ ~NetworkFault /\ ~Restart
    <2>1. UNCHANGED <<faults, damaged>>
      BY <1>6, Zenon DEF Next, NextFrame, SendTo, Message, Push, Connect, Close, faultVars
    <2> QED
      BY <2>1 DEF HitsCounted
  <1> QED
    BY <1>3, <1>4, <1>5, <1>6

\* Each frame that was hit may cost its own picture and the next one.
LEMMA FewAreLost ==
  ASSUME TypeOK, HitsCounted, OnlyHitFramesLost, ~HasPicture
  PROVE  Cardinality({k \in DOMAIN pictures : Passed(k) /\ pictures[k] \notin Range(pushed)})
           <= 4 * faults
  <1> DEFINE Lost == {k \in DOMAIN pictures : Passed(k) /\ pictures[k] \notin Range(pushed)}
             After == {k + 1 : k \in damaged}
  <1>1. faults \in Nat /\ DOMAIN pictures \subseteq Int
    BY FewFrames, Histories
  <1>2. IsFiniteSet(damaged) /\ Cardinality(damaged) \in Nat
    BY FewFrames
  <1>3. /\ IsFiniteSet(After) /\ Cardinality(After) \in Nat
        /\ Cardinality(After) <= Cardinality(damaged)
    <2> DEFINE next == [k \in damaged |-> k + 1]
    <2>1. After = {next[k] : k \in damaged}
      OBVIOUS
    <2>2. next \in Surjection(damaged, After)
      BY DEF Surjection
    <2> QED
      BY <1>2, <2>2, FS_Surjection, FS_CardinalityType
  <1>4. Lost \subseteq damaged \cup After
    <2> SUFFICES ASSUME NEW k \in Lost, k \notin damaged
                 PROVE  k - 1 \in damaged /\ k = (k - 1) + 1
      OBVIOUS
    <2>1. k \in Int /\ damaged \cap {k - 1, k} # {}
      BY <1>1 DEF OnlyHitFramesLost
    <2> QED
      BY <2>1
  <1> HIDE DEF Lost, After
  <1>5. /\ IsFiniteSet(damaged \cup After) /\ Cardinality(damaged \cup After) \in Nat
        /\ Cardinality(damaged \cup After) <= Cardinality(damaged) + Cardinality(After)
    <2>1. /\ IsFiniteSet(damaged \cup After)
          /\ Cardinality(damaged \cup After)
               = Cardinality(damaged) + Cardinality(After) - Cardinality(damaged \cap After)
      BY <1>2, <1>3, FS_Union
    <2>2. Cardinality(damaged \cap After) \in Nat /\ Cardinality(damaged \cup After) \in Nat
      BY <1>2, <2>1, FS_Intersection, FS_CardinalityType
    <2> QED
      BY <1>2, <1>3, <2>1, <2>2
  <1>6. Cardinality(Lost) \in Nat /\ Cardinality(Lost) <= Cardinality(damaged \cup After)
    BY <1>4, <1>5, FS_Subset, FS_CardinalityType
  <1>7. Cardinality(damaged) <= 2 * faults
    BY DEF HitsCounted
  <1>8. Cardinality(Lost) <= 4 * faults
    BY <1>1, <1>2, <1>3, <1>5, <1>6, <1>7
  <1> QED
    BY <1>8 DEF Lost

-----------------------------------------------------------------------------
(* The whole invariant.                                                     *)

\* Every step keeps the invariant, and so does a stutter.
LEMMA InvariantStep ==
  ASSUME IInv, [Next]_vars
  PROVE  IInv'
  <1>1. CASE Next
    <2>1. TypeOK'
      BY <1>1, TypeStep
    <2>2. FramesInv'
      BY <1>1, FramesStep
    <2>3. StreamInv'
      BY <1>1, <2>1, <2>2, StreamStep
    <2>4. ViewersInStep' /\ ViewersInv'
      BY <1>1, ViewersStep
    <2>5. LossInv'
      BY <1>1, <2>1, LossStep
    <2> QED
      BY <2>1, <2>2, <2>3, <2>4, <2>5 DEF IInv
  <1>2. CASE UNCHANGED vars
    <2>1. UNCHANGED <<senderVars, serverVars, net, frameBuffer, pushed, faultVars, latest>>
      BY <1>2 DEF vars
    <2>2. TypeOK'
      BY <2>1 DEF IInv, TypeOK, senderVars, serverVars, faultVars
    <2>3. ViewersInStep' /\ ViewersInv'
      BY <2>1 DEF IInv, ViewersInStep, ViewersInv, serverVars
    <2>4. FramesInv'
      <3>1. /\ slots' = slots /\ sending' = sending /\ wBytes' = wBytes
            /\ pictures' = pictures /\ frames' = frames
        BY <2>1 DEF senderVars
      <3>2. FramesInv
        BY DEF IInv
      <3>3. \A k : IsSent(k)' <=> IsSent(k)
        BY <3>1 DEF IsSent
      <3>4. \A s \in 0 .. SLOTS - 1 :
              /\ \A i \in 2 .. FRAME_SIZE - 1 : ~IsAt(startMarker, slots'[s], i)
              /\ \A i \in 1 .. FRAME_SIZE : slots'[s][i].frame <= Len(pictures')
        BY <3>1, <3>2 DEF FramesInv
      <3> QED
        BY <3>1, <3>2, <3>3, <3>4 DEF FramesInv
    <2>5. StreamInv' /\ LossInv'
      <3>1. /\ pictures' = pictures /\ frames' = frames /\ net' = net /\ sending' = sending
            /\ wBytes' = wBytes /\ pushed' = pushed /\ frameBuffer' = frameBuffer
            /\ faults' = faults /\ damaged' = damaged /\ latest' = latest
        BY <2>1 DEF senderVars, faultVars
      <3>2. StreamInv'
        BY <3>1 DEF IInv, StreamInv, TransitInv, BufferInv, NextSent, NextAt, Length, Behind, End
      <3>3. LossInv'
        BY <3>1, LossKept DEF IInv
      <3> QED
        BY <3>2, <3>3
    <2> QED
      BY <2>2, <2>3, <2>4, <2>5 DEF IInv
  <1> QED
    BY <1>1, <1>2

\* The invariant holds when the board and the viewer start.
LEMMA InvariantInit ==
  ASSUME Init
  PROVE  IInv
  <1>1. TypeOK
    <2>1. Zero \in Byte /\ [i \in 1 .. FRAME_SIZE |-> Zero] \in Slot
      BY DEF Zero, Byte, Value, Slot
    <2>2. slots \in [0 .. SLOTS - 1 -> Slot]
      <3> HIDE DEF Slot
      <3> QED
        BY <2>1 DEF Init
    <2>3. /\ sending = <<>> /\ wBytes \in 0 .. FRAME_SIZE /\ net \in Seq(Datagram)
          /\ frameBuffer \in Seq(Byte) /\ flowing \in BOOLEAN /\ ready \in Seq(Seq(Byte))
          /\ listeners \subseteq Client /\ clients \subseteq Client
      <3>1. /\ sending = <<>> /\ wBytes = 0 /\ net = <<>> /\ frameBuffer = <<>>
            /\ flowing = FALSE /\ ready = <<>> /\ listeners = {} /\ clients = {}
        BY DEF Init
      <3>2. wBytes \in 0 .. FRAME_SIZE
        BY <3>1
      <3>3. net \in Seq(Datagram) /\ frameBuffer \in Seq(Byte)
        BY <3>1
      <3>4. ready \in Seq(Seq(Byte))
        BY <3>1
      <3>5. flowing \in BOOLEAN /\ listeners \subseteq Client /\ clients \subseteq Client
        BY <3>1
      <3> QED
        BY <3>1, <3>2, <3>3, <3>4, <3>5, Zenon
    <2>4. /\ got \in [Client -> Seq(Seq(Byte))] /\ since \in [Client -> Nat]
          /\ faults \in 0 .. MAX_FAULTS
      BY DEF Init
    <2>5. /\ pictures \in Seq(Seq(Byte)) /\ Len(pictures) <= MAX_FRAMES
          /\ frames \in Seq(Slot) /\ pushed \in Seq(Seq(Byte))
      BY DEF Init
    <2>6. /\ damaged \subseteq 1 .. MAX_FRAMES
          /\ latest \in [frame : 0 .. MAX_FRAMES, at : 1 .. FRAME_SIZE]
      <3>1. damaged = {} /\ latest = [frame |-> 0, at |-> FRAME_SIZE]
        BY DEF Init
      <3>2. FRAME_SIZE \in 1 .. FRAME_SIZE /\ 0 \in 0 .. MAX_FRAMES
        OBVIOUS
      <3> QED
        BY <3>1, <3>2
    <2> QED
      BY <2>2, <2>3, <2>4, <2>5, <2>6 DEF TypeOK
  <1>2. ViewersInStep /\ ViewersInv
    BY DEF Init, ViewersInStep, ViewersInv
  <1>3. FramesInv
    <2>1. \A s \in 0 .. SLOTS - 1, i \in 1 .. FRAME_SIZE :
            slots[s][i].value = "00" /\ slots[s][i].frame = 0
      BY DEF Init, Zero
    <2>2. pictures = <<>> /\ frames = <<>> /\ sending = <<>>
      BY DEF Init
    <2> QED
      BY <2>1, <2>2 DEF FramesInv, IsAt, startMarker
  <1>4. StreamInv
    <2>1. /\ pictures = <<>> /\ sending = <<>> /\ net = <<>> /\ pushed = <<>>
          /\ frameBuffer = <<>>
      BY DEF Init
    <2>2. NextSent = 1 /\ NextAt = 0
      BY <2>1 DEF NextSent, NextAt
    <2>3. TransitInv(0, FRAME_SIZE)
      BY <2>1, <2>2 DEF TransitInv, Follows, NotAfter
    <2>4. BufferInv(0, FRAME_SIZE)
      BY <2>1 DEF BufferInv, Length
    <2>5. 0 \in 0 .. Len(pictures) /\ FRAME_SIZE \in 1 .. FRAME_SIZE
      BY <2>1
    <2> QED
      BY <2>3, <2>4, <2>5 DEF StreamInv
  <1> QED
    BY <1>1, <1>2, <1>3, <1>4, LossInit DEF IInv

-----------------------------------------------------------------------------
(* What the viewer has pushed between two messages.                         *)

\* Without a fault, a picture has arrived if and only if it has been pushed.
LEMMA ArrivedIsPushed ==
  ASSUME TypeOK, FramesInv, NEW k, NEW m, Place(k, m), TransitInv(k, m), BufferInv(k, m),
         ~HasPicture, NEW p \in DOMAIN pictures
  PROVE  Arrived(p) <=> p <= Len(pushed)
  <1>p. PICK last \in Nat : last = Len(pushed)
    BY DEF TypeOK
  <1>n. PICK count \in Nat : count = Len(pictures)
    BY DEF TypeOK
  <1>1. p \in 1 .. count /\ pictures[p] \in Seq(Byte)
    BY <1>n DEF TypeOK
  <1>2. last \in 0 .. count /\ k \in 0 .. count /\ m \in 1 .. FRAME_SIZE
    BY <1>p, <1>n, BufferBytes DEF Place
  <1>l. PICK length \in 1 .. FRAME_SIZE : length = Length(p)
    BY <1>n, <1>1, Lengths
  <1>3. /\ length = Len(pictures[p]) /\ frames[p][length] = pictures[p][length]
        /\ frames[p][length].frame = p
        /\ \A i \in length + 1 .. FRAME_SIZE : frames[p][i].frame < p
    <2>1. p # 0 /\ length = Len(pictures[p])
      BY <1>1, <1>l DEF Length
    <2>2. IsSent(p)
      BY DEF FramesInv
    <2> QED
      BY <2>1, <2>2 DEF IsSent
  <1>4. Last(pictures[p]) = frames[p][length]
    BY <1>3 DEF Last
  <1>5. /\ k = last \/ k = last + 1
        /\ k = last => Length(last) <= m
    BY <1>p DEF BufferInv
  <1>6. NextSent \in Nat /\ NextAt \in Nat /\ NotAfter(k, m, NextSent, NextAt)
    BY Numbers DEF TransitInv
  <1>7. p < count \/ sending = <<>> \/ wBytes >= length <=> NotAfter(p, length, NextSent, NextAt)
    <2>1. wBytes \in Nat
      BY DEF TypeOK
    <2>2. CASE sending = <<>>
      <3>1. NextSent = count + 1
        BY <1>n, <2>2 DEF NextSent
      <3> QED
        BY <1>1, <2>2, <3>1 DEF NotAfter
    <2>3. CASE sending # <<>>
      <3>1. NextSent = count /\ NextAt = wBytes
        BY <1>n, <2>3 DEF NextSent, NextAt
      <3> QED
        BY <1>1, <2>1, <2>3, <3>1 DEF NotAfter
    <2> QED
      BY <2>2, <2>3
  <1>8. ASSUME NEW i \in DOMAIN net, net[i].frame = p
        PROVE  /\ net[i].at \in Nat /\ net[i].data \in Seq(Byte)
               /\ NotAfter(k, m, p, net[i].at)
               /\ End(net[i]) = net[i].at + Len(net[i].data) /\ End(net[i]) <= FRAME_SIZE
               /\ \A j \in DOMAIN net[i].data : net[i].data[j] = frames[p][net[i].at + j]
    <2>1. net[i] \in Datagram
      BY DEF TypeOK
    <2>2. /\ NotAfter(k, m, net[i].frame, net[i].at)
          /\ \A j \in DOMAIN net[i].data : net[i].data[j] = frames[net[i].frame][net[i].at + j]
      BY DEF TransitInv
    <2>3. /\ net[i].at \in Nat /\ net[i].data \in Seq(Byte)
          /\ End(net[i]) = net[i].at + Len(net[i].data) /\ End(net[i]) \in 1 .. FRAME_SIZE
      BY <2>1, Numbers
    <2> QED
      BY <1>8, <2>2, <2>3
  <1>9. ASSUME p <= last
        PROVE  Arrived(p)
    <2>1. NotAfter(p, length, NextSent, NextAt)
      <3>1. p = k => length <= m
        BY <1>1, <1>2, <1>5, <1>9, <1>l
      <3>2. p < k \/ p = k
        BY <1>1, <1>2, <1>5, <1>9
      <3> QED
        BY <1>1, <1>2, <1>6, <3>1, <3>2 DEF NotAfter
    <2>2. ASSUME NEW i \in DOMAIN net, net[i].frame = p
          PROVE  frames[p][length] \notin Range(net[i].data)
      <3>1. p = k /\ m <= net[i].at
        <4>1. NotAfter(k, m, p, net[i].at)
          BY <1>8, <2>2
        <4> QED
          BY <1>1, <1>2, <1>5, <1>9, <4>1 DEF NotAfter
      <3>2. length <= net[i].at
        <4>1. length <= m
          BY <1>1, <1>2, <1>5, <1>9, <1>l, <3>1
        <4>2. net[i].at \in Nat
          BY <1>8, <2>2
        <4> QED
          BY <1>2, <3>1, <4>1, <4>2
      <3>3. ASSUME NEW j \in DOMAIN net[i].data
            PROVE  net[i].data[j] # frames[p][length]
        <4>1. /\ net[i].data[j] = frames[p][net[i].at + j]
              /\ net[i].at \in Nat /\ j \in 1 .. Len(net[i].data) /\ Len(net[i].data) \in Nat
              /\ net[i].at + Len(net[i].data) <= FRAME_SIZE
          <5>1. net[i].data \in Seq(Byte)
            BY <1>8, <2>2
          <5>2. DOMAIN net[i].data = 1 .. Len(net[i].data) /\ Len(net[i].data) \in Nat
            BY <5>1
          <5> QED
            BY <1>8, <2>2, <5>2
        <4>2. net[i].at + j \in length + 1 .. FRAME_SIZE
          BY <3>2, <4>1
        <4>3. frames[p][net[i].at + j].frame < p
          BY <1>3, <4>2
        <4> QED
          BY <1>1, <1>3, <4>1, <4>3
      <3> QED
        BY <3>3 DEF Range
    <2> QED
      BY <1>n, <1>3, <1>4, <1>7, <2>1, <2>2 DEF Arrived
  <1>10. ASSUME p > last, Arrived(p)
         PROVE  FALSE
    <2>1. NotAfter(p, length, NextSent, NextAt)
      BY <1>n, <1>3, <1>7, <1>10 DEF Arrived
    <2>2. NotAfter(k, m, p, length - 1)
      <3>1. k # last => m < Length(k) \/ ~(m >= Length(k))
        <4>1. k # last /\ m >= Length(k) => HasPicture
          BY <1>p, Markers DEF HasPicture
        <4> QED
          BY <4>1
      <3>2. k = p => m < length
        BY <1>1, <1>2, <1>5, <1>10, <1>l, <3>1
      <3>3. k < p \/ k = p
        BY <1>1, <1>2, <1>5, <1>10
      <3> QED
        BY <1>1, <1>2, <3>2, <3>3 DEF NotAfter
    <2>3. PICK i \in DOMAIN net : net[i].frame = p /\ net[i].at < length /\ length <= End(net[i])
      BY <1>l, <2>1, <2>2 DEF TransitInv
    <2>4. /\ net[i].at \in Nat /\ net[i].data \in Seq(Byte)
          /\ End(net[i]) = net[i].at + Len(net[i].data)
          /\ \A j \in DOMAIN net[i].data : net[i].data[j] = frames[p][net[i].at + j]
      BY <1>8, <2>3
    <2>5. /\ length - net[i].at \in DOMAIN net[i].data
          /\ net[i].at + (length - net[i].at) = length
      <3>1. DOMAIN net[i].data = 1 .. Len(net[i].data) /\ Len(net[i].data) \in Nat
        BY <2>4
      <3> QED
        BY <2>3, <2>4, <3>1
    <2>6. frames[p][length] \in Range(net[i].data)
      BY <2>4, <2>5 DEF Range
    <2> QED
      BY <1>4, <1>10, <2>3, <2>6 DEF Arrived
  <1> QED
    BY <1>1, <1>2, <1>p, <1>9, <1>10

\* The invariant has the pictures clean.
LEMMA CleanByInvariant ==
  ASSUME IInv
  PROVE  CleanStream
  <1> USE DEF IInv
  <1> SUFFICES ASSUME faults = 0, ~HasPicture
               PROVE  pushed
                        = SubSeq(pictures, 1, Cardinality({p \in DOMAIN pictures : Arrived(p)}))
    BY DEF CleanStream
  <1>1. PICK k \in 0 .. Len(pictures), m \in 1 .. FRAME_SIZE :
          Place(k, m) /\ TransitInv(k, m) /\ BufferInv(k, m)
    BY DEF StreamInv, Place
  <1>2. PICK last \in Nat : last = Len(pushed)
    BY DEF TypeOK
  <1>3. \A p \in DOMAIN pictures : Arrived(p) <=> p <= last
    BY <1>1, <1>2, ArrivedIsPushed
  <1>4. last <= Len(pictures) /\ \A p \in DOMAIN pushed : pushed[p] = pictures[p]
    BY <1>1, <1>2 DEF BufferInv
  <1>5. /\ pictures \in Seq(Seq(Byte)) /\ pushed \in Seq(Seq(Byte))
        /\ Len(pictures) \in Nat /\ DOMAIN pictures = 1 .. Len(pictures)
        /\ DOMAIN pushed = 1 .. last
    BY <1>2 DEF TypeOK
  <1>6. {p \in DOMAIN pictures : Arrived(p)} = 1 .. last
    <2>1. \A p : p \in DOMAIN pictures /\ p <= last <=> p \in 1 .. last
      BY <1>4, <1>5
    <2> QED
      BY <1>3, <2>1
  <1>7. Cardinality(1 .. last) = last
    BY FS_Interval
  <1>8. pushed = SubSeq(pictures, 1, last)
    <2>1. 1 \in 1 .. Len(pictures) + 1 /\ last \in 1 - 1 .. Len(pictures)
      BY <1>4, <1>5
    <2>2. /\ SubSeq(pictures, 1, last) \in Seq(Seq(Byte))
          /\ Len(SubSeq(pictures, 1, last)) = last - 1 + 1
          /\ \A i \in 1 .. last - 1 + 1 : SubSeq(pictures, 1, last)[i] = pictures[1 + i - 1]
      BY <1>5, <2>1, Part
    <2>3. last - 1 + 1 = last /\ \A i \in 1 .. last : 1 + i - 1 = i
      OBVIOUS
    <2> DEFINE sent == SubSeq(pictures, 1, last)
    <2> HIDE DEF sent
    <2>4. sent \in Seq(Seq(Byte)) /\ Len(sent) = last /\ \A i \in 1 .. last : sent[i] = pictures[i]
      BY <2>2, <2>3 DEF sent
    <2>5. Len(pushed) = Len(sent) /\ \A i \in 1 .. Len(pushed) : pushed[i] = sent[i]
      BY <1>2, <1>4, <1>5, <2>4
    <2>6. pushed = sent
      BY <1>5, <2>4, <2>5, SeqEqual
    <2> QED
      BY <2>6 DEF sent
  <1> QED
    BY <1>6, <1>7, <1>8

-----------------------------------------------------------------------------
(* The results.                                                             *)

\* The invariant holds in every state: frames stay what they are, datagrams in
\* transit are the stream in its order, and the viewer's buffer is its next part.
THEOREM ViewerInvariant == Spec => []IInv
  BY InvariantInit, InvariantStep, PTL DEF Spec

\* Every variable keeps its type, and no datagram is longer than the CHUNK bytes
\* that image_save may send, or reaches behind its frame.
THEOREM ViewerTypeCorrect == Spec => []TypeOK
  <1>1. IInv => TypeOK
    BY DEF IInv
  <1> QED
    BY <1>1, ViewerInvariant, PTL

\* Whoever is connected gets each picture from the moment it is pushed, for any
\* browsers that come and go, with any faults.
THEOREM ViewersKeepStep == Spec => []ViewersInStep
  <1>1. IInv => ViewersInStep
    BY DEF IInv
  <1> QED
    BY <1>1, ViewerInvariant, PTL

\* Without a fault the viewer pushes every picture as soon as its last byte is
\* there, whole, once and in order, and nothing else: for frames and datagrams of
\* every size, slots of any age and any pictures, the datagrams may be cut
\* through a marker and the slots hold what older pictures left.
THEOREM StreamIsClean == Spec => []CleanStream
  BY CleanByInvariant, ViewerInvariant, PTL

\* A picture is lost only when a fault has hit its own frame or the one in front of
\* it, for any faults at any places: frames and datagrams of every size, cut
\* through markers, spliced, repeated and out of order, and viewers started again.
THEOREM OnlyHitAreLost == Spec => []OnlyHitFramesLost
  BY LossByInvariant, ViewerInvariant, PTL

\* However often there were faults, the pictures that are lost are at most four for
\* each of them: its own two at most, and the ones behind.
THEOREM LossIsFew ==
  Spec => [](~HasPicture =>
               Cardinality({k \in DOMAIN pictures : Passed(k) /\ pictures[k] \notin Range(pushed)})
                 <= 4 * faults)
  <1>1. Init => HitsCounted
    <2> SUFFICES ASSUME Init
                 PROVE  HitsCounted
      OBVIOUS
    <2>1. damaged = {} /\ faults = 0
      BY DEF Init
    <2>2. Cardinality(damaged) = 0
      BY <2>1, FS_EmptySet
    <2> QED
      BY <2>1, <2>2 DEF HitsCounted
  <1>2. TypeOK /\ HitsCounted /\ [Next]_vars => HitsCounted'
    <2>1. TypeOK /\ HitsCounted /\ Next => HitsCounted'
      BY HitsStep
    <2>2. HitsCounted /\ UNCHANGED vars => HitsCounted'
      BY DEF HitsCounted, vars, faultVars
    <2> QED
      BY <2>1, <2>2
  <1>3. TypeOK /\ HitsCounted /\ OnlyHitFramesLost =>
          (~HasPicture =>
             Cardinality({k \in DOMAIN pictures : Passed(k) /\ pictures[k] \notin Range(pushed)})
               <= 4 * faults)
    BY FewAreLost
  <1> QED
    BY <1>1, <1>2, <1>3, ViewerTypeCorrect, OnlyHitAreLost, PTL DEF Spec
=============================================================================
