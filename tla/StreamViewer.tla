----------------------------- MODULE StreamViewer -----------------------------
(***************************************************************************)
(* From the ring to the screen.  image_save of src/middleware/image/image.c *)
(* sends a slot of FRAME_SIZE bytes in datagrams; a slot keeps what earlier *)
(* frames left behind a shorter one.  The network loses, delays and repeats *)
(* datagrams.  src/utils/stream-viewer/stream-viewer.js joins what arrives  *)
(* and cuts it at the markers of a JPEG picture, and hands the pictures to  *)
(* the browsers that are connected.                                         *)
(*                                                                          *)
(* Its handlers run one at a time, and what they queue in the streams of    *)
(* Node.js is done before the next event: each is one action, but for the   *)
(* loop of _transform, whose every round is one.                            *)
(***************************************************************************)
EXTENDS Integers, Sequences, SequencesExt, FiniteSets

CONSTANTS
  FRAME_SIZE,         \* 320 * 240 in the code
  CHUNK,              \* bytes of a datagram, 1024 in the code
  SLOTS,              \* slots of incomingBuffer, 128 in the code
  Bodies,             \* what may be between the markers of a picture
  Client,             \* connections from browsers
  MAX_FRAMES,         \* a bound on the frames sent
  MAX_FAULTS,         \* a bound on the faults
  MAX_TRANSIT         \* a bound on the datagrams in transit

startMarker == <<"FF", "D8">>
endMarker == <<"FF", "D9">>
Jpeg(body) == startMarker \o body \o endMarker

ASSUME SizesAssumption ==
  /\ {FRAME_SIZE, CHUNK, SLOTS, MAX_TRANSIT} \subseteq Nat \ {0}
  /\ {MAX_FRAMES, MAX_FAULTS} \subseteq Nat
\* The values of a byte: those of the markers, 00, and the others.
Value == {"FF", "D8", "D9", "00", "xx"}
\* The webcam sends whole pictures that fit, with no marker inside.
ASSUME JpegAssumption ==
  \A body \in Bodies : LET picture == Jpeg(body) IN
    /\ body \in Seq(Value)
    /\ Len(picture) <= FRAME_SIZE
    /\ \A i \in 2 .. Len(picture) - 1 : SubSeq(picture, i, i + 1) # startMarker
    /\ \A i \in 1 .. Len(picture) - 2 : SubSeq(picture, i, i + 1) # endMarker

VARIABLES
  slots,              \* incomingBuffer
  sending,            \* the bytes that image_save sends, none when it is done
  wBytes,             \* how many it has sent
  net,                \* datagrams in transit
  frameBuffer,        \* what FrameTransform has not pushed yet
  flowing,            \* FrameTransform has had a listener
  ready,              \* pictures that wait in it for the first one
  listeners,          \* its listeners, one per connection
  clients,            \* the open connections
  got,                \* history: what each has been sent
  since,              \* history: the pictures pushed before its first one
  pictures,           \* history: what the webcam made
  frames,             \* history: the slots that image_save was given
  pushed,             \* history: what FrameTransform has pushed
  faults,             \* history: faults so far
  damaged,            \* history: the frames that a fault has hit
  latest              \* history: the place behind the last datagram that arrived

senderVars == <<slots, sending, wBytes, pictures, frames>>
faultVars == <<faults, damaged>>
serverVars == <<flowing, ready, listeners, clients, got, since>>
vars == <<senderVars, net, frameBuffer, pushed, serverVars, faultVars, latest>>

\* A byte carries its frame and its place there; the slots start with zeros.
Byte == [frame : 0 .. MAX_FRAMES, place : 0 .. FRAME_SIZE, value : Value]
Zero == [frame |-> 0, place |-> 0, value |-> "00"]
Slot == [1 .. FRAME_SIZE -> Byte]

\* A datagram, and where in its frame it comes from.
Datagram ==
  {d \in [frame : 1 .. MAX_FRAMES, at : 0 .. FRAME_SIZE - 1, data : Seq(Byte)] :
     Len(d.data) \in 1 .. CHUNK /\ d.at + Len(d.data) <= FRAME_SIZE}

End(datagram) == datagram.at + Len(datagram.data)

TypeOK ==
  /\ slots \in [0 .. SLOTS - 1 -> Slot]
  /\ sending \in Slot \cup {<<>>}
  /\ wBytes \in 0 .. FRAME_SIZE
  /\ net \in Seq(Datagram)
  /\ frameBuffer \in Seq(Byte)
  /\ flowing \in BOOLEAN
  /\ ready \in Seq(Seq(Byte))
  /\ listeners \subseteq Client /\ clients \subseteq Client
  /\ got \in [Client -> Seq(Seq(Byte))]
  /\ since \in [Client -> Nat]
  /\ pictures \in Seq(Seq(Byte)) /\ Len(pictures) <= MAX_FRAMES
  /\ frames \in Seq(Slot)
  /\ pushed \in Seq(Seq(Byte))
  /\ faults \in 0 .. MAX_FAULTS
  /\ damaged \subseteq 1 .. MAX_FRAMES
  /\ latest \in [frame : 0 .. MAX_FRAMES, at : 1 .. FRAME_SIZE]

Init ==
  /\ slots = [s \in 0 .. SLOTS - 1 |-> [i \in 1 .. FRAME_SIZE |-> Zero]]
  /\ sending = <<>> /\ wBytes = 0
  /\ net = <<>>
  /\ frameBuffer = <<>>
  /\ flowing = FALSE /\ ready = <<>>
  /\ listeners = {} /\ clients = {}
  /\ got = [c \in Client |-> <<>>] /\ since = [c \in Client |-> 0]
  /\ pictures = <<>> /\ frames = <<>> /\ pushed = <<>>
  /\ faults = 0 /\ damaged = {}
  /\ latest = [frame |-> 0, at |-> FRAME_SIZE]

-----------------------------------------------------------------------------
(* The board.                                                               *)

\* The bytes of a picture.
Picture(k, body) ==
  [i \in DOMAIN Jpeg(body) |-> [frame |-> k, place |-> i, value |-> Jpeg(body)[i]]]

\* memcpy: behind a shorter picture the slot is what it was.
CopiedOver(slot, picture) == picture \o SubSeq(slot, Len(picture) + 1, FRAME_SIZE)

\* framebuffer_writeframe copies the picture into its slot, and the slot goes
\* through the rings to image_save.
NextFrame ==
  /\ sending = <<>>
  /\ Len(pictures) < MAX_FRAMES
  /\ \E body \in Bodies :
       LET k == Len(pictures) + 1
           slot == CopiedOver(slots[k % SLOTS], Picture(k, body))
       IN /\ slots' = [slots EXCEPT ![k % SLOTS] = slot]
          /\ sending' = slot
          /\ pictures' = Append(pictures, Picture(k, body))
          /\ frames' = Append(frames, slot)
  /\ wBytes' = 0
  /\ UNCHANGED <<net, frameBuffer, pushed, serverVars, faultVars, latest>>

\* MUTANT: a datagram takes all that is left.
Mut_ChunkEnd == FRAME_SIZE

\* CLAMP_UPPER
ChunkEnd == IF FRAME_SIZE - wBytes > CHUNK THEN wBytes + CHUNK ELSE FRAME_SIZE

\* A round of the loop in image_save.
SendTo ==
  /\ sending # <<>>
  /\ Len(net) < MAX_TRANSIT
  /\ net' = Append(net, [frame |-> Len(pictures), at |-> wBytes,
                         data |-> SubSeq(sending, wBytes + 1, ChunkEnd)])
  /\ wBytes' = ChunkEnd
  /\ sending' = IF ChunkEnd < FRAME_SIZE THEN sending ELSE <<>>
  /\ UNCHANGED <<slots, pictures, frames, frameBuffer, pushed, serverVars, faultVars, latest>>

\* A fault, and the frames it hits.
Fault(hit) ==
  /\ faults < MAX_FAULTS /\ faults' = faults + 1
  /\ damaged' = damaged \cup hit

\* sendto or socket fails: the rest of the frame is given up.
SendFails ==
  /\ sending # <<>>
  /\ Fault({Len(pictures)})
  /\ sending' = <<>>
  /\ UNCHANGED <<slots, wBytes, pictures, frames, net, frameBuffer, pushed, serverVars, latest>>

-----------------------------------------------------------------------------
(* The network.  A datagram is also lost when nobody listens on the port.   *)

Lose(i) ==
  /\ Fault({net[i].frame})
  /\ net' = RemoveAt(net, i)

Overtake(i) ==
  /\ i > 1
  /\ Fault({net[i - 1].frame, net[i].frame})
  /\ net' = [net EXCEPT ![i] = net[i - 1], ![i - 1] = net[i]]

Repeat(i) ==
  /\ Len(net) < MAX_TRANSIT
  /\ Fault({net[i].frame})
  /\ net' = InsertAt(net, i, net[i])

NetworkFault ==
  /\ \E i \in DOMAIN net : Lose(i) \/ Overtake(i) \/ Repeat(i)
  /\ UNCHANGED <<senderVars, frameBuffer, pushed, serverVars, latest>>

-----------------------------------------------------------------------------
(* The viewer.                                                              *)

\* Where a marker is in a buffer, from one place on.
IsAt(marker, buffer, i) ==
  buffer[i].value = marker[1] /\ buffer[i + 1].value = marker[2]

Places(buffer, marker, from) ==
  {i \in from .. Len(buffer) - 1 : IsAt(marker, buffer, i)}

\* indexOf: the first of them, if any.
IndexOf(buffer, marker, from) ==
  {i \in Places(buffer, marker, from) :
     \A j \in Places(buffer, marker, from) : i <= j}

\* MUTANT: the transform looks at each datagram alone.
Mut_Joined(buffer, data) == data

\* MUTANT: the buffer is given a bound, and what does not fit is dropped.
Mut2_Joined(buffer, data) ==
  IF Len(buffer \o data) < 2 * FRAME_SIZE THEN buffer \o data ELSE buffer

Joined(buffer, data) == buffer \o data

\* MUTANT: only the picture is cut out, and not what is in front of it.
Mut_Rest(buffer, start, end) ==
  SubSeq(buffer, 1, start - 1) \o SubSeq(buffer, end + Len(endMarker), Len(buffer))

Rest(buffer, start, end) == SubSeq(buffer, end + Len(endMarker), Len(buffer))

\* The condition of the loop in _transform; between two events it is false.
HasPicture ==
  \E start \in IndexOf(frameBuffer, startMarker, 1) :
    IndexOf(frameBuffer, endMarker, start) # {}

\* A message; the loop of _transform follows.
Message ==
  /\ ~HasPicture
  /\ net # <<>>
  /\ net' = Tail(net)
  /\ frameBuffer' = Joined(frameBuffer, Head(net).data)
  /\ latest' = [frame |-> Head(net).frame, at |-> End(Head(net))]
  /\ UNCHANGED <<senderVars, pushed, serverVars, faultVars>>

\* push, up to the listeners; before there is one, pictures wait.
Deliver(completeFrame) ==
  /\ pushed' = Append(pushed, completeFrame)
  /\ ready' = IF flowing THEN ready ELSE Append(ready, completeFrame)
  /\ got' = [c \in Client |-> IF flowing /\ c \in listeners
                              THEN Append(got[c], completeFrame) ELSE got[c]]

\* A round of the loop, from the first start marker to the first end marker
\* behind it.
Push ==
  /\ \E start \in IndexOf(frameBuffer, startMarker, 1) :
       \E end \in IndexOf(frameBuffer, endMarker, start) :
         /\ Deliver(SubSeq(frameBuffer, start, end + Len(endMarker) - 1))
         /\ frameBuffer' = Rest(frameBuffer, start, end)
  /\ UNCHANGED <<senderVars, net, flowing, listeners, clients, since, faultVars, latest>>

\* A browser connects, for the first time or again, as index.html does every
\* five seconds.  The first listener lets the stream flow, and nothing stops it.
Connect(c) ==
  /\ ~HasPicture
  /\ c \notin clients
  /\ clients' = clients \cup {c}
  /\ listeners' = listeners \cup {c}
  /\ flowing' = TRUE
  /\ got' = [got EXCEPT ![c] = IF flowing THEN <<>> ELSE ready]
  /\ since' = [since EXCEPT ![c] = Len(pushed) - Len(got'[c])]
  /\ ready' = <<>>
  /\ UNCHANGED <<senderVars, net, frameBuffer, pushed, faultVars, latest>>

\* MUTANT: removeAllListeners('data').
Mut_WithoutListener(c) == {}

WithoutListener(c) == listeners \ {c}

Close(c) ==
  /\ ~HasPicture
  /\ c \in clients
  /\ clients' = clients \ {c}
  /\ listeners' = WithoutListener(c)
  /\ got' = [got EXCEPT ![c] = <<>>] /\ since' = [since EXCEPT ![c] = 0]
  /\ UNCHANGED <<senderVars, net, frameBuffer, pushed, flowing, ready, faultVars, latest>>

\* The viewer is started again, with nothing in its buffers.  That hits the frame
\* that is arriving, if any has.
Restart ==
  /\ Fault({latest.frame} \ {0})
  /\ frameBuffer' = <<>>
  /\ flowing' = FALSE /\ ready' = <<>>
  /\ listeners' = {} /\ clients' = {}
  /\ got' = [c \in Client |-> <<>>] /\ since' = [c \in Client |-> 0]
  /\ UNCHANGED <<senderVars, net, pushed, latest>>

Next ==
  \/ NextFrame \/ SendTo \/ SendFails \/ NetworkFault
  \/ Message \/ Push \/ Restart
  \/ \E c \in Client : Connect(c) \/ Close(c)

Spec == Init /\ [][Next]_vars

-----------------------------------------------------------------------------

\* The last byte of picture k has been sent, and is not in transit.
Arrived(k) ==
  /\ k < Len(pictures) \/ sending = <<>> \/ wBytes >= Len(pictures[k])
  /\ \A i \in DOMAIN net : net[i].frame = k => Last(pictures[k]) \notin Range(net[i].data)

\* Without a fault the viewer pushes every picture as soon as its last byte is
\* there, whole, once and in order, and nothing else: neither a marker split
\* over two datagrams nor what older pictures left in the slot (framebuffer.c:138)
\* confuses the search for markers (stream-viewer.js:26).
CleanStream ==
  faults = 0 /\ ~HasPicture =>
    pushed = SubSeq(pictures, 1, Cardinality({k \in DOMAIN pictures : Arrived(k)}))

\* No byte of frame k is still to come.
Passed(k) ==
  /\ k < Len(pictures) \/ sending = <<>>
  /\ \A i \in DOMAIN net : net[i].frame # k

\* A fault costs at most two pictures, its own and one it was spliced with: a
\* datagram that is lost, late or repeated, a sendto that failed in the middle of
\* a frame and a viewer that was restarted never desynchronise the viewer for
\* longer, although nothing but the markers tells it where a picture starts.
LossIsLocal ==
  ~HasPicture =>
    Cardinality({k \in DOMAIN pictures : Passed(k) /\ pictures[k] \notin Range(pushed)})
      <= 2 * faults

\* A picture is lost only when a fault has hit its own frame or the one in front
\* of it, with which it can be spliced: every other picture is pushed whole, no
\* matter how many faults there were and where, for nothing that the viewer keeps
\* of a frame that was hit outlives the next whole one (stream-viewer.js:26).
OnlyHitFramesLost ==
  ~HasPicture =>
    \A k \in DOMAIN pictures :
      Passed(k) /\ damaged \cap {k - 1, k} = {} => pictures[k] \in Range(pushed)

\* What the viewer keeps is at most a frame for each fault, on top of the frame
\* that is arriving and the rest of a slot behind the shortest picture: its
\* buffer, which the code gives no bound, does not grow with the stream.
PendingBounded ==
  ~HasPicture =>
    Len(frameBuffer) < (faults + 2) * FRAME_SIZE - Len(startMarker \o endMarker)

\* Whoever is connected gets each picture from the moment it is pushed, until it
\* closes its own connection; and once somebody was connected no picture waits,
\* not even while nobody is, to be shown late to the next one.
ViewersInStep ==
  /\ \A c \in clients : got[c] = SubSeq(pushed, since[c] + 1, Len(pushed))
  /\ flowing => ready = <<>>

-----------------------------------------------------------------------------
(* The inductive invariant behind CleanStream and ViewersInStep.            *)

\* A frame that was sent is a picture, and behind it what older ones left in
\* the slot, among which there is no start marker.
IsSent(k) ==
  LET length == Len(pictures[k]) IN
    /\ length \in 4 .. FRAME_SIZE
    /\ \A i \in 1 .. length :
         frames[k][i] = pictures[k][i] /\ frames[k][i].frame = k
    /\ \A i \in length + 1 .. FRAME_SIZE : frames[k][i].frame < k
    /\ IsAt(startMarker, frames[k], 1) /\ IsAt(endMarker, frames[k], length - 1)
    /\ \A i \in 2 .. FRAME_SIZE - 1 : ~IsAt(startMarker, frames[k], i)
    /\ \A i \in 1 .. length - 2 : ~IsAt(endMarker, frames[k], i)

FramesInv ==
  /\ \A s \in 0 .. SLOTS - 1 :
       /\ \A i \in 2 .. FRAME_SIZE - 1 : ~IsAt(startMarker, slots[s], i)
       /\ \A i \in 1 .. FRAME_SIZE : slots[s][i].frame <= Len(pictures)
  /\ Len(frames) = Len(pictures)
  /\ \A k \in DOMAIN pictures : IsSent(k)
  /\ sending # <<>> =>
       frames # <<>> /\ sending = frames[Len(frames)] /\ wBytes < FRAME_SIZE

\* A place in the stream of bytes is a frame and a number of its bytes.
Follows(k, m, next, at) ==
  IF m = FRAME_SIZE THEN next = k + 1 /\ at = 0 ELSE next = k /\ at = m

NotAfter(k, m, next, at) == k < next \/ (k = next /\ m <= at)

\* What image_save sends next.
NextSent == IF sending = <<>> THEN Len(pictures) + 1 ELSE Len(pictures)
NextAt == IF sending = <<>> THEN 0 ELSE wBytes

\* How much of a frame is the picture; the stream begins behind a frame 0.
Length(k) == IF k = 0 THEN FRAME_SIZE ELSE Len(pictures[k])

\* Without a fault, the datagrams in transit are the stream from byte m of
\* frame k, the last that has arrived, to where image_save is.
TransitInv(k, m) ==
  /\ IF net = <<>>
       THEN Follows(k, m, NextSent, NextAt)
       ELSE /\ Follows(k, m, net[1].frame, net[1].at)
            /\ Follows(net[Len(net)].frame, End(net[Len(net)]), NextSent, NextAt)
  /\ \A i \in 1 .. Len(net) - 1 :
       Follows(net[i].frame, End(net[i]), net[i + 1].frame, net[i + 1].at)
  /\ \A i, j \in DOMAIN net :
       i < j => NotAfter(net[i].frame, End(net[i]), net[j].frame, net[j].at)
  /\ \A i \in DOMAIN net :
       /\ NotAfter(k, m, net[i].frame, net[i].at)
       /\ NotAfter(net[i].frame, End(net[i]), NextSent, NextAt)
       /\ net[i].frame <= Len(pictures)
       /\ \A j \in DOMAIN net[i].data : net[i].data[j] = frames[net[i].frame][net[i].at + j]
  /\ NotAfter(k, m, NextSent, NextAt)
  /\ \A p \in DOMAIN pictures :
       NotAfter(k, m, p, Length(p) - 1) /\ NotAfter(p, Length(p), NextSent, NextAt) =>
         \E i \in DOMAIN net :
           net[i].frame = p /\ net[i].at < Length(p) /\ Length(p) <= End(net[i])

\* Byte i behind picture k in the stream.
Behind(k, i) ==
  IF i <= FRAME_SIZE - Length(k)
    THEN frames[k][Length(k) + i]
    ELSE frames[k + 1][i - (FRAME_SIZE - Length(k))]

\* Without a fault, the viewer has pushed the pictures up to the last that it
\* has all of, and keeps the bytes behind it.
BufferInv(k, m) ==
  LET last == Len(pushed) IN
    /\ \A p \in DOMAIN pushed : pushed[p] = pictures[p]
    /\ k = last \/ k = last + 1
    /\ last <= Len(pictures)
    /\ k = last => Length(last) <= m
    /\ Len(frameBuffer) = m - Length(last) + (IF k = last THEN 0 ELSE FRAME_SIZE)
    /\ \A i \in DOMAIN frameBuffer : frameBuffer[i] = Behind(last, i)

StreamInv ==
  faults = 0 =>
    \E k \in 0 .. Len(pictures), m \in 1 .. FRAME_SIZE :
      /\ k = 0 => m = FRAME_SIZE
      /\ TransitInv(k, m) /\ BufferInv(k, m)

\* With faults, what comes behind a place in the stream is the next byte, unless
\* its frame or the one in front was hit.
Link(end, begin) ==
  /\ end.frame \notin damaged /\ end.at < FRAME_SIZE => begin = end
  /\ begin.frame \notin damaged /\ begin.at > 0 => begin = end
  /\ begin.frame \notin damaged /\ begin.at = 0 /\ begin.frame - 1 \notin damaged =>
       end = [frame |-> begin.frame - 1, at |-> FRAME_SIZE]

\* Where datagram i ends; in front of the first is the last that has arrived.
Ends(i) == IF i = 0 THEN latest ELSE [frame |-> net[i].frame, at |-> End(net[i])]

\* Where datagram i begins; behind the last comes what image_save sends next.
Begins(i) ==
  IF i > Len(net) THEN [frame |-> NextSent, at |-> NextAt]
  ELSE [frame |-> net[i].frame, at |-> net[i].at]

\* What a datagram carries is from its frame, with faults as without.
Genuine(datagram) ==
  /\ datagram.frame <= Len(pictures)
  /\ \A j \in DOMAIN datagram.data :
       datagram.data[j] = frames[datagram.frame][datagram.at + j]

LinkInv ==
  /\ \A i \in 0 .. Len(net) : Link(Ends(i), Begins(i + 1))
  /\ \A i \in DOMAIN net : Genuine(net[i])
  /\ latest.frame <= Len(pictures)
  /\ latest.frame = 0 => latest.at = FRAME_SIZE

\* The viewer keeps what is behind picture k.
KeepsRest(k, m) ==
  /\ Length(k) <= m
  /\ Len(frameBuffer) = m - Length(k)
  /\ \A i \in DOMAIN frameBuffer : frameBuffer[i] = frames[k][Length(k) + i]

\* It keeps what has arrived of frame k, behind bytes that hide no end of picture k
\* and, when the frame in front was not hit, no start.
KeepsFrame(k, m) ==
  LET before == Len(frameBuffer) - m IN
    /\ k > 0
    /\ before >= 0
    /\ \A i \in 1 .. m : frameBuffer[before + i] = frames[k][i]
    /\ \A s \in Places(frameBuffer, startMarker, 1) :
         /\ \A e \in Places(frameBuffer, endMarker, s) : e >= before + Length(k) - 1
         /\ k - 1 \notin damaged => s > before

KeptInv ==
  latest.frame \notin damaged =>
    KeepsRest(latest.frame, latest.at) \/ KeepsFrame(latest.frame, latest.at)

\* A picture whose frame and the one in front were not hit has been pushed, is
\* arriving, or is still to come.
PushedInv ==
  \A k \in DOMAIN pictures :
    damaged \cap {k - 1, k} = {} =>
      \/ pictures[k] \in Range(pushed)
      \/ latest.frame = k /\ KeepsFrame(k, latest.at)
      \/ \E i \in 1 .. Len(net) + 1 : Begins(i) = [frame |-> k, at |-> 0]

LossInv == LinkInv /\ KeptInv /\ PushedInv

\* What waits are the last pictures pushed, and nobody listens yet.
ViewersInv ==
  /\ listeners = clients
  /\ ~flowing => listeners = {}
  /\ Len(ready) <= Len(pushed)
  /\ ready = SubSeq(pushed, Len(pushed) - Len(ready) + 1, Len(pushed))
  /\ \A c \in clients : since[c] <= Len(pushed)

IInv == TypeOK /\ ViewersInStep /\ ViewersInv /\ FramesInv /\ StreamInv /\ LossInv
=============================================================================
