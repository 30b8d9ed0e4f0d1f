---------------------------- MODULE Codec_proofs ----------------------------
(***************************************************************************)
(* Proofs about Codec, for packets of every length, paddings of every size *)
(* and streams of any form: which of them Decompress gives to inflate, and  *)
(* that a string then comes back whole.                                    *)
(***************************************************************************)
EXTENDS Codec, TLAPS

\* Arithmetic of uint32_t that does not wrap is arithmetic.
LEMMA NoWrap ==
  ASSUME NEW n \in Nat \ {0}, NEW x \in 0 .. n - 1
  PROVE  x % n = x
BY SMT

\* Compress deflates all of a string.
WholeString ==
  stage # "none" /\ packet.zero < packet.length => deflated = packet.zero + 1

IInv ==
  /\ packet \in AllPackets /\ packet.length + Pad + Beyond < U32
  /\ stage \in {"none", "sent", "received"}
  /\ deflated \in Nat
  /\ stream.bytes \in 0 .. BufferSize /\ stream.zero \in 0 .. BufferSize + Beyond
  /\ WholeString /\ StringRestored

USE CodecAssumption

LEMMA PacketType ==
  ASSUME packet \in AllPackets
  PROVE  packet.length \in Nat \ {0} /\ packet.zero \in Nat /\ packet.length <= MaxLength
BY DEF AllPackets

LEMMA LesserType ==
  ASSUME NEW m \in Nat, NEW n \in Nat
  PROVE  Lesser(m, n) \in Nat /\ Lesser(m, n) <= m /\ Lesser(m, n) <= n /\ (m <= n => Lesser(m, n) = m)
BY DEF Lesser

\* strlen of the packet is a number, and the first zero if the packet has one.
LEMMA StrLenType ==
  ASSUME packet \in AllPackets, NEW len \in StrLen
  PROVE  len \in Nat /\ (packet.zero < packet.length => len = packet.zero)
BY PacketType DEF StrLen, BufferSize

\* What inflate is given: the size less strlen, or more than any frame if strlen is
\* greater than the size.
LEMMA InflateInType ==
  ASSUME NEW size \in Nat, size = BufferSize, size + Beyond < U32, NEW len \in 0 .. size + Beyond
  PROVE  IF len <= size THEN InflateIn(len) = size - len ELSE InflateIn(len) > size
<1>1. CASE len <= size
  <2>1. size - len \in 0 .. U32 - 1
    BY <1>1
  <2> QED BY <1>1, <2>1, NoWrap DEF InflateIn
<1>2. CASE len > size
  <2>1. (size - len) + U32 \in 0 .. U32 - 1 /\ (size - len) + U32 > size
    BY <1>2
  <2>2. (size - len) % U32 = (size - len) + U32
    BY <2>1, <1>2
  <2> QED BY <1>2, <2>1, <2>2 DEF InflateIn
<1> QED BY <1>1, <1>2

LEMMA InvInit == Init => IInv
BY PacketType DEF Init, IInv, WholeString, StringRestored, AllPackets, BufferSize

LEMMA SendKeeps == IInv /\ Send => IInv'
<1> SUFFICES ASSUME IInv, Send PROVE IInv'
  OBVIOUS
<1>1. PICK len \in StrLen :
        \E full \in MinStream .. AvailIn(len) + Expansion :
          LET bytes == Lesser(full, BufferSize) IN
            /\ deflated' = AvailIn(len)
            /\ \E zero \in HeaderBytes .. BufferSize + Beyond :
                 stream' = [bytes |-> bytes, complete |-> full <= BufferSize, zero |-> zero]
  BY DEF Send, Compress
<1>2. PICK full \in MinStream .. AvailIn(len) + Expansion :
        LET bytes == Lesser(full, BufferSize) IN
          /\ deflated' = AvailIn(len)
          /\ \E zero \in HeaderBytes .. BufferSize + Beyond :
               stream' = [bytes |-> bytes, complete |-> full <= BufferSize, zero |-> zero]
  BY <1>1
<1>3. PICK zero \in HeaderBytes .. BufferSize + Beyond :
        stream' = [bytes |-> Lesser(full, BufferSize), complete |-> full <= BufferSize, zero |-> zero]
  BY <1>2
<1>4. packet.length \in Nat /\ packet.zero \in Nat /\ BufferSize \in Nat
  BY PacketType DEF IInv, BufferSize
<1>5. len \in Nat /\ (packet.zero < packet.length => len = packet.zero)
  BY <1>4, StrLenType DEF IInv
<1>6. full \in Nat /\ Lesser(full, BufferSize) \in 0 .. BufferSize /\ zero \in 0 .. BufferSize + Beyond
  BY <1>4, <1>5, LesserType DEF AvailIn
<1>7. deflated' = len + 1
  BY <1>2 DEF AvailIn
<1>8. stream'.bytes \in 0 .. BufferSize /\ stream'.zero \in 0 .. BufferSize + Beyond
  BY <1>3, <1>6
<1>9. packet' = packet /\ BufferSize' = BufferSize /\ stage' = "sent"
  BY DEF Send, BufferSize
<1>10. WholeString' /\ StringRestored'
  BY <1>4, <1>5, <1>7, <1>9 DEF WholeString, StringRestored
<1> QED BY <1>5, <1>7, <1>8, <1>9, <1>10 DEF IInv

LEMMA ReceiveKeeps == IInv /\ Receive => IInv'
<1> SUFFICES ASSUME IInv, Receive PROVE IInv'
  OBVIOUS
<1>1. /\ packet' = packet /\ deflated' = deflated /\ stream' = stream
      /\ stage = "sent" /\ stage' = "received"
  BY DEF Receive
<1>2. /\ available' = InflateIn(stream.zero)
      /\ stream.complete /\ stream.bytes <= available' => inflated' = Lesser(deflated, BufferSize)
  BY DEF Receive, Decompress
<1>3. /\ packet.length \in Nat /\ packet.zero \in Nat /\ BufferSize \in Nat
      /\ BufferSize + Beyond < U32 /\ packet.length <= BufferSize
  BY PacketType DEF IInv, BufferSize
<1>4. /\ stream.bytes \in 0 .. BufferSize /\ stream.zero \in 0 .. BufferSize + Beyond
      /\ BufferSize' = BufferSize
  BY <1>1 DEF IInv, BufferSize
<1>5. available' \in Int
  BY <1>2, <1>3, <1>4 DEF InflateIn
<1>6. StreamIsGiven <=> stream.bytes <= available'
  <2>1. IF stream.zero <= BufferSize THEN available' = BufferSize - stream.zero
                                     ELSE available' > BufferSize
    BY <1>2, <1>3, <1>4, InflateInType
  <2>2. PICK given \in Int : given = available'
    BY <1>5
  <2>3. StreamIsGiven <=> stream.bytes <= given
    BY <1>3, <1>4, <2>1, <2>2 DEF StreamIsGiven, StreamHasRoom
  <2> QED BY <2>2, <2>3
<1>7. StringRestored'
  <2>1. StreamIsGiven' <=> StreamIsGiven
    BY <1>1, <1>4 DEF StreamIsGiven, StreamHasRoom
  <2>2. ASSUME stream.complete, StreamIsGiven, packet.zero = packet.length - 1
        PROVE  Lesser(inflated', packet.length) = packet.length
    <3>1. deflated = packet.length
      BY <1>1, <1>3, <2>2 DEF IInv, WholeString
    <3>2. inflated' = Lesser(packet.length, BufferSize)
      BY <1>2, <1>6, <2>2, <3>1
    <3> QED BY <1>3, <3>2, LesserType
  <2>3. stream.complete /\ ~StreamIsGiven => available' < stream.bytes
    BY <1>4, <1>5, <1>6
  <2> QED BY <1>1, <2>1, <2>2, <2>3 DEF StringRestored, Restored
<1> QED BY <1>1, <1>4, <1>7 DEF IInv, WholeString

LEMMA Invariant == Spec => []IInv
<1>1. IInv /\ UNCHANGED vars => IInv'
  BY DEF vars, IInv, WholeString, StringRestored, StreamIsGiven, StreamHasRoom, Restored,
         BufferSize, AllPackets
<1>2. IInv /\ [Next]_vars => IInv'
  BY <1>1, SendKeeps, ReceiveKeeps DEF Next
<1> QED BY InvInit, <1>2, PTL DEF Spec

\* Decompress in point-to-point-net-device.cc gives inflate the whole of a stream
\* exactly if the frame has as much room behind it as it has bytes before its first zero,
\* or no zero at all; and a string whose stream is given comes back whole.
THEOREM StringsAreRestored == Spec => []StringRestored
<1>1. IInv => StringRestored
  BY DEF IInv
<1> QED BY Invariant, <1>1, PTL
=============================================================================
