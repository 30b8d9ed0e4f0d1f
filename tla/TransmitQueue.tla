---------------------------- MODULE TransmitQueue ----------------------------
(***************************************************************************)
(* The DropTailQueue of a device with its counters and the NetDeviceQueue  *)
(* that stops and wakes the queue disc, for a MaxSize in packets or in     *)
(* bytes.  PointToPointNetDevice counts packets; here a frame is its size, *)
(* and the device is what it does to its queue.                            *)
(*                                                                         *)
(* The flow-control traces test for room for a packet of MTU bytes.  The   *)
(* frames in the queue are longer than their packets: by the PPP header,   *)
(* and a compressed one by 8 bytes more.                                   *)
(***************************************************************************)
EXTENDS Integers, Sequences

CONSTANTS
  Limits,        \* QueueSize values to try for MaxSize
  Mtu,           \* the device's MTU: the longest packet of the upper layer
  PacketSizes,   \* sizes of the upper layer's packets
  Overheads,     \* 2, the PPP header; 10, the header and a longer buffer
  MaxSends       \* bound: frames given to Enqueue

QueueSizes == [unit : {"packets", "bytes"}, value : Nat]

ASSUME QueueAssumption ==
  /\ Limits \subseteq QueueSizes /\ MaxSends \in Nat
  /\ Mtu \in Nat \ {0} /\ PacketSizes \subseteq 1 .. Mtu /\ Overheads \subseteq Nat \ {0}

FrameSizes == {p + h : p \in PacketSizes, h \in Overheads}

VARIABLES
  m_maxSize,          \* attribute MaxSize of the queue
  connected,          \* has DoInitialize connected the traces?
  m_packets,          \* the queue, as the sizes of its frames
  m_nPackets, m_nBytes,
  m_nTotalReceivedBytes,
  m_nTotalDroppedBytesBeforeEnqueue, m_nTotalDroppedBytesAfterDequeue,
  m_stoppedByDevice,  \* state of the NetDeviceQueue
  busy,               \* is the device transmitting?
  transmittedBytes,   \* bytes the device has taken for transmission
  sends

queueVars == <<m_packets, m_nPackets, m_nBytes, m_nTotalReceivedBytes,
               m_nTotalDroppedBytesBeforeEnqueue, m_nTotalDroppedBytesAfterDequeue>>
vars == <<m_maxSize, connected, queueVars, m_stoppedByDevice, busy, transmittedBytes, sends>>

Init ==
  /\ m_maxSize \in Limits
  /\ connected = FALSE
  /\ m_packets = <<>> /\ m_nPackets = 0 /\ m_nBytes = 0
  /\ m_nTotalReceivedBytes = 0
  /\ m_nTotalDroppedBytesBeforeEnqueue = 0 /\ m_nTotalDroppedBytesAfterDequeue = 0
  /\ m_stoppedByDevice = FALSE /\ busy = FALSE
  /\ transmittedBytes = 0 /\ sends = 0

----------------------------------------------------------------------------

\* GetCurrentSize () + item <= GetMaxSize (), with `packets' and `bytes' queued.
Fits_FullTakesOne(packets, bytes, size) ==
  IF m_maxSize.unit = "packets" THEN packets <= m_maxSize.value
                                ELSE bytes + size <= m_maxSize.value
Fits(packets, bytes, size) ==
  IF m_maxSize.unit = "packets" THEN packets + 1 <= m_maxSize.value
                                ELSE bytes + size <= m_maxSize.value

\* The bytes of a queue's frames: m_nBytes is counted step by step, this is not.
Bytes(frames) ==
  LET upTo[n \in 0 .. Len(frames)] == IF n = 0 THEN 0 ELSE upTo[n - 1] + frames[n]
  IN  upTo[Len(frames)]

\* m_stoppedByDevice after the trace of an enqueue, a dequeue and a refusal.
StoppedAfterEnqueue_Never(stopped, packets, bytes) == stopped
StoppedAfterEnqueue(stopped, packets, bytes) ==
  IF connected /\ ~Fits(packets, bytes, Mtu) THEN TRUE ELSE stopped
StoppedAfterDequeue_RoomForMore(stopped, packets, bytes) ==
  IF connected /\ Fits(packets + 1, bytes + Mtu, Mtu) THEN FALSE ELSE stopped
StoppedAfterDequeue(stopped, packets, bytes) ==
  IF connected /\ Fits(packets, bytes, Mtu) THEN FALSE ELSE stopped
StoppedAfterDiscard(stopped) == IF connected THEN TRUE ELSE stopped

\* DoEnqueue of an item there is room for.
DoEnqueue(size) ==
  /\ m_packets' = Append(m_packets, size)
  /\ m_nPackets' = m_nPackets + 1
  /\ m_nBytes' = m_nBytes + size
  /\ m_nTotalReceivedBytes' = m_nTotalReceivedBytes + size

DoInitialize ==
  /\ ~connected
  /\ connected' = TRUE
  /\ UNCHANGED <<m_maxSize, queueVars, m_stoppedByDevice, busy, transmittedBytes, sends>>

\* The queue disc respects the state of the NetDeviceQueue.
MaySend == sends < MaxSends /\ ~m_stoppedByDevice /\ sends' = sends + 1

\* Send: Enqueue refuses the frame.
SendDiscarded(size) ==
  /\ MaySend
  /\ ~Fits(m_nPackets, m_nBytes, size)
  /\ m_nTotalDroppedBytesBeforeEnqueue' = m_nTotalDroppedBytesBeforeEnqueue + size
  /\ m_stoppedByDevice' = StoppedAfterDiscard(m_stoppedByDevice)
  /\ UNCHANGED <<m_maxSize, connected, m_packets, m_nPackets, m_nBytes, m_nTotalReceivedBytes,
                 m_nTotalDroppedBytesAfterDequeue, busy, transmittedBytes>>

\* Send: the frame waits behind the one that is being transmitted.
SendQueued(size) ==
  /\ MaySend
  /\ Fits(m_nPackets, m_nBytes, size)
  /\ busy
  /\ DoEnqueue(size)
  /\ m_stoppedByDevice' = StoppedAfterEnqueue(m_stoppedByDevice, m_nPackets', m_nBytes')
  /\ UNCHANGED <<m_maxSize, connected, m_nTotalDroppedBytesBeforeEnqueue,
                 m_nTotalDroppedBytesAfterDequeue, busy, transmittedBytes>>

\* Send on an idle transmitter: enqueue, and dequeue the head at once.
SendStarted(size) ==
  /\ MaySend
  /\ Fits(m_nPackets, m_nBytes, size)
  /\ ~busy
  /\ LET queued  == Append(m_packets, size)
         bytes   == (m_nBytes + size) - Head(queued)
         stopped == StoppedAfterEnqueue(m_stoppedByDevice, m_nPackets + 1, m_nBytes + size)
     IN /\ m_packets' = Tail(queued)
        /\ m_nPackets' = m_nPackets
        /\ m_nBytes' = bytes
        /\ transmittedBytes' = transmittedBytes + Head(queued)
        /\ m_stoppedByDevice' = StoppedAfterDequeue(stopped, m_nPackets, bytes)
  /\ m_nTotalReceivedBytes' = m_nTotalReceivedBytes + size
  /\ busy' = TRUE
  /\ UNCHANGED <<m_maxSize, connected, m_nTotalDroppedBytesBeforeEnqueue,
                 m_nTotalDroppedBytesAfterDequeue>>

\* The end of a transmission, and the DoDequeue of the next frame.
CompleteIdle ==
  /\ busy /\ m_packets = <<>>
  /\ busy' = FALSE
  /\ UNCHANGED <<m_maxSize, connected, queueVars, m_stoppedByDevice, transmittedBytes, sends>>

CompleteNext ==
  /\ busy /\ m_packets # <<>>
  /\ m_packets' = Tail(m_packets)
  /\ m_nPackets' = m_nPackets - 1
  /\ m_nBytes' = m_nBytes - Head(m_packets)
  /\ transmittedBytes' = transmittedBytes + Head(m_packets)
  /\ m_stoppedByDevice' = StoppedAfterDequeue(m_stoppedByDevice, m_nPackets', m_nBytes')
  /\ UNCHANGED <<m_maxSize, connected, m_nTotalReceivedBytes, m_nTotalDroppedBytesBeforeEnqueue,
                 m_nTotalDroppedBytesAfterDequeue, busy, sends>>

Complete == CompleteIdle \/ CompleteNext

\* DoRemove: the head is dequeued, with its trace, and dropped.  DropAfterDequeue
\* calls the dequeue trace again, which finds what the first call found.
Remove ==
  /\ m_packets # <<>>
  /\ m_packets' = Tail(m_packets)
  /\ m_nPackets' = m_nPackets - 1
  /\ m_nBytes' = m_nBytes - Head(m_packets)
  /\ m_nTotalDroppedBytesAfterDequeue' = m_nTotalDroppedBytesAfterDequeue + Head(m_packets)
  /\ m_stoppedByDevice' = StoppedAfterDequeue(m_stoppedByDevice, m_nPackets', m_nBytes')
  /\ UNCHANGED <<m_maxSize, connected, m_nTotalReceivedBytes, m_nTotalDroppedBytesBeforeEnqueue,
                 busy, transmittedBytes, sends>>

\* Flush: Remove until the queue is empty.  Of the traces' tests the last one,
\* with nothing left, has the most room.
Flush ==
  /\ m_packets # <<>>
  /\ m_packets' = <<>>
  /\ m_nPackets' = m_nPackets - Len(m_packets)
  /\ m_nBytes' = m_nBytes - Bytes(m_packets)
  /\ m_nTotalDroppedBytesAfterDequeue' = m_nTotalDroppedBytesAfterDequeue + Bytes(m_packets)
  /\ m_stoppedByDevice' = StoppedAfterDequeue(m_stoppedByDevice, m_nPackets', m_nBytes')
  /\ UNCHANGED <<m_maxSize, connected, m_nTotalReceivedBytes, m_nTotalDroppedBytesBeforeEnqueue,
                 busy, transmittedBytes, sends>>

Next ==
  \/ DoInitialize
  \/ \E size \in FrameSizes : SendDiscarded(size) \/ SendQueued(size) \/ SendStarted(size)
  \/ Complete \/ Remove \/ Flush

\* The simulator executes the pending end of a transmission.
Spec == Init /\ [][Next]_vars /\ WF_vars(Complete)

----------------------------------------------------------------------------
(* Properties *)

\* The counters agree with the queue and with each other: every byte the queue
\* received is in it, was transmitted or was dropped after its dequeue, and the
\* queue never holds more than MaxSize.
CountersAgree ==
  /\ m_nPackets = Len(m_packets) /\ m_nBytes = Bytes(m_packets)
  /\ m_nTotalReceivedBytes =
       m_nBytes + transmittedBytes + m_nTotalDroppedBytesAfterDequeue
  /\ (IF m_maxSize.unit = "packets" THEN m_nPackets ELSE m_nBytes) <= m_maxSize.value

\* PacketDiscarded: "This should not happen if the device correctly stops the
\* queue".  With the traces connected and the queue stopped or with room for an
\* MTU, that stays so; and what is discarded is then a frame longer than the MTU
\* in a queue limited in bytes.
Guarded == m_stoppedByDevice \/ Fits(m_nPackets, m_nBytes, Mtu)
DiscardedTooLong ==
  m_nTotalDroppedBytesBeforeEnqueue' # m_nTotalDroppedBytesBeforeEnqueue =>
    /\ m_maxSize.unit = "bytes"
    /\ m_nTotalDroppedBytesBeforeEnqueue' - m_nTotalDroppedBytesBeforeEnqueue > Mtu
OnlyLongFramesDiscarded ==
  [][connected /\ Guarded => Guarded' /\ DiscardedTooLong]_vars

\* A queue disc that is stopped waits for a frame in the queue behind one that is being
\* transmitted, provided that MaxSize admits every frame and the room for an MTU that the
\* traces ask for: with a smaller one, a frame that is refused by an empty queue
\* stops the queue while no transmission is left that would wake it.
AdmitsEveryFrame == \A size \in FrameSizes \union {Mtu} : Fits(0, 0, size)
StoppedIsServed ==
  AdmitsEveryFrame /\ m_stoppedByDevice => busy /\ m_packets # <<>>

\* ... and so it will be woken.
StoppedQueueIsWoken ==
  AdmitsEveryFrame /\ m_stoppedByDevice ~> ~m_stoppedByDevice
=============================================================================
