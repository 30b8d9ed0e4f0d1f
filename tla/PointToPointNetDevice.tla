----------------------- MODULE PointToPointNetDevice -----------------------
(***************************************************************************)
(* Two PointToPointNetDevice objects joined by one PointToPointChannel, as *)
(* PointToPointHelper::Install leaves them: the transmit state machine and *)
(* transmit queue of each device, the optional compression of one protocol *)
(* on the way out and its decompression on the way in, and the device-queue *)
(* flow control of NetDeviceQueueInterface.                                *)
(*                                                                         *)
(* The simulator calls one function at a time and runs it to the end, so   *)
(* every handler is one action.  Simulated time is left out: a pending     *)
(* TransmitComplete event and the frames under way on the wire may happen  *)
(* in any order, except that a wire delivers in the order of transmission  *)
(* (constant propagation delay).                                           *)
(***************************************************************************)
EXTENDS Naturals, Sequences, PppProtocol

CONSTANTS
  DevA, DevB,        \* the two devices of the channel
  QueueLimit,        \* MaxSize of the transmit queue, in packets
  MaxSends,          \* bound: calls of Send, per device
  EtherTypes,        \* the EtherTypes the upper layers send
  ConfigProtocol,    \* the PPP number "protocolsToCompress" of config.json
  Compressing,       \* the devices whose Compression attribute is true
  FlowControl,       \* is a NetDeviceQueueInterface aggregated to the devices?
  ReceiveErrors,     \* does a ReceiveErrorModel corrupt some frames?
  NoPacket           \* the null Ptr<Packet>

Devices == {DevA, DevB}
Peer(d) == IF d = DevA THEN DevB ELSE DevA

\* A packet of the upper layer: the n-th that Send is given at device src.
Packets ==
  UNION {[src : {d}, n : 1 .. MaxSends[d], ether : EtherTypes] : d \in Devices}

\* A frame: the packet it stands for, the PPP number of its header, what its
\* bytes are, and how many bytes longer they are than the packet's.
Frames == [packet : Packets, ppp : ProtocolNumbers,
           body : {"plain", "deflated", "inflated"}, pad : {0, 8}]

\* What m_rxCallback is given.
Deliveries == [packet : Packets, ether : ProtocolNumbers,
               body : {"plain", "deflated", "inflated"}, pad : {0, 8}]

ASSUME DevicesAssumption == DevA # DevB /\ Compressing \subseteq Devices
ASSUME BoundsAssumption  == QueueLimit \in Nat \ {0} /\ MaxSends \in [Devices -> Nat]
ASSUME ProtocolAssumption ==
  EtherTypes \subseteq ProtocolNumbers /\ ConfigProtocol \in ProtocolNumbers
ASSUME SwitchAssumption ==
  FlowControl \in BOOLEAN /\ ReceiveErrors \in BOOLEAN
ASSUME NoPacketAssumption == NoPacket \notin Frames

VARIABLES
  m_txMachineState,   \* "READY" or "BUSY"
  m_currentPkt,       \* the frame being transmitted
  m_queue,            \* the transmit queue
  m_linkUp,
  m_protocol,         \* EtherType to compress; 0 until DoInitialize has run
  initialized,        \* has DoInitialize run?
  m_stoppedByDevice,  \* state of the device's NetDeviceQueue
  completions,        \* number of scheduled TransmitComplete events
  wire,               \* wire[d]: frames transmitted by d, not yet received
  sends,              \* calls of Send so far
  txDrops,            \* calls of m_macTxDropTrace
  discards,           \* calls of PacketDiscarded ("BUG! No room ...")
  rxDrops,            \* calls of m_phyRxDropTrace
  passedUp            \* what m_rxCallback was given, in order

txVars   == <<m_txMachineState, m_currentPkt, m_queue, completions, wire>>
flowVars == <<m_stoppedByDevice, discards>>
linkVars == <<m_linkUp, m_protocol, initialized>>
rxVars   == <<rxDrops, passedUp>>
vars == <<txVars, flowVars, linkVars, sends, txDrops, rxVars>>

\* Both devices are constructed and given a queue.
Init ==
  /\ m_txMachineState = [d \in Devices |-> "READY"]
  /\ m_currentPkt = [d \in Devices |-> NoPacket]
  /\ m_queue = [d \in Devices |-> <<>>]
  /\ m_linkUp = [d \in Devices |-> FALSE]
  /\ m_protocol = [d \in Devices |-> 0]
  /\ initialized = [d \in Devices |-> FALSE]
  /\ m_stoppedByDevice = [d \in Devices |-> FALSE]
  /\ completions = [d \in Devices |-> 0]
  /\ wire = [d \in Devices |-> <<>>]
  /\ sends = [d \in Devices |-> 0]
  /\ txDrops = [d \in Devices |-> 0]
  /\ discards = [d \in Devices |-> 0]
  /\ rxDrops = [d \in Devices |-> 0]
  /\ passedUp = [d \in Devices |-> <<>>]

----------------------------------------------------------------------------
(* Set-up *)

\* The link is up as soon as this device is attached, whether or not its peer is.
Attach(d) ==
  /\ ~m_linkUp[d]
  /\ m_linkUp' = [m_linkUp EXCEPT ![d] = TRUE]
  /\ UNCHANGED <<txVars, flowVars, m_protocol, initialized, sends, txDrops, rxVars>>

DoInitialize(d) ==
  /\ ~initialized[d]
  /\ initialized' = [initialized EXCEPT ![d] = TRUE]
  /\ m_protocol' = [m_protocol EXCEPT ![d] = PppToEther(ConfigProtocol)]
  /\ UNCHANGED <<txVars, flowVars, m_linkUp, sends, txDrops, rxVars>>

----------------------------------------------------------------------------
(* Flow control of the transmit queue: NetDeviceQueue, in packets *)

\* ConnectQueueTraces has run: the queue's traces call NetDeviceQueue.
TracesConnected(d) == FlowControl /\ initialized[d]

HasRoom_OffByOne(q) == Len(q) <= QueueLimit
HasRoom(q) == Len(q) + 1 <= QueueLimit

\* DropTailQueue: insert at the tail, take from the head.
Enqueue_AtHead(q, f) == <<f>> \o q
Enqueue(q, f) == Append(q, f)

Dequeue_Peek(q) == q
Dequeue(q) == Tail(q)

\* m_stoppedByDevice after an enqueue, or a dequeue, that leaves the queue q.
PacketEnqueued_Late(d, stopped, q) ==
  IF TracesConnected(d) /\ Len(q) > QueueLimit THEN TRUE ELSE stopped
PacketEnqueued(d, stopped, q) ==
  IF TracesConnected(d) /\ ~HasRoom(q) THEN TRUE ELSE stopped
PacketDequeued_NoWake(d, stopped, q) == stopped
PacketDequeued(d, stopped, q) ==
  IF TracesConnected(d) /\ HasRoom(q) THEN FALSE ELSE stopped
\* ... and after a packet was refused.
PacketDiscarded_Ignored(d, stopped) == stopped
PacketDiscarded(d, stopped) == IF TracesConnected(d) THEN TRUE ELSE stopped

----------------------------------------------------------------------------
(* Transmission *)

\* The frame that leaves Send for the packet: compressed into a buffer 8 bytes
\* longer than the packet and sent as LZS, or with a header in front of it.
Framed_AnyProtocol(d, packet) ==
  IF d \in Compressing
    THEN [packet |-> packet, ppp |-> EtherToPpp(LZS), body |-> "deflated", pad |-> 8]
    ELSE [packet |-> packet, ppp |-> EtherToPpp(packet.ether), body |-> "plain", pad |-> 0]
Framed_OnlyIfIdle(d, packet) ==
  IF d \in Compressing /\ packet.ether = m_protocol[d] /\ m_txMachineState[d] = "READY"
    THEN [packet |-> packet, ppp |-> EtherToPpp(LZS), body |-> "deflated", pad |-> 8]
    ELSE [packet |-> packet, ppp |-> EtherToPpp(packet.ether), body |-> "plain", pad |-> 0]
Framed(d, packet) ==
  IF d \in Compressing /\ packet.ether = m_protocol[d]
    THEN [packet |-> packet, ppp |-> EtherToPpp(LZS), body |-> "deflated", pad |-> 8]
    ELSE [packet |-> packet, ppp |-> EtherToPpp(packet.ether), body |-> "plain", pad |-> 0]

\* TransmitStart(f): called with `pending' TransmitComplete events scheduled.
TransmitStart(d, f, pending) ==
  /\ m_txMachineState' = [m_txMachineState EXCEPT ![d] = "BUSY"]
  /\ m_currentPkt' = [m_currentPkt EXCEPT ![d] = f]
  /\ completions' = [completions EXCEPT ![d] = pending + 1]
  /\ wire' = [wire EXCEPT ![d] = Append(@, f)]

Idle_Ignored(d) == TRUE
Idle(d) == m_txMachineState[d] = "READY"

\* The traffic control layer respects m_stoppedByDevice, and the channel can
\* carry a frame only when both its ends are attached.
MaySend(d) ==
  /\ sends[d] < MaxSends[d]
  /\ m_linkUp[d] => m_linkUp[Peer(d)]
  /\ FlowControl => ~m_stoppedByDevice[d]

NewPacket(d, ether) == [src |-> d, n |-> sends[d] + 1, ether |-> ether]

\* Send with the link down: dropped, and Send returns false.
SendLinkDown(d) ==
  /\ MaySend(d)
  /\ ~m_linkUp[d]
  /\ sends' = [sends EXCEPT ![d] = @ + 1]
  /\ txDrops' = [txDrops EXCEPT ![d] = @ + 1]
  /\ UNCHANGED <<txVars, flowVars, linkVars, rxVars>>

\* Send with a full queue: Enqueue fails, dropped, and Send returns false.
SendOverflow(d) ==
  /\ MaySend(d)
  /\ m_linkUp[d]
  /\ ~HasRoom(m_queue[d])
  /\ sends' = [sends EXCEPT ![d] = @ + 1]
  /\ txDrops' = [txDrops EXCEPT ![d] = @ + 1]
  /\ m_stoppedByDevice' =
       [m_stoppedByDevice EXCEPT ![d] = PacketDiscarded(d, @)]
  /\ discards' = [discards EXCEPT ![d] = IF TracesConnected(d) THEN @ + 1 ELSE @]
  /\ UNCHANGED <<txVars, linkVars, rxVars>>

\* Send while a transmission is going on: the frame waits in the queue.
SendEnqueue(d, ether) ==
  /\ MaySend(d)
  /\ m_linkUp[d]
  /\ HasRoom(m_queue[d])
  /\ ~Idle(d)
  /\ LET q == Enqueue(m_queue[d], Framed(d, NewPacket(d, ether))) IN
       /\ m_queue' = [m_queue EXCEPT ![d] = q]
       /\ m_stoppedByDevice' =
            [m_stoppedByDevice EXCEPT ![d] = PacketEnqueued(d, @, q)]
  /\ sends' = [sends EXCEPT ![d] = @ + 1]
  /\ UNCHANGED <<m_txMachineState, m_currentPkt, completions, wire,
                 discards, linkVars, txDrops, rxVars>>

\* Send on an idle transmitter: enqueue, dequeue the head and transmit that.
SendStart(d, ether) ==
  /\ MaySend(d)
  /\ m_linkUp[d]
  /\ HasRoom(m_queue[d])
  /\ Idle(d)
  /\ LET q == Enqueue(m_queue[d], Framed(d, NewPacket(d, ether))) IN
       /\ TransmitStart(d, Head(q), completions[d])
       /\ m_queue' = [m_queue EXCEPT ![d] = Dequeue(q)]
       /\ m_stoppedByDevice' =
            [m_stoppedByDevice EXCEPT ![d] =
               PacketDequeued(d, PacketEnqueued(d, @, q), Dequeue(q))]
  /\ sends' = [sends EXCEPT ![d] = @ + 1]
  /\ UNCHANGED <<discards, linkVars, txDrops, rxVars>>

\* A TransmitComplete event finds the queue empty: the transmitter goes idle.
TransmitCompleteIdle_LeavesQueue(d) ==
  /\ completions[d] > 0
  /\ m_txMachineState' = [m_txMachineState EXCEPT ![d] = "READY"]
  /\ m_currentPkt' = [m_currentPkt EXCEPT ![d] = NoPacket]
  /\ completions' = [completions EXCEPT ![d] = @ - 1]
  /\ UNCHANGED <<m_queue, wire, flowVars, linkVars, sends, txDrops, rxVars>>
TransmitCompleteIdle(d) ==
  /\ completions[d] > 0
  /\ m_queue[d] = <<>>
  /\ m_txMachineState' = [m_txMachineState EXCEPT ![d] = "READY"]
  /\ m_currentPkt' = [m_currentPkt EXCEPT ![d] = NoPacket]
  /\ completions' = [completions EXCEPT ![d] = @ - 1]
  /\ UNCHANGED <<m_queue, wire, flowVars, linkVars, sends, txDrops, rxVars>>

\* A TransmitComplete event takes the next frame off the queue and sends it.
TransmitCompleteNext(d) ==
  /\ completions[d] > 0
  /\ m_queue[d] # <<>>
  /\ TransmitStart(d, Head(m_queue[d]), completions[d] - 1)
  /\ m_queue' = [m_queue EXCEPT ![d] = Dequeue(@)]
  /\ m_stoppedByDevice' =
       [m_stoppedByDevice EXCEPT ![d] = PacketDequeued(d, @, Dequeue(m_queue[d]))]
  /\ UNCHANGED <<discards, linkVars, sends, txDrops, rxVars>>

TransmitComplete(d) == TransmitCompleteIdle(d) \/ TransmitCompleteNext(d)

----------------------------------------------------------------------------
(* Reception *)

\* What Receive passes up for the frame f.  A compressing device inflates every
\* LZS frame and puts a header in front of it with AddHeader (packet, 0x0021),
\* whose argument is an EtherType.
Unframed(d, f) ==
  IF d \in Compressing /\ f.ppp = LZS
    THEN [packet |-> f.packet, ether |-> PppToEther(EtherToPpp(IPv4Ppp)),
          body |-> "inflated", pad |-> f.pad]
    ELSE [packet |-> f.packet, ether |-> PppToEther(f.ppp),
          body |-> f.body, pad |-> f.pad]

\* The frame at the head of the peer's wire arrives and is passed up.
ReceiveUp(d) ==
  /\ wire[Peer(d)] # <<>>
  /\ passedUp' = [passedUp EXCEPT ![d] = Append(@, Unframed(d, Head(wire[Peer(d)])))]
  /\ wire' = [wire EXCEPT ![Peer(d)] = Tail(@)]
  /\ UNCHANGED <<m_txMachineState, m_currentPkt, m_queue, completions,
                 flowVars, linkVars, sends, txDrops, rxDrops>>

\* The frame arrives and the error model finds it corrupt.
ReceiveCorrupt(d) ==
  /\ ReceiveErrors
  /\ wire[Peer(d)] # <<>>
  /\ rxDrops' = [rxDrops EXCEPT ![d] = @ + 1]
  /\ wire' = [wire EXCEPT ![Peer(d)] = Tail(@)]
  /\ UNCHANGED <<m_txMachineState, m_currentPkt, m_queue, completions,
                 flowVars, linkVars, sends, txDrops, passedUp>>

Receive(d) == ReceiveUp(d) \/ ReceiveCorrupt(d)

----------------------------------------------------------------------------

Send(d) ==
  \/ SendLinkDown(d)
  \/ SendOverflow(d)
  \/ \E ether \in EtherTypes : SendEnqueue(d, ether) \/ SendStart(d, ether)

Next ==
  \E d \in Devices :
    Attach(d) \/ DoInitialize(d) \/ Send(d) \/ TransmitComplete(d) \/ Receive(d)

Spec == Init /\ [][Next]_vars

\* The simulator runs every event it was given: TransmitComplete events and the
\* receptions the channel schedules.  Nothing obliges the upper layers to send.
Fairness ==
  \A d \in Devices : WF_vars(TransmitComplete(d)) /\ WF_vars(Receive(d))

FairSpec == Spec /\ Fairness

----------------------------------------------------------------------------
(* Properties *)

\* Every variable holds a value of its type, and the transmit queue never holds
\* more than its MaxSize (Queue::DoEnqueue).
TypeOK ==
  /\ m_txMachineState \in [Devices -> {"READY", "BUSY"}]
  /\ m_currentPkt \in [Devices -> Frames \union {NoPacket}]
  /\ m_queue \in [Devices -> Seq(Frames)]
  /\ \A d \in Devices : Len(m_queue[d]) <= QueueLimit
  /\ m_linkUp \in [Devices -> BOOLEAN]
  /\ m_protocol \in [Devices -> ProtocolNumbers]
  /\ initialized \in [Devices -> BOOLEAN]
  /\ m_stoppedByDevice \in [Devices -> BOOLEAN]
  /\ completions \in [Devices -> Nat]
  /\ wire \in [Devices -> Seq(Frames)]
  /\ sends \in [Devices -> Nat] /\ \A d \in Devices : sends[d] <= MaxSends[d]
  /\ txDrops \in [Devices -> Nat]
  /\ discards \in [Devices -> Nat]
  /\ rxDrops \in [Devices -> Nat]
  /\ passedUp \in [Devices -> Seq(Deliveries)]

\* The assertions of TransmitStart and TransmitComplete: exactly one
\* TransmitComplete event is scheduled while the device is BUSY, and none while
\* it is READY; it is BUSY exactly while it has a current packet.  So neither
\* "Must be READY to transmit" nor "Must be BUSY if transmitting" can fail.
TxMachine ==
  \A d \in Devices :
    /\ completions[d] = IF m_txMachineState[d] = "BUSY" THEN 1 ELSE 0
    /\ m_txMachineState[d] = "BUSY" <=> m_currentPkt[d] # NoPacket

\* No frame is left behind in the queue of an idle transmitter: Send starts the
\* transmitter only for the frame it adds, so nothing would ever send it.
NoStrandedFrame ==
  \A d \in Devices : m_txMachineState[d] = "READY" => m_queue[d] = <<>>

\* Everything device d has accepted and not lost: first what its peer passed up,
\* then what is on the wire, then what waits in the queue.
Journey(d) == passedUp[Peer(d)] \o wire[d] \o m_queue[d]

\* Frames keep the order in which Send was called, are never duplicated, and
\* reach only the other device.
InOrder ==
  \A d \in Devices : \A j \in 1 .. Len(Journey(d)) :
    /\ Journey(d)[j].packet.src = d
    /\ Journey(d)[j].packet.n <= sends[d]
    /\ \A i \in 1 .. j - 1 : Journey(d)[i].packet.n < Journey(d)[j].packet.n

\* Every packet given to Send is in one place: dropped and counted by MacTxDrop,
\* waiting, on the wire, passed up by the peer or counted by its PhyRxDrop.
Conservation ==
  \A d \in Devices :
    sends[d] = txDrops[d] + Len(Journey(d)) + rxDrops[Peer(d)]

\* The queue disc is held back only while a later TransmitComplete will wake it:
\* the traces are connected, the device is transmitting and its queue is full.
StoppedMeansFull ==
  \A d \in Devices : m_stoppedByDevice[d] =>
    TracesConnected(d) /\ ~HasRoom(m_queue[d]) /\ m_txMachineState[d] = "BUSY"

\* Once the queue's traces are connected, a queue that has room or is stopped
\* stays so: a queue that fills up is stopped in the same call, so from then on
\* no packet is discarded.
Guarded(d) == m_stoppedByDevice[d] \/ HasRoom(m_queue[d])
FlowControlHolds ==
  [][\A d \in Devices : TracesConnected(d) /\ Guarded(d) => Guarded(d)']_vars

\* A queue that was filled before DoInitialize connected the traces discards at
\* most one packet: PacketDiscarded stops it ("Anyway, stop the tx queue").
AtMostOneDiscard == \A d \in Devices : discards[d] <= 1

\* The first frame that is taken off a stopped queue wakes it, and until then the
\* queue and the transmission in front of it stay as they are.
FirstDequeueWakes ==
  [][\A d \in Devices : m_stoppedByDevice[d] =>
       IF m_stoppedByDevice'[d]
         THEN m_queue'[d] = m_queue[d] /\ m_currentPkt'[d] = m_currentPkt[d]
         ELSE m_queue'[d] = Tail(m_queue[d]) /\ m_currentPkt'[d] = Head(m_queue[d])]_vars

\* A stopped queue is woken.
StoppedIsWoken ==
  \A d \in Devices : m_stoppedByDevice[d] ~> ~m_stoppedByDevice[d]

\* Compression does not switch back off: after a compressed frame, no frame of
\* the same EtherType leaves the device uncompressed.  Two numbers are exceptions:
\* 0, which a device takes for the configured one before DoInitialize, and LZS,
\* whose frames a compressing peer inflates even if they left uncompressed.
CompressionSticks ==
  \A d \in Devices : \A i, j \in 1 .. Len(Journey(d)) :
    i < j /\ Journey(d)[i].packet.ether = Journey(d)[j].packet.ether
          /\ Journey(d)[i].packet.ether \notin {0, LZS}
          /\ Journey(d)[i].body # "plain"
    => Journey(d)[j].body # "plain"

\* x is what its sender sent.
Unaltered(x) == x.ether = x.packet.ether /\ x.body = "plain" /\ x.pad = 0

\* A packet of a protocol other than the configured one (and other than LZS
\* itself) crosses the link unaltered, whichever ends compress.
OthersUnaltered ==
  \A d \in Devices : \A i \in 1 .. Len(passedUp[d]) :
    LET x == passedUp[d][i] IN
      x.packet.ether \in DefinedEther \ {LZS, PppToEther(ConfigProtocol)} => Unaltered(x)

\* The assertion "PPP Protocol number not defined!" of EtherToPpp and PppToEther:
\* a packet of a defined EtherType is passed up with a defined EtherType.
ProtocolDefined ==
  \A d \in Devices : \A i \in 1 .. Len(passedUp[d]) :
    passedUp[d][i].packet.ether \in DefinedEther => passedUp[d][i].ether \in DefinedEther

\* The two devices and their channel are a FIFO link: nothing but a receive error
\* loses, repeats or reorders a packet that Send accepted, and every accepted
\* packet arrives.
PacketsOf(s) == [i \in 1 .. Len(s) |-> s[i].packet]
Link == INSTANCE FifoLink WITH
  Ends <- Devices, Other <- Peer, Items <- Packets, Lossy <- ReceiveErrors,
  chan <- [d \in Devices |-> PacketsOf(wire[d] \o m_queue[d])],
  delivered <- [d \in Devices |-> PacketsOf(passedUp[d])]
ImplementsFifoLink == Link!LSpec
=============================================================================
