-------------------- MODULE PointToPointNetDevice_proofs --------------------
(* Proofs about PointToPointNetDevice, for any queue limit and any traffic. *)
EXTENDS PointToPointNetDevice, Integers, TLAPS

\* The numbers of the translation table are 16 bits wide.
LEMMA NumbersType ==
  {0, IPv4Ether, IPv6Ether, IPv4Ppp, IPv6Ppp, LZS} \subseteq ProtocolNumbers
<1>1. 0 \in ProtocolNumbers
  BY DEF ProtocolNumbers
<1>2. IPv4Ether \in ProtocolNumbers /\ IPv4Ppp \in ProtocolNumbers
  BY DEF ProtocolNumbers, IPv4Ether, IPv4Ppp
<1>3. IPv6Ether \in ProtocolNumbers /\ IPv6Ppp \in ProtocolNumbers
  BY DEF ProtocolNumbers, IPv6Ether, IPv6Ppp
<1>4. LZS \in ProtocolNumbers
  BY DEF ProtocolNumbers, LZS
<1> QED BY <1>1, <1>2, <1>3, <1>4, Zenon

\* Both translations between EtherTypes and PPP numbers stay in the table.
LEMMA TranslationType ==
  ASSUME NEW p
  PROVE  EtherToPpp(p) \in ProtocolNumbers /\ PppToEther(p) \in ProtocolNumbers
<1>1. EtherToPpp(p) \in {IPv4Ppp, LZS, IPv6Ppp, 0}
  BY Zenon DEF EtherToPpp
<1>2. PppToEther(p) \in {IPv4Ether, LZS, IPv6Ether, 0}
  BY Zenon DEF PppToEther
<1> QED BY <1>1, <1>2, NumbersType

\* Appending to a sequence makes it longer by one.
LEMMA AppendToSeq ==
  ASSUME NEW S, NEW s \in Seq(S), NEW x \in S
  PROVE  Append(s, x) \in Seq(S) /\ Len(Append(s, x)) = Len(s) + 1 /\ Append(s, x) # <<>>
<1>1. Append(s, x) \in Seq(S)
  OBVIOUS
<1>2. Len(s) \in Nat /\ Len(Append(s, x)) = Len(s) + 1
  OBVIOUS
<1>3. Append(s, x) # <<>>
  <2>1. Len(Append(s, x)) # 0 /\ Len(<<>>) = 0
    BY <1>2
  <2> QED BY <2>1, Zenon
<1> QED BY <1>1, <1>2, <1>3

USE DevicesAssumption, BoundsAssumption, ProtocolAssumption, SwitchAssumption

\* The packet that Send is given next is a packet, and what Send makes of it is
\* a frame.
LEMMA FramedType ==
  ASSUME TypeOK, NEW d \in Devices, NEW ether \in EtherTypes, MaySend(d)
  PROVE  Framed(d, NewPacket(d, ether)) \in Frames
<1> DEFINE p == NewPacket(d, ether)
<1>1. p \in Packets
  <2>1. MaxSends[d] \in Nat /\ sends[d] \in Nat /\ sends[d] < MaxSends[d]
    BY DEF TypeOK, MaySend
  <2>2. p \in [src : {d}, n : 1 .. MaxSends[d], ether : EtherTypes]
    BY <2>1 DEF NewPacket
  <2> QED BY <2>2 DEF Packets
<1>2. p.ether \in ProtocolNumbers
  BY DEF NewPacket
<1>3. EtherToPpp(p.ether) \in ProtocolNumbers /\ EtherToPpp(LZS) \in ProtocolNumbers
  BY <1>2, TranslationType, NumbersType
<1> HIDE DEF p
<1>4. /\ [packet |-> p, ppp |-> EtherToPpp(LZS), body |-> "deflated", pad |-> 8] \in Frames
      /\ [packet |-> p, ppp |-> EtherToPpp(p.ether), body |-> "plain", pad |-> 0] \in Frames
  BY <1>1, <1>3 DEF Frames
<1>5. Framed(d, p) \in Frames
  BY <1>4 DEF Framed
<1> QED BY <1>5 DEF p

\* What Receive makes of a frame is something m_rxCallback can be given.
LEMMA UnframedType ==
  ASSUME NEW d \in Devices, NEW f \in Frames
  PROVE  Unframed(d, f) \in Deliveries
<1>1. f.packet \in Packets /\ f.ppp \in ProtocolNumbers /\ f.pad \in {0, 8}
      /\ f.body \in {"plain", "deflated", "inflated"}
  BY DEF Frames
<1>2. PppToEther(f.ppp) \in ProtocolNumbers
      /\ PppToEther(EtherToPpp(IPv4Ppp)) \in ProtocolNumbers
  BY <1>1, TranslationType, NumbersType
<1> QED BY <1>1, <1>2 DEF Unframed, Deliveries

LEMMA PeerType == \A d \in Devices : Peer(d) \in Devices /\ Peer(Peer(d)) = d
BY DEF Peer, Devices

-----------------------------------------------------------------------------

\* A call of Send is counted within the bound.
LEMMA SendsType ==
  ASSUME TypeOK, NEW d \in Devices, MaySend(d), sends' = [sends EXCEPT ![d] = @ + 1]
  PROVE  sends' \in [Devices -> Nat] /\ \A e \in Devices : sends'[e] <= MaxSends[e]
<1>1. sends \in [Devices -> Nat] /\ \A e \in Devices : sends[e] <= MaxSends[e]
  BY DEF TypeOK
<1>2. MaxSends \in [Devices -> Nat] /\ sends[d] < MaxSends[d]
  BY DEF MaySend
<1> QED BY <1>1, <1>2

\* Type correctness.
LEMMA TypeInit == Init => TypeOK
<1> SUFFICES ASSUME Init PROVE TypeOK
  OBVIOUS
<1>1. /\ m_queue \in [Devices -> Seq(Frames)]
      /\ \A d \in Devices : Len(m_queue[d]) <= QueueLimit
  BY DEF Init
<1>2. sends \in [Devices -> Nat] /\ \A d \in Devices : sends[d] <= MaxSends[d]
  BY DEF Init
<1>3. /\ wire \in [Devices -> Seq(Frames)]
      /\ passedUp \in [Devices -> Seq(Deliveries)]
  BY DEF Init
<1>4. /\ m_linkUp \in [Devices -> BOOLEAN] /\ initialized \in [Devices -> BOOLEAN]
      /\ m_stoppedByDevice \in [Devices -> BOOLEAN]
  BY DEF Init
<1>5. /\ m_txMachineState \in [Devices -> {"READY", "BUSY"}]
      /\ m_currentPkt \in [Devices -> Frames \union {NoPacket}]
      /\ m_protocol \in [Devices -> ProtocolNumbers]
  BY NumbersType DEF Init
<1>6. /\ completions \in [Devices -> Nat] /\ txDrops \in [Devices -> Nat]
      /\ discards \in [Devices -> Nat] /\ rxDrops \in [Devices -> Nat]
  BY DEF Init
<1> QED BY <1>1, <1>2, <1>3, <1>4, <1>5, <1>6 DEF TypeOK

LEMMA TypeStep == TypeOK /\ [Next]_vars => TypeOK'
<1> SUFFICES ASSUME TypeOK, [Next]_vars PROVE TypeOK'
  OBVIOUS
<1>1. CASE UNCHANGED vars
  BY <1>1 DEF vars, txVars, flowVars, linkVars, rxVars, TypeOK
<1>2. ASSUME NEW d \in Devices, Attach(d) PROVE TypeOK'
  BY <1>2 DEF Attach, txVars, flowVars, rxVars, TypeOK
<1>3. ASSUME NEW d \in Devices, DoInitialize(d) PROVE TypeOK'
  <2>1. PppToEther(ConfigProtocol) \in ProtocolNumbers
    BY TranslationType
  <2> QED BY <1>3, <2>1 DEF DoInitialize, txVars, flowVars, rxVars, TypeOK
<1>4. ASSUME NEW d \in Devices, SendLinkDown(d) PROVE TypeOK'
  <2>1. sends' \in [Devices -> Nat] /\ \A e \in Devices : sends'[e] <= MaxSends[e]
    BY <1>4, SendsType DEF SendLinkDown
  <2>2. txDrops' \in [Devices -> Nat]
    <3>1. txDrops \in [Devices -> Nat] /\ txDrops' = [txDrops EXCEPT ![d] = @ + 1]
      BY <1>4 DEF SendLinkDown, TypeOK
    <3> QED BY <3>1
  <2>3. UNCHANGED <<txVars, flowVars, linkVars, rxVars>>
    BY <1>4 DEF SendLinkDown
  <2> QED BY <2>1, <2>2, <2>3 DEF txVars, flowVars, linkVars, rxVars, TypeOK
<1>5. ASSUME NEW d \in Devices, SendOverflow(d) PROVE TypeOK'
  <2>1. PacketDiscarded(d, m_stoppedByDevice[d]) \in BOOLEAN
    BY DEF PacketDiscarded, TypeOK
  <2>2. m_stoppedByDevice' \in [Devices -> BOOLEAN]
    <3>1. /\ m_stoppedByDevice \in [Devices -> BOOLEAN]
          /\ m_stoppedByDevice' =
               [m_stoppedByDevice EXCEPT ![d] = PacketDiscarded(d, m_stoppedByDevice[d])]
      BY <1>5 DEF SendOverflow, TypeOK
    <3> QED BY <2>1, <3>1
  <2>3. discards' \in [Devices -> Nat] /\ txDrops' \in [Devices -> Nat]
    <3>1. /\ discards \in [Devices -> Nat] /\ txDrops \in [Devices -> Nat]
          /\ txDrops' = [txDrops EXCEPT ![d] = @ + 1]
          /\ discards' = [discards EXCEPT ![d] = IF TracesConnected(d) THEN @ + 1 ELSE @]
      BY <1>5 DEF SendOverflow, TypeOK
    <3> QED BY <3>1
  <2>4. sends' \in [Devices -> Nat] /\ \A e \in Devices : sends'[e] <= MaxSends[e]
    BY <1>5, SendsType DEF SendOverflow
  <2>5. UNCHANGED <<txVars, linkVars, rxVars>>
    BY <1>5 DEF SendOverflow
  <2> QED BY <2>2, <2>3, <2>4, <2>5 DEF txVars, linkVars, rxVars, TypeOK
<1>6. ASSUME NEW d \in Devices, NEW ether \in EtherTypes, SendEnqueue(d, ether)
      PROVE  TypeOK'
  <2> DEFINE q == Append(m_queue[d], Framed(d, NewPacket(d, ether)))
  <2>1. q \in Seq(Frames) /\ Len(q) <= QueueLimit
    <3>1. /\ Framed(d, NewPacket(d, ether)) \in Frames /\ m_queue[d] \in Seq(Frames)
          /\ Len(m_queue[d]) + 1 <= QueueLimit
      BY <1>6, FramedType DEF SendEnqueue, HasRoom, TypeOK
    <3> QED BY <3>1
  <2>2. /\ m_queue' = [m_queue EXCEPT ![d] = q]
        /\ m_stoppedByDevice' = [m_stoppedByDevice EXCEPT
                                  ![d] = PacketEnqueued(d, m_stoppedByDevice[d], q)]
    BY <1>6 DEF SendEnqueue, Enqueue
  <2>3. PacketEnqueued(d, m_stoppedByDevice[d], q) \in BOOLEAN
    BY DEF PacketEnqueued, TypeOK
  <2> HIDE DEF q
  <2>4. m_stoppedByDevice' \in [Devices -> BOOLEAN]
    BY <2>2, <2>3 DEF TypeOK
  <2>5. /\ m_queue' \in [Devices -> Seq(Frames)]
        /\ \A e \in Devices : Len(m_queue'[e]) <= QueueLimit
    BY <2>1, <2>2 DEF TypeOK
  <2>6. sends' \in [Devices -> Nat] /\ \A e \in Devices : sends'[e] <= MaxSends[e]
    BY <1>6, SendsType DEF SendEnqueue
  <2>7. UNCHANGED <<m_txMachineState, m_currentPkt, completions, wire, discards, linkVars,
                    txDrops, rxVars>>
    BY <1>6 DEF SendEnqueue
  <2> QED BY <2>4, <2>5, <2>6, <2>7 DEF linkVars, rxVars, TypeOK
<1>7. ASSUME NEW d \in Devices, NEW ether \in EtherTypes, SendStart(d, ether)
      PROVE  TypeOK'
  <2> DEFINE f == Framed(d, NewPacket(d, ether))
             q == Append(m_queue[d], f)
             stop == PacketDequeued(d, PacketEnqueued(d, m_stoppedByDevice[d], q), Tail(q))
  <2>1. f \in Frames /\ m_queue[d] \in Seq(Frames) /\ wire[d] \in Seq(Frames)
    BY <1>7, FramedType DEF SendStart, TypeOK
  <2>2. /\ Head(q) \in Frames /\ Tail(q) \in Seq(Frames) /\ Len(Tail(q)) <= QueueLimit
        /\ Append(wire[d], Head(q)) \in Seq(Frames)
    <3> HIDE DEF f
    <3>1. q \in Seq(Frames) /\ q # <<>> /\ Len(q) <= QueueLimit
      <4>1. Len(m_queue[d]) + 1 <= QueueLimit
        BY <1>7 DEF SendStart, HasRoom
      <4> QED BY <2>1, <4>1, AppendToSeq
    <3> HIDE DEF q
    <3> QED BY <2>1, <3>1
  <2>3. stop \in BOOLEAN
    BY DEF PacketEnqueued, PacketDequeued, TypeOK
  <2>4. /\ m_queue' = [m_queue EXCEPT ![d] = Tail(q)]
        /\ m_stoppedByDevice' = [m_stoppedByDevice EXCEPT ![d] = stop]
        /\ TransmitStart(d, Head(q), completions[d])
    BY <1>7 DEF SendStart, Enqueue, Dequeue
  <2> HIDE DEF f, q, stop
  <2>5. m_stoppedByDevice' \in [Devices -> BOOLEAN]
    BY <2>3, <2>4 DEF TypeOK
  <2>6. /\ m_queue' \in [Devices -> Seq(Frames)]
        /\ \A e \in Devices : Len(m_queue'[e]) <= QueueLimit
        /\ wire' \in [Devices -> Seq(Frames)]
    <3>1. wire' = [wire EXCEPT ![d] = Append(wire[d], Head(q))]
      BY <2>4 DEF TransmitStart
    <3>2. wire \in [Devices -> Seq(Frames)] /\ m_queue \in [Devices -> Seq(Frames)]
          /\ \A e \in Devices : Len(m_queue[e]) <= QueueLimit
      BY DEF TypeOK
    <3> QED BY <2>2, <2>4, <3>1, <3>2
  <2>7. /\ m_txMachineState' \in [Devices -> {"READY", "BUSY"}]
        /\ m_currentPkt' \in [Devices -> Frames \union {NoPacket}]
        /\ completions' \in [Devices -> Nat]
    <3>1. /\ m_txMachineState' = [m_txMachineState EXCEPT ![d] = "BUSY"]
          /\ m_currentPkt' = [m_currentPkt EXCEPT ![d] = Head(q)]
          /\ completions' = [completions EXCEPT ![d] = completions[d] + 1]
      BY <2>4 DEF TransmitStart
    <3>2. /\ m_txMachineState \in [Devices -> {"READY", "BUSY"}]
          /\ m_currentPkt \in [Devices -> Frames \union {NoPacket}]
          /\ completions \in [Devices -> Nat]
      BY DEF TypeOK
    <3>3. completions' \in [Devices -> Nat]
      BY <3>1, <3>2
    <3> QED BY <2>2, <3>1, <3>2, <3>3
  <2>8. sends' \in [Devices -> Nat] /\ \A e \in Devices : sends'[e] <= MaxSends[e]
    BY <1>7, SendsType DEF SendStart
  <2>9. UNCHANGED <<discards, linkVars, txDrops, rxVars>>
    BY <1>7 DEF SendStart
  <2> QED BY <2>5, <2>6, <2>7, <2>8, <2>9 DEF linkVars, rxVars, TypeOK
<1>8. ASSUME NEW d \in Devices, TransmitCompleteIdle(d) PROVE TypeOK'
  <2>1. /\ m_txMachineState \in [Devices -> {"READY", "BUSY"}]
        /\ m_currentPkt \in [Devices -> Frames \union {NoPacket}]
        /\ completions \in [Devices -> Nat]
    BY DEF TypeOK
  <2>2. /\ m_txMachineState' = [m_txMachineState EXCEPT ![d] = "READY"]
        /\ m_currentPkt' = [m_currentPkt EXCEPT ![d] = NoPacket]
        /\ completions[d] > 0 /\ completions' = [completions EXCEPT ![d] = @ - 1]
        /\ UNCHANGED <<m_queue, wire, flowVars, linkVars, sends, txDrops, rxVars>>
    BY <1>8 DEF TransmitCompleteIdle
  <2>3. /\ m_txMachineState' \in [Devices -> {"READY", "BUSY"}]
        /\ m_currentPkt' \in [Devices -> Frames \union {NoPacket}]
    BY <2>1, <2>2
  <2>4. completions' \in [Devices -> Nat]
    BY <2>1, <2>2
  <2> QED BY <2>2, <2>3, <2>4 DEF flowVars, linkVars, rxVars, TypeOK
<1>9. ASSUME NEW d \in Devices, TransmitCompleteNext(d) PROVE TypeOK'
  <2> DEFINE q == m_queue[d]
             stop == PacketDequeued(d, m_stoppedByDevice[d], Tail(q))
  <2>1. q \in Seq(Frames) /\ q # <<>> /\ Len(q) <= QueueLimit /\ wire[d] \in Seq(Frames)
    BY <1>9 DEF TransmitCompleteNext, TypeOK
  <2>2. /\ Head(q) \in Frames /\ Tail(q) \in Seq(Frames) /\ Len(Tail(q)) <= QueueLimit
        /\ Append(wire[d], Head(q)) \in Seq(Frames)
    <3> HIDE DEF q
    <3> QED BY <2>1
  <2>3. stop \in BOOLEAN
    BY DEF PacketDequeued, TypeOK
  <2>4. /\ m_queue' = [m_queue EXCEPT ![d] = Tail(q)]
        /\ m_stoppedByDevice' = [m_stoppedByDevice EXCEPT ![d] = stop]
        /\ TransmitStart(d, Head(q), completions[d] - 1)
        /\ completions[d] > 0
    BY <1>9 DEF TransmitCompleteNext, Dequeue
  <2> HIDE DEF q, stop
  <2>5. m_stoppedByDevice' \in [Devices -> BOOLEAN]
    BY <2>3, <2>4 DEF TypeOK
  <2>6. /\ m_queue' \in [Devices -> Seq(Frames)]
        /\ \A e \in Devices : Len(m_queue'[e]) <= QueueLimit
        /\ wire' \in [Devices -> Seq(Frames)]
    <3>1. wire' = [wire EXCEPT ![d] = Append(wire[d], Head(q))]
      BY <2>4 DEF TransmitStart
    <3>2. wire \in [Devices -> Seq(Frames)] /\ m_queue \in [Devices -> Seq(Frames)]
          /\ \A e \in Devices : Len(m_queue[e]) <= QueueLimit
      BY DEF TypeOK
    <3> QED BY <2>2, <2>4, <3>1, <3>2
  <2>7. /\ m_txMachineState' \in [Devices -> {"READY", "BUSY"}]
        /\ m_currentPkt' \in [Devices -> Frames \union {NoPacket}]
        /\ completions' \in [Devices -> Nat]
    <3>1. /\ m_txMachineState' = [m_txMachineState EXCEPT ![d] = "BUSY"]
          /\ m_currentPkt' = [m_currentPkt EXCEPT ![d] = Head(q)]
          /\ completions' = [completions EXCEPT ![d] = completions[d] - 1 + 1]
      BY <2>4 DEF TransmitStart
    <3>2. /\ m_txMachineState \in [Devices -> {"READY", "BUSY"}]
          /\ m_currentPkt \in [Devices -> Frames \union {NoPacket}]
          /\ completions \in [Devices -> Nat]
      BY DEF TypeOK
    <3>3. completions' \in [Devices -> Nat]
      BY <2>4, <3>1, <3>2
    <3> QED BY <2>2, <3>1, <3>2, <3>3
  <2>8. UNCHANGED <<discards, linkVars, sends, txDrops, rxVars>>
    BY <1>9 DEF TransmitCompleteNext
  <2> QED BY <2>5, <2>6, <2>7, <2>8 DEF linkVars, rxVars, TypeOK
<1>10. ASSUME NEW d \in Devices, ReceiveUp(d) PROVE TypeOK'
  <2> DEFINE s == wire[Peer(d)]
  <2>1. s \in Seq(Frames) /\ s # <<>>
    BY <1>10, PeerType DEF ReceiveUp, TypeOK
  <2>2. Head(s) \in Frames /\ Tail(s) \in Seq(Frames)
    <3> HIDE DEF s
    <3> QED BY <2>1
  <2>3. Append(passedUp[d], Unframed(d, Head(s))) \in Seq(Deliveries)
    <3>1. Unframed(d, Head(s)) \in Deliveries /\ passedUp[d] \in Seq(Deliveries)
      BY <2>2, UnframedType DEF TypeOK
    <3> QED BY <3>1
  <2>4. /\ wire' = [wire EXCEPT ![Peer(d)] = Tail(s)]
        /\ passedUp' = [passedUp EXCEPT ![d] = Append(passedUp[d], Unframed(d, Head(s)))]
    BY <1>10 DEF ReceiveUp
  <2> HIDE DEF s
  <2>5. wire' \in [Devices -> Seq(Frames)] /\ passedUp' \in [Devices -> Seq(Deliveries)]
    <3>1. wire \in [Devices -> Seq(Frames)] /\ passedUp \in [Devices -> Seq(Deliveries)]
      BY DEF TypeOK
    <3> QED BY <2>2, <2>3, <2>4, <3>1, PeerType
  <2>6. UNCHANGED <<m_txMachineState, m_currentPkt, m_queue, completions,
                    flowVars, linkVars, sends, txDrops, rxDrops>>
    BY <1>10 DEF ReceiveUp
  <2> QED BY <2>5, <2>6 DEF flowVars, linkVars, TypeOK
<1>11. ASSUME NEW d \in Devices, ReceiveCorrupt(d) PROVE TypeOK'
  <2> DEFINE s == wire[Peer(d)]
  <2>1. s \in Seq(Frames) /\ s # <<>>
    BY <1>11, PeerType DEF ReceiveCorrupt, TypeOK
  <2>2. Tail(s) \in Seq(Frames)
    <3> HIDE DEF s
    <3> QED BY <2>1
  <2>3. wire' = [wire EXCEPT ![Peer(d)] = Tail(s)]
    BY <1>11 DEF ReceiveCorrupt
  <2> HIDE DEF s
  <2>4. wire' \in [Devices -> Seq(Frames)]
    BY <2>2, <2>3, PeerType DEF TypeOK
  <2>5. rxDrops' \in [Devices -> Nat]
    <3>1. rxDrops \in [Devices -> Nat] /\ rxDrops' = [rxDrops EXCEPT ![d] = @ + 1]
      BY <1>11 DEF ReceiveCorrupt, TypeOK
    <3> QED BY <3>1
  <2>6. UNCHANGED <<m_txMachineState, m_currentPkt, m_queue, completions,
                    flowVars, linkVars, sends, txDrops, passedUp>>
    BY <1>11 DEF ReceiveCorrupt
  <2> QED BY <2>4, <2>5, <2>6 DEF flowVars, linkVars, TypeOK
<1> QED BY <1>1, <1>2, <1>3, <1>4, <1>5, <1>6, <1>7, <1>8, <1>9, <1>10, <1>11
        DEF Next, Send, TransmitComplete, Receive

\* Every variable always holds a value of its type, and the transmit queue never
\* exceeds its MaxSize.
THEOREM TypeCorrect == Spec => []TypeOK
BY TypeInit, TypeStep, PTL DEF Spec

-----------------------------------------------------------------------------

\* The inductive invariant of the transmitter, for one device: the assertions of
\* the state machine, the queue of an idle transmitter, what it takes to be
\* stopped, and what a discarded packet leaves behind.
DeviceOK(d) ==
  /\ completions[d] = IF m_txMachineState[d] = "BUSY" THEN 1 ELSE 0
  /\ m_txMachineState[d] = "BUSY" <=> m_currentPkt[d] # NoPacket
  /\ m_txMachineState[d] = "READY" => m_queue[d] = <<>>
  /\ m_stoppedByDevice[d] =>
       TracesConnected(d) /\ ~HasRoom(m_queue[d]) /\ m_txMachineState[d] = "BUSY"
  /\ discards[d] <= 1
  /\ discards[d] > 0 => TracesConnected(d) /\ Guarded(d)

TransmitterOK == \A d \in Devices : DeviceOK(d)

LEMMA TransmitterInit == Init => TransmitterOK
BY DEF Init, TransmitterOK, DeviceOK

\* A step of one device leaves the transmitter of the other alone.
Untouched(e) ==
  /\ m_txMachineState'[e] = m_txMachineState[e] /\ m_currentPkt'[e] = m_currentPkt[e]
  /\ m_queue'[e] = m_queue[e] /\ completions'[e] = completions[e]
  /\ m_stoppedByDevice'[e] = m_stoppedByDevice[e] /\ discards'[e] = discards[e]
  /\ initialized'[e] = initialized[e]

LEMMA UntouchedOK ==
  ASSUME NEW e \in Devices, DeviceOK(e), Untouched(e)
  PROVE  DeviceOK(e)'
BY DEF DeviceOK, Untouched, TracesConnected, Guarded, HasRoom

LEMMA OtherUntouched ==
  ASSUME TypeOK, NEW d \in Devices, NEW e \in Devices, e # d,
         \/ Attach(d) \/ DoInitialize(d) \/ Send(d) \/ TransmitComplete(d) \/ Receive(d)
  PROVE  Untouched(e)
<1>1. CASE Attach(d) \/ DoInitialize(d)
  BY <1>1 DEF Attach, DoInitialize, txVars, flowVars, Untouched, TypeOK
<1>2. CASE SendLinkDown(d) \/ SendOverflow(d)
  BY <1>2 DEF SendLinkDown, SendOverflow, txVars, flowVars, linkVars, Untouched, TypeOK
<1>3. ASSUME NEW ether \in EtherTypes, SendEnqueue(d, ether) PROVE Untouched(e)
  BY <1>3 DEF SendEnqueue, linkVars, Untouched, TypeOK
<1>4. ASSUME NEW ether \in EtherTypes, SendStart(d, ether) PROVE Untouched(e)
  BY <1>4 DEF SendStart, TransmitStart, linkVars, Untouched, TypeOK
<1>5. CASE TransmitComplete(d)
  BY <1>5 DEF TransmitComplete, TransmitCompleteIdle, TransmitCompleteNext, TransmitStart,
              flowVars, linkVars, Untouched, TypeOK
<1>6. CASE Receive(d)
  BY <1>6 DEF Receive, ReceiveUp, ReceiveCorrupt, flowVars, linkVars, Untouched, TypeOK
<1> QED BY <1>1, <1>2, <1>3, <1>4, <1>5, <1>6 DEF Send

LEMMA TransmitterStep == TypeOK /\ TypeOK' /\ TransmitterOK /\ [Next]_vars => TransmitterOK'
<1> SUFFICES ASSUME TypeOK, TypeOK', TransmitterOK, [Next]_vars, NEW e \in Devices
             PROVE  DeviceOK(e)'
  BY DEF TransmitterOK
<1>0. DeviceOK(e)
  BY DEF TransmitterOK
<1>1. CASE UNCHANGED vars
  BY <1>0, <1>1, UntouchedOK DEF vars, txVars, flowVars, linkVars, Untouched
<1>2. CASE Next
  <2>0. PICK d \in Devices :
          Attach(d) \/ DoInitialize(d) \/ Send(d) \/ TransmitComplete(d) \/ Receive(d)
    BY <1>2 DEF Next
  <2>1. CASE e # d
    BY <1>0, <2>0, <2>1, OtherUntouched, UntouchedOK
  <2>2. CASE e = d /\ (Attach(e) \/ SendLinkDown(e) \/ Receive(e))
    <3>1. Untouched(e)
      BY <2>2 DEF Attach, SendLinkDown, Receive, ReceiveUp, ReceiveCorrupt,
                  txVars, flowVars, linkVars, Untouched
    <3> QED BY <1>0, <3>1, UntouchedOK
  <2>3. CASE e = d /\ DoInitialize(e)
    BY <1>0, <2>3 DEF DoInitialize, DeviceOK, TracesConnected, Guarded, HasRoom,
                      txVars, flowVars, TypeOK
  <2>4. CASE e = d /\ SendOverflow(e)
    \* The queue is full, so not empty, so the device is BUSY.
    <3>1. m_queue[e] # <<>> /\ ~HasRoom(m_queue[e])
      BY <2>4 DEF SendOverflow, HasRoom, TypeOK
    <3>2. m_txMachineState[e] = "BUSY"
      BY <1>0, <3>1 DEF DeviceOK, TypeOK
    <3>3. /\ m_stoppedByDevice'[e] = PacketDiscarded(e, m_stoppedByDevice[e])
          /\ discards'[e] = IF TracesConnected(e) THEN discards[e] + 1 ELSE discards[e]
          /\ UNCHANGED <<m_txMachineState, m_currentPkt, m_queue, completions, initialized>>
      BY <2>4 DEF SendOverflow, txVars, linkVars, TypeOK
    <3>4. TracesConnected(e)' = TracesConnected(e) /\ ~HasRoom(m_queue'[e])
      BY <3>1, <3>3 DEF TracesConnected
    <3>5. CASE TracesConnected(e)
      <4>1. ~Guarded(e)
        BY <2>4, <3>1, <3>5 DEF SendOverflow, MaySend, TracesConnected, Guarded
      <4>2. discards[e] = 0
        <5>1. ~(discards[e] > 0) /\ discards[e] \in Nat
          BY <1>0, <4>1 DEF DeviceOK, TypeOK
        <5> QED BY <5>1
      <4>3. m_stoppedByDevice'[e] = TRUE /\ discards'[e] = 1
        BY <3>3, <3>5, <4>2 DEF PacketDiscarded
      <4> QED BY <1>0, <3>1, <3>2, <3>3, <3>4, <3>5, <4>3 DEF DeviceOK, Guarded
    <3>6. CASE ~TracesConnected(e)
      <4>1. m_stoppedByDevice'[e] = m_stoppedByDevice[e] /\ discards'[e] = discards[e]
        BY <3>3, <3>6 DEF PacketDiscarded
      <4>2. Untouched(e)
        BY <3>3, <4>1 DEF Untouched
      <4> QED BY <1>0, <4>2, UntouchedOK
    <3> QED BY <3>5, <3>6
  <2>5. ASSUME e = d, NEW ether \in EtherTypes, SendEnqueue(e, ether) PROVE DeviceOK(e)'
    \* The device is BUSY and not stopped; it is stopped if the queue is now full.
    <3> DEFINE q == m_queue'[e]
    <3>1. m_txMachineState[e] = "BUSY" /\ ~m_stoppedByDevice[e]
      BY <1>0, <2>5 DEF SendEnqueue, Idle, DeviceOK, TypeOK
    <3>2. m_stoppedByDevice'[e] = PacketEnqueued(e, m_stoppedByDevice[e], q)
      BY <2>5 DEF SendEnqueue, TypeOK
    <3>3. UNCHANGED <<m_txMachineState, m_currentPkt, completions, discards, initialized>>
      BY <2>5 DEF SendEnqueue, linkVars
    <3> HIDE DEF q
    <3>4. m_queue'[e] = q
      BY DEF q
    <3> QED BY <1>0, <3>1, <3>2, <3>3, <3>4
            DEF DeviceOK, TracesConnected, Guarded, HasRoom, PacketEnqueued
  <2>6. ASSUME e = d, NEW ether \in EtherTypes, SendStart(e, ether) PROVE DeviceOK(e)'
    \* The queue was empty: the new frame is the one transmitted.
    <3> DEFINE f == Framed(e, NewPacket(e, ether))
    <3>1. m_queue[e] = <<>> /\ ~m_stoppedByDevice[e] /\ completions[e] = 0
      BY <1>0, <2>6 DEF SendStart, Idle, DeviceOK, TypeOK
    <3>2. f \in Frames
      BY <2>6, FramedType DEF SendStart
    <3>3. Enqueue(m_queue[e], f) = <<f>> /\ Head(<<f>>) = f /\ Dequeue(<<f>>) = <<>>
      BY <3>1, <3>2 DEF Enqueue, Dequeue
    <3>4. /\ m_queue' = [m_queue EXCEPT ![e] = <<>>]
          /\ m_stoppedByDevice' = [m_stoppedByDevice EXCEPT
               ![e] = PacketDequeued(e, PacketEnqueued(e, m_stoppedByDevice[e], <<f>>), <<>>)]
          /\ TransmitStart(e, f, 0)
          /\ UNCHANGED <<discards, initialized>>
      BY <2>6, <3>1, <3>3 DEF SendStart, linkVars
    <3> HIDE DEF f
    <3>5. /\ m_queue'[e] = <<>>
          /\ m_stoppedByDevice'[e] =
               PacketDequeued(e, PacketEnqueued(e, m_stoppedByDevice[e], <<f>>), <<>>)
          /\ m_txMachineState'[e] = "BUSY" /\ m_currentPkt'[e] = f /\ completions'[e] = 1
          /\ UNCHANGED <<discards, initialized>>
      BY <3>4 DEF TransmitStart, TypeOK
    <3>6. HasRoom(<<>>)
      BY DEF HasRoom
    <3>7. m_stoppedByDevice'[e] = FALSE
      BY <3>1, <3>5, <3>6 DEF PacketDequeued, PacketEnqueued, TypeOK
    <3>8. f # NoPacket
      BY <3>2, NoPacketAssumption
    <3> QED BY <1>0, <3>5, <3>6, <3>7, <3>8 DEF DeviceOK, TracesConnected, Guarded
  <2>7. CASE e = d /\ TransmitCompleteIdle(e)
    <3>1. m_txMachineState[e] = "BUSY" /\ completions[e] = 1 /\ HasRoom(m_queue[e])
      BY <1>0, <2>7 DEF TransmitCompleteIdle, DeviceOK, HasRoom, TypeOK
    <3>2. /\ m_txMachineState'[e] = "READY" /\ m_currentPkt'[e] = NoPacket
          /\ completions'[e] = 0 /\ m_queue'[e] = <<>> /\ m_queue[e] = <<>>
          /\ UNCHANGED <<m_stoppedByDevice, discards, initialized>>
      BY <2>7, <3>1 DEF TransmitCompleteIdle, flowVars, linkVars, TypeOK
    <3> QED BY <1>0, <3>1, <3>2 DEF DeviceOK, TracesConnected, Guarded
  <2>8. CASE e = d /\ TransmitCompleteNext(e)
    <3> DEFINE q == m_queue[e]
    <3>1. q \in Seq(Frames) /\ q # <<>> /\ Len(q) <= QueueLimit
      BY <2>8 DEF TransmitCompleteNext, TypeOK
    <3>2. Head(q) \in Frames /\ HasRoom(Tail(q))
      <4> HIDE DEF q
      <4> QED BY <3>1 DEF HasRoom
    <3>3. m_txMachineState[e] = "BUSY" /\ completions[e] = 1
      BY <1>0, <2>8 DEF TransmitCompleteNext, DeviceOK, TypeOK
    <3>4. /\ m_queue'[e] = Tail(q)
          /\ m_stoppedByDevice'[e] = PacketDequeued(e, m_stoppedByDevice[e], Tail(q))
          /\ m_txMachineState'[e] = "BUSY" /\ m_currentPkt'[e] = Head(q)
          /\ completions'[e] = 1 /\ UNCHANGED <<discards, initialized>>
      BY <2>8, <3>3 DEF TransmitCompleteNext, TransmitStart, Dequeue, linkVars, TypeOK
    <3> HIDE DEF q
    <3>5. m_stoppedByDevice'[e] = FALSE
      BY <1>0, <3>2, <3>4 DEF PacketDequeued, DeviceOK, TypeOK
    <3>6. Head(q) # NoPacket
      BY <3>2, NoPacketAssumption
    <3> QED BY <1>0, <3>2, <3>4, <3>5, <3>6 DEF DeviceOK, TracesConnected, Guarded
  <2> QED BY <2>0, <2>1, <2>2, <2>3, <2>4, <2>5, <2>6, <2>7, <2>8
          DEF Send, TransmitComplete
<1> QED BY <1>1, <1>2

LEMMA TransmitterInvariant == Spec => [](TypeOK /\ TransmitterOK)
<1>1. Init => TypeOK /\ TransmitterOK
  BY TypeInit, TransmitterInit
<1>2. TypeOK /\ TransmitterOK /\ [Next]_vars => (TypeOK /\ TransmitterOK)'
  BY TypeStep, TransmitterStep
<1> QED BY <1>1, <1>2, PTL DEF Spec

\* The assertions of TransmitStart and TransmitComplete never fail: there is one
\* TransmitComplete event while the device is BUSY and none while it is READY.
THEOREM TxMachineCorrect == Spec => []TxMachine
<1>1. TypeOK /\ TransmitterOK => TxMachine
  BY DEF TransmitterOK, DeviceOK, TxMachine
<1> QED BY <1>1, TransmitterInvariant, PTL

\* No frame waits in the queue of an idle transmitter, where nothing would send it.
THEOREM NoFrameStranded == Spec => []NoStrandedFrame
<1>1. TypeOK /\ TransmitterOK => NoStrandedFrame
  BY DEF TransmitterOK, DeviceOK, NoStrandedFrame
<1> QED BY <1>1, TransmitterInvariant, PTL

\* The queue disc is only held back by a full queue that is being emptied.
THEOREM StoppedOnlyWhenFull == Spec => []StoppedMeansFull
<1>1. TypeOK /\ TransmitterOK => StoppedMeansFull
  BY DEF TransmitterOK, DeviceOK, StoppedMeansFull
<1> QED BY <1>1, TransmitterInvariant, PTL

\* Whatever is sent before the queue's traces are connected, the queue discards
\* at most one packet of an upper layer that respects flow control.
THEOREM DiscardsAtMostOne == Spec => []AtMostOneDiscard
<1>1. TypeOK /\ TransmitterOK => AtMostOneDiscard
  BY DEF TransmitterOK, DeviceOK, AtMostOneDiscard
<1> QED BY <1>1, TransmitterInvariant, PTL

\* Once the traces are connected, a queue that has room or is stopped stays so: a
\* queue that fills up is stopped by the call that fills it.
THEOREM FlowControlCorrect == Spec => FlowControlHolds
<1>1. TypeOK /\ TransmitterOK /\ [Next]_vars
        => [\A d \in Devices : TracesConnected(d) /\ Guarded(d) => Guarded(d)']_vars
  <2> SUFFICES ASSUME TypeOK, TransmitterOK, Next, NEW e \in Devices,
                      TracesConnected(e), Guarded(e)
               PROVE  Guarded(e)'
    OBVIOUS
  <2>0. PICK d \in Devices :
          Attach(d) \/ DoInitialize(d) \/ Send(d) \/ TransmitComplete(d) \/ Receive(d)
    BY DEF Next
  <2>1. CASE e # d
    BY <2>0, <2>1, OtherUntouched DEF Untouched, Guarded, HasRoom
  <2>2. CASE e = d /\ (Attach(e) \/ DoInitialize(e) \/ SendLinkDown(e)
                       \/ TransmitCompleteIdle(e) \/ Receive(e))
    <3>1. UNCHANGED <<m_queue, m_stoppedByDevice>>
      BY <2>2 DEF Attach, DoInitialize, SendLinkDown, TransmitCompleteIdle, Receive,
                  ReceiveUp, ReceiveCorrupt, txVars, flowVars
    <3> QED BY <3>1 DEF Guarded, HasRoom
  <2>3. CASE e = d /\ SendOverflow(e)
    <3>1. m_stoppedByDevice'[e] = TRUE
      BY <2>3 DEF SendOverflow, PacketDiscarded, TypeOK
    <3> QED BY <3>1 DEF Guarded
  <2>4. ASSUME e = d, NEW ether \in EtherTypes, SendEnqueue(e, ether) PROVE Guarded(e)'
    <3>1. m_stoppedByDevice'[e] = PacketEnqueued(e, m_stoppedByDevice[e], m_queue'[e])
      BY <2>4 DEF SendEnqueue, TypeOK
    <3>2. ~HasRoom(m_queue'[e]) => m_stoppedByDevice'[e] = TRUE
      BY <3>1 DEF PacketEnqueued
    <3> QED BY <3>2 DEF Guarded, HasRoom
  <2>5. ASSUME e = d, NEW ether \in EtherTypes, SendStart(e, ether) PROVE Guarded(e)'
    <3> DEFINE f == Framed(e, NewPacket(e, ether))
    <3>1. m_queue[e] = <<>> /\ f \in Frames
      BY <2>5, FramedType DEF SendStart, Idle, TransmitterOK, DeviceOK
    <3>2. Dequeue(Enqueue(m_queue[e], f)) = <<>>
      BY <3>1 DEF Enqueue, Dequeue
    <3>3. m_queue'[e] = <<>>
      BY <2>5, <3>2 DEF SendStart, TypeOK
    <3> QED BY <3>3 DEF Guarded, HasRoom
  <2>6. CASE e = d /\ TransmitCompleteNext(e)
    <3> DEFINE q == m_queue[e]
    <3>1. q \in Seq(Frames) /\ q # <<>> /\ Len(q) <= QueueLimit
      BY <2>6 DEF TransmitCompleteNext, TypeOK
    <3>2. m_queue'[e] = Tail(q)
      BY <2>6 DEF TransmitCompleteNext, Dequeue, TypeOK
    <3> HIDE DEF q
    <3>3. Len(m_queue'[e]) + 1 <= QueueLimit
      BY <3>1, <3>2
    <3> QED BY <3>3 DEF Guarded, HasRoom
  <2> QED BY <2>0, <2>1, <2>2, <2>3, <2>4, <2>5, <2>6 DEF Send, TransmitComplete
<1> QED BY <1>1, TransmitterInvariant, PTL DEF Spec, FlowControlHolds

\* What a step of the device may do to its own stopped queue.
WakesFirst(e) ==
  IF m_stoppedByDevice'[e]
    THEN m_queue'[e] = m_queue[e] /\ m_currentPkt'[e] = m_currentPkt[e]
    ELSE m_queue'[e] = Tail(m_queue[e]) /\ m_currentPkt'[e] = Head(m_queue[e])

\* A stopped queue is woken by the first frame that is taken off it: the queue is
\* limited in packets, so that a frame less is room for one more.
THEOREM WokenByFirstDequeue == Spec => FirstDequeueWakes
<1>1. TypeOK /\ TransmitterOK /\ [Next]_vars
        => [\A d \in Devices : m_stoppedByDevice[d] => WakesFirst(d)]_vars
  <2> SUFFICES ASSUME TypeOK, TransmitterOK, Next, NEW e \in Devices, m_stoppedByDevice[e]
               PROVE  WakesFirst(e)
    OBVIOUS
  <2>0. PICK d \in Devices :
          Attach(d) \/ DoInitialize(d) \/ Send(d) \/ TransmitComplete(d) \/ Receive(d)
    BY DEF Next
  <2>1. TracesConnected(e) /\ ~HasRoom(m_queue[e]) /\ m_queue[e] \in Seq(Frames)
        /\ Len(m_queue[e]) <= QueueLimit /\ QueueLimit \in Nat \ {0}
    BY BoundsAssumption DEF TransmitterOK, DeviceOK, TypeOK
  <2>2. CASE UNCHANGED <<m_queue, m_currentPkt, m_stoppedByDevice>>
    BY <2>2 DEF WakesFirst
  <2>3. CASE e # d
    BY <2>0, <2>3, OtherUntouched DEF Untouched, WakesFirst
  <2>4. CASE e = d /\ (Attach(e) \/ DoInitialize(e) \/ Receive(e))
    BY <2>2, <2>4 DEF Attach, DoInitialize, Receive, ReceiveUp, ReceiveCorrupt, txVars, flowVars
  <2>5. CASE e = d /\ Send(e)
    <3>1. MaySend(e)
      BY <2>5 DEF Send, SendLinkDown, SendOverflow, SendEnqueue, SendStart
    <3> QED BY <2>1, <3>1 DEF MaySend, TracesConnected
  <2>6. CASE e = d /\ TransmitCompleteIdle(e)
    <3>1. m_queue[e] = <<>>
      BY <2>6 DEF TransmitCompleteIdle
    <3> QED BY <2>1, <3>1 DEF HasRoom
  <2>7. CASE e = d /\ TransmitCompleteNext(e)
    <3> DEFINE q == m_queue[e]
    <3>1. /\ q # <<>> /\ m_queue'[e] = Tail(q) /\ m_currentPkt'[e] = Head(q)
          /\ m_stoppedByDevice'[e] = PacketDequeued(e, m_stoppedByDevice[e], Tail(q))
      BY <2>7 DEF TransmitCompleteNext, TransmitStart, Dequeue, TypeOK
    <3>2. q \in Seq(Frames) /\ Len(q) <= QueueLimit
      BY <2>1
    <3> HIDE DEF q
    <3>3. HasRoom(Tail(q))
      BY <3>1, <3>2 DEF HasRoom
    <3>4. m_stoppedByDevice'[e] = FALSE
      BY <2>1, <3>1, <3>3 DEF PacketDequeued
    <3> QED BY <3>1, <3>4 DEF WakesFirst, q
  <2> QED BY <2>0, <2>3, <2>4, <2>5, <2>6, <2>7 DEF TransmitComplete
<1> QED BY <1>1, TransmitterInvariant, PTL DEF Spec, FirstDequeueWakes, WakesFirst
-----------------------------------------------------------------------------

\* A journey is as long as its three legs.
LEMMA JourneyLength ==
  ASSUME TypeOK, NEW e \in Devices
  PROVE  Len(Journey(e)) = Len(passedUp[Peer(e)]) + Len(wire[e]) + Len(m_queue[e])
<1> DEFINE S == Deliveries \union Frames
<1>1. /\ passedUp[Peer(e)] \in Seq(Deliveries)
      /\ wire[e] \in Seq(Frames) /\ m_queue[e] \in Seq(Frames)
  BY PeerType DEF TypeOK
<1>2. passedUp[Peer(e)] \in Seq(S) /\ wire[e] \in Seq(S) /\ m_queue[e] \in Seq(S)
  BY <1>1
<1> HIDE DEF S
<1> QED BY <1>2 DEF Journey

\* What becomes of the packets given to Send, counted.
Balance(e) ==
  sends[e] = txDrops[e] + Len(passedUp[Peer(e)]) + Len(wire[e]) + Len(m_queue[e])
               + rxDrops[Peer(e)]

\* A step adds to the terms of device e's balance: calls of Send, drops, and
\* frames in the queue, on the wire, passed up and found corrupt.
Moved(e, sent, dropped, queued, wired, up, corrupt) ==
  /\ sends'[e] = sends[e] + sent
  /\ txDrops'[e] = txDrops[e] + dropped
  /\ Len(m_queue'[e]) = Len(m_queue[e]) + queued
  /\ Len(wire'[e]) = Len(wire[e]) + wired
  /\ Len(passedUp'[Peer(e)]) = Len(passedUp[Peer(e)]) + up
  /\ rxDrops'[Peer(e)] = rxDrops[Peer(e)] + corrupt

\* The legs of a balance are natural numbers.
LEMMA BalanceType ==
  ASSUME TypeOK, NEW e \in Devices
  PROVE  /\ sends[e] \in Nat /\ txDrops[e] \in Nat /\ rxDrops[Peer(e)] \in Nat
         /\ Len(m_queue[e]) \in Nat /\ Len(wire[e]) \in Nat
         /\ Len(passedUp[Peer(e)]) \in Nat
<1>1. /\ m_queue[e] \in Seq(Frames) /\ wire[e] \in Seq(Frames)
      /\ Peer(e) \in Devices /\ passedUp[Peer(e)] \in Seq(Deliveries)
      /\ sends[e] \in Nat /\ txDrops[e] \in Nat /\ rxDrops[Peer(e)] \in Nat
  BY PeerType DEF TypeOK
<1> QED BY <1>1

\* A balance stays one if as much is added on one side as on the other.
LEMMA BalanceMoved ==
  ASSUME TypeOK, NEW e \in Devices, Balance(e),
         NEW sent \in Int, NEW dropped \in Int, NEW queued \in Int, NEW wired \in Int,
         NEW up \in Int, NEW corrupt \in Int,
         Moved(e, sent, dropped, queued, wired, up, corrupt),
         sent = dropped + queued + wired + up + corrupt
  PROVE  Balance(e)'
<1> DEFINE s == sends[e]  t == txDrops[e]  q == Len(m_queue[e])  w == Len(wire[e])
           u == Len(passedUp[Peer(e)])  r == rxDrops[Peer(e)]
<1>1. s \in Nat /\ t \in Nat /\ q \in Nat /\ w \in Nat /\ u \in Nat /\ r \in Nat
  BY BalanceType
<1>2. s = t + u + w + q + r
  BY DEF Balance
<1>3. /\ sends'[e] = s + sent /\ txDrops'[e] = t + dropped
      /\ Len(m_queue'[e]) = q + queued /\ Len(wire'[e]) = w + wired
      /\ Len(passedUp'[Peer(e)]) = u + up /\ rxDrops'[Peer(e)] = r + corrupt
  BY DEF Moved
<1> HIDE DEF s, t, q, w, u, r
<1>4. s + sent = (t + dropped) + (u + up) + (w + wired) + (q + queued) + (r + corrupt)
  BY <1>1, <1>2
<1>5. sends'[e] = txDrops'[e] + Len(passedUp'[Peer(e)]) + Len(wire'[e]) + Len(m_queue'[e])
                    + rxDrops'[Peer(e)]
  BY <1>3, <1>4
<1> QED BY <1>5 DEF Balance

LEMMA BalanceStep ==
  ASSUME TypeOK, NEW d \in Devices, NEW e \in Devices, Balance(e),
         \/ Attach(d) \/ DoInitialize(d) \/ Send(d) \/ TransmitComplete(d) \/ Receive(d)
  PROVE  Balance(e)'
<1>0. /\ m_queue[e] \in Seq(Frames) /\ wire[e] \in Seq(Frames)
      /\ Peer(e) \in Devices /\ passedUp[Peer(e)] \in Seq(Deliveries)
  BY PeerType DEF TypeOK
<1>a. /\ sends[e] \in Nat /\ txDrops[e] \in Nat /\ rxDrops[Peer(e)] \in Nat
      /\ Len(m_queue[e]) \in Nat /\ Len(wire[e]) \in Nat
      /\ Len(passedUp[Peer(e)]) \in Nat
  BY BalanceType
<1>1. CASE Attach(d) \/ DoInitialize(d) \/ TransmitCompleteIdle(d)
  BY <1>1 DEF Attach, DoInitialize, TransmitCompleteIdle, txVars, rxVars, Balance
<1>2. CASE SendLinkDown(d) \/ SendOverflow(d)
  <2>1. /\ sends' = [sends EXCEPT ![d] = @ + 1] /\ txDrops' = [txDrops EXCEPT ![d] = @ + 1]
        /\ UNCHANGED <<m_queue, wire, passedUp, rxDrops>>
    BY <1>2 DEF SendLinkDown, SendOverflow, txVars, rxVars
  <2>2. CASE e = d
    <3>1. Moved(e, 1, 1, 0, 0, 0, 0)
      BY <1>a, <2>1, <2>2 DEF TypeOK, Moved
    <3> QED BY <3>1, BalanceMoved
  <2>3. CASE e # d
    BY <2>1, <2>3 DEF Balance, TypeOK
  <2> QED BY <2>2, <2>3
<1>3. ASSUME NEW ether \in EtherTypes, SendEnqueue(d, ether) \/ SendStart(d, ether)
      PROVE  Balance(e)'
  <2> DEFINE f == Framed(d, NewPacket(d, ether))
  <2>1. /\ sends' = [sends EXCEPT ![d] = @ + 1]
        /\ UNCHANGED <<passedUp, txDrops, rxDrops>>
    BY <1>3 DEF SendEnqueue, SendStart, rxVars
  <2>2. CASE e # d
    <3>1. m_queue'[e] = m_queue[e] /\ wire'[e] = wire[e] /\ sends'[e] = sends[e]
      BY <1>3, <2>2 DEF SendEnqueue, SendStart, TransmitStart, TypeOK
    <3> QED BY <2>1, <3>1 DEF Balance
  <2>3. CASE e = d
    <3>1. f \in Frames
      BY <1>3, FramedType DEF SendEnqueue, SendStart
    <3>2. /\ sends'[e] = sends[e] + 1
          /\ UNCHANGED <<txDrops, passedUp, rxDrops>>
      BY <2>1, <2>3 DEF TypeOK
    <3>3. CASE SendEnqueue(d, ether)
      <4>1. m_queue'[e] = Append(m_queue[e], f) /\ wire' = wire
        BY <2>3, <3>3 DEF SendEnqueue, Enqueue, TypeOK
      <4> HIDE DEF f
      <4>2. Len(m_queue'[e]) = Len(m_queue[e]) + 1
        BY <1>0, <3>1, <4>1
      <4>3. Moved(e, 1, 0, 1, 0, 0, 0)
        BY <1>a, <3>2, <4>1, <4>2 DEF Moved
      <4> QED BY <4>3, BalanceMoved
    <3>4. CASE SendStart(d, ether)
      <4> DEFINE q == Append(m_queue[e], f)
      <4>1. m_queue'[e] = Tail(q) /\ wire'[e] = Append(wire[e], Head(q))
        BY <2>3, <3>4 DEF SendStart, TransmitStart, Enqueue, Dequeue, TypeOK
      <4> HIDE DEF f
      <4>2. q \in Seq(Frames) /\ Len(q) = Len(m_queue[e]) + 1 /\ q # <<>>
        BY <1>0, <3>1, AppendToSeq
      <4> HIDE DEF q
      <4>3. Len(Tail(q)) = Len(m_queue[e]) /\ Head(q) \in Frames
        BY <1>a, <4>2
      <4>4. Len(wire'[e]) = Len(wire[e]) + 1
        BY <1>0, <4>1, <4>3
      <4>5. Moved(e, 1, 0, 0, 1, 0, 0)
        BY <1>a, <3>2, <4>1, <4>3, <4>4 DEF Moved
      <4> QED BY <4>5, BalanceMoved
    <3> QED BY <1>3, <3>3, <3>4
  <2> QED BY <2>2, <2>3
<1>4. CASE TransmitCompleteNext(d)
  <2>1. UNCHANGED <<sends, passedUp, txDrops, rxDrops>>
    BY <1>4 DEF TransmitCompleteNext, rxVars
  <2>2. CASE e # d
    <3>1. m_queue'[e] = m_queue[e] /\ wire'[e] = wire[e]
      BY <1>4, <2>2 DEF TransmitCompleteNext, TransmitStart, TypeOK
    <3> QED BY <2>1, <3>1 DEF Balance
  <2>3. CASE e = d
    <3> DEFINE q == m_queue[e]
    <3>1. /\ m_queue'[e] = Tail(q) /\ wire'[e] = Append(wire[e], Head(q))
          /\ q \in Seq(Frames) /\ q # <<>>
      BY <1>4, <2>3 DEF TransmitCompleteNext, TransmitStart, Dequeue, TypeOK
    <3>2. Len(Tail(q)) = Len(q) - 1 /\ Head(q) \in Frames
      <4> HIDE DEF q
      <4> QED BY <3>1
    <3>3. Len(wire'[e]) = Len(wire[e]) + 1
      BY <1>0, <3>1, <3>2
    <3>4. Moved(e, 0, 0, 0 - 1, 1, 0, 0)
      BY <1>a, <2>1, <3>1, <3>2, <3>3 DEF Moved
    <3> QED BY <3>4, BalanceMoved
  <2> QED BY <2>2, <2>3
<1>5. CASE Receive(d)
  <2>1. UNCHANGED <<sends, txDrops, m_queue>>
    BY <1>5 DEF Receive, ReceiveUp, ReceiveCorrupt
  <2>2. CASE e # Peer(d)
    <3>1. d # Peer(e) /\ Peer(d) \in Devices
      BY <2>2, PeerType
    <3>2. /\ wire'[e] = wire[e] /\ passedUp'[Peer(e)] = passedUp[Peer(e)]
          /\ rxDrops'[Peer(e)] = rxDrops[Peer(e)]
      BY <1>0, <1>5, <2>2, <3>1 DEF Receive, ReceiveUp, ReceiveCorrupt, TypeOK
    <3> QED BY <2>1, <3>2 DEF Balance
  <2>3. CASE e = Peer(d)
    <3> DEFINE w == wire[e]
    <3>0. Peer(e) = d
      BY <2>3, PeerType
    <3>1. w \in Seq(Frames) /\ w # <<>> /\ wire'[e] = Tail(w)
      BY <1>5, <2>3 DEF Receive, ReceiveUp, ReceiveCorrupt, TypeOK
    <3>2. Len(Tail(w)) = Len(w) - 1 /\ Head(w) \in Frames
      <4> HIDE DEF w
      <4> QED BY <3>1
    <3>3. CASE ReceiveUp(d)
      <4>1. /\ passedUp'[d] = Append(passedUp[d], Unframed(d, Head(w)))
            /\ rxDrops' = rxDrops
        BY <2>3, <3>3 DEF ReceiveUp, TypeOK
      <4>2. Unframed(d, Head(w)) \in Deliveries
        BY <3>2, UnframedType
      <4>3. Len(passedUp'[d]) = Len(passedUp[d]) + 1
        BY <1>0, <3>0, <4>1, <4>2
      <4>4. Moved(e, 0, 0, 0, 0 - 1, 1, 0)
        BY <1>a, <2>1, <3>0, <3>1, <3>2, <4>1, <4>3 DEF Moved
      <4> QED BY <4>4, BalanceMoved
    <3>4. CASE ReceiveCorrupt(d)
      <4>1. rxDrops'[d] = rxDrops[d] + 1 /\ passedUp' = passedUp
        BY <3>4 DEF ReceiveCorrupt, TypeOK
      <4>2. Moved(e, 0, 0, 0, 0 - 1, 0, 1)
        BY <1>a, <2>1, <3>0, <3>1, <3>2, <4>1 DEF Moved
      <4> QED BY <4>2, BalanceMoved
    <3> QED BY <1>5, <3>3, <3>4 DEF Receive
  <2> QED BY <2>2, <2>3
<1> QED BY <1>1, <1>2, <1>3, <1>4, <1>5 DEF Send, TransmitComplete

\* Every packet given to Send is dropped and counted, waiting, on the wire, or has
\* been received: none is lost silently and none appears from nowhere.
THEOREM NothingLost == Spec => []Conservation
<1> DEFINE Balanced == \A e \in Devices : Balance(e)
<1>1. Init => Balanced
  BY PeerType DEF Init, Balance
<1>2. TypeOK /\ Balanced /\ [Next]_vars => Balanced'
  <2> SUFFICES ASSUME TypeOK, Balanced, [Next]_vars, NEW e \in Devices
               PROVE  Balance(e)'
    OBVIOUS
  <2>1. CASE UNCHANGED vars
    BY <2>1 DEF vars, txVars, rxVars, Balance
  <2>2. CASE Next
    <3>1. PICK d \in Devices :
            Attach(d) \/ DoInitialize(d) \/ Send(d) \/ TransmitComplete(d) \/ Receive(d)
      BY <2>2 DEF Next
    <3> QED BY <3>1, BalanceStep
  <2> QED BY <2>1, <2>2
<1>3. TypeOK /\ Balanced => Conservation
  <2> SUFFICES ASSUME TypeOK, Balanced, NEW e \in Devices
               PROVE  sends[e] = txDrops[e] + Len(Journey(e)) + rxDrops[Peer(e)]
    BY DEF Conservation
  <2> DEFINE t == txDrops[e]  q == Len(m_queue[e])  w == Len(wire[e])
             u == Len(passedUp[Peer(e)])  r == rxDrops[Peer(e)]
  <2>1. t \in Nat /\ q \in Nat /\ w \in Nat /\ u \in Nat /\ r \in Nat
    BY BalanceType
  <2>2. sends[e] = t + u + w + q + r /\ Len(Journey(e)) = u + w + q
    BY JourneyLength DEF Balance
  <2> HIDE DEF q, w, u
  <2> QED BY <2>1, <2>2
<1> QED BY <1>1, <1>2, <1>3, TypeCorrect, PTL DEF Spec
=============================================================================
