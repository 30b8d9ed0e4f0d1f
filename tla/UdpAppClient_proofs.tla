------------------------ MODULE UdpAppClient_proofs ------------------------
(***************************************************************************)
(* Proofs about UdpAppClient, for every MaxPackets, packet size, array and *)
(* (even) width of the counters.                                           *)
(***************************************************************************)
EXTENDS UdpAppClient, TLAPS

USE ClientAssumption

\* Arithmetic of uint32_t, for numbers of which the double of m_count is the
\* largest.
LEMMA Modulo ==
  ASSUME NEW n \in Nat \ {0}, NEW x \in Nat
  PROVE  /\ x % n \in 0 .. n - 1
         /\ x < n => x % n = x
         /\ n <= x /\ x < 2 * n => x % n = x - n
<1>1. x % n \in 0 .. n - 1 /\ (x < n => x % n = x)
  BY SMT
<1>2. ASSUME n <= x, x < 2 * n PROVE x % n = x - n
  <2>1. x - n \in 0 .. n - 1 /\ x = n * 1 + (x - n)
    BY <1>2
  <2> QED BY <2>1, SMT
<1> QED BY <1>1, <1>2

\* What the script and the simulator may do when.
Life ==
  /\ application = "created" => sent = <<>> /\ m_sent_l = 0 /\ m_sendEvent = "expired"
  /\ m_sendEvent = "pending" => application = "running" /\ m_socket = "open"

\* Until it wraps, m_sent_l counts the packets.
Counted == Len(sent) < U32 => m_sent_l = Len(sent)

\* A client whose trains end has an event exactly while packets are missing.
Plan ==
  /\ Ends =>
       /\ Len(sent) <= Planned
       /\ application = "running" => (m_sendEvent = "pending" <=> Len(sent) < Planned)
  /\ ~Ends /\ application = "running" => m_sendEvent = "pending"

\* Which array the packets come from: rows from the pause on, if SetFill has not
\* asked for a data size at once.
Sources ==
  sent # <<>> /\ sent[1].from = "lowPackets" =>
    /\ m_dataSize # 0 <=> ReachesPause /\ Len(sent) > clientCount
    /\ \A i \in 1 .. Len(sent) :
         sent[i].from = IF ReachesPause /\ i > clientCount + 1 THEN "row" ELSE "lowPackets"

\* The size of the next packet, and of those sent.
NextSize == IF m_dataSize # 0 THEN m_dataSize ELSE RowBytes
Sizes ==
  sent # <<>> /\ ReachesPause =>
    /\ NextSize = IF Len(sent) > clientCount THEN RowBytes ELSE sent[1].size
    /\ \A i \in 1 .. Len(sent) :
         sent[i].size = IF i > clientCount + 1 THEN RowBytes ELSE sent[1].size

\* The row that was copied for a packet, until the counter wraps.
RowsCounted ==
  \A i \in 1 .. Len(sent) :
    i <= U32 => sent[i].row = IF sent[i].from = "row" THEN i - 1 - Rows ELSE i - 1

IInv == ClientTypeOK /\ Life /\ Counted /\ Plan /\ Sources /\ Sizes /\ SizesAgree /\ RowsCounted

LEMMA InvInit == ClientInit => IInv
<1> SUFFICES ASSUME ClientInit PROVE IInv
  OBVIOUS
<1>1. ClientTypeOK
  BY DEF ClientInit, Construct, ClientTypeOK
<1>2. sent = <<>> /\ Len(sent) = 0 /\ application = "created" /\ m_sendEvent = "expired"
      /\ m_sent_l = 0 /\ m_dataSize = 0 /\ clientCount \in Nat
  BY DEF ClientInit
<1>3. Planned \in Nat
  BY <1>2 DEF Planned
<1> QED BY <1>1, <1>2, <1>3 DEF IInv, Life, Counted, Plan, Sources, Sizes, SizesAgree,
     RowsCounted

\* The operations other than Send leave the packets and the counter alone.
LEMMA SetFillKeeps ==
  ASSUME IInv, NEW size \in FillSizes, SetFill(size) \/ SetDataSize(size)
  PROVE  IInv'
<1>1. /\ application = "created" /\ sent = <<>> /\ m_sent_l = 0 /\ m_sendEvent = "expired"
      /\ sent' = sent /\ m_sent_l' = m_sent_l /\ m_sendEvent' = m_sendEvent
      /\ application' = application /\ clientCount' = clientCount
      /\ m_size' = size /\ m_dataSize' \in {0, size}
  BY DEF IInv, Life, SetFill, SetDataSize
<1>2. ClientTypeOK'
  BY <1>1 DEF IInv, ClientTypeOK, SetFill, SetDataSize
<1>3. Life' /\ SizesAgree' /\ Sources' /\ Sizes' /\ RowsCounted'
  BY <1>1 DEF Life, SizesAgree, Sources, Sizes, RowsCounted
<1>4. Counted' /\ Plan'
  BY <1>1 DEF IInv, Counted, Plan, Ends, ReachesPause, Planned
<1> QED BY <1>2, <1>3, <1>4 DEF IInv

LEMMA StartStopKeeps ==
  ASSUME IInv, StartApplication \/ StopApplication
  PROVE  IInv'
<1>1. UNCHANGED <<clientCount, payloadVars, m_sent_l, sent>>
  BY DEF StartApplication, StopApplication
<1>2. UNCHANGED <<clientCount, m_size, m_dataSize, m_data, m_sent_l, sent>>
  BY <1>1 DEF payloadVars
<1>3. ClientTypeOK'
  <2>1. CASE StartApplication
    BY <1>2, <2>1 DEF IInv, ClientTypeOK, StartApplication, FillInPacketArray
  <2>2. CASE StopApplication
    BY <1>2, <2>2 DEF IInv, ClientTypeOK, StopApplication
  <2> QED BY <2>1, <2>2
<1>4. Life'
  BY <1>2 DEF IInv, Life, StartApplication, StopApplication
<1>5. Counted' /\ Sources' /\ Sizes' /\ SizesAgree' /\ RowsCounted'
  BY <1>2 DEF IInv, Counted, Sources, Sizes, SizesAgree, RowsCounted, ReachesPause, NextSize
<1>6. Plan'
  <2>1. CASE StartApplication
    <3>1. sent = <<>> /\ Len(sent) = 0 /\ m_sendEvent' = "pending" /\ clientCount \in Nat
      BY <2>1 DEF IInv, Life, StartApplication, ClientTypeOK
    <3>2. Planned \in Nat /\ 0 < Planned /\ Planned' = Planned
      BY <1>2, <3>1 DEF Planned
    <3> QED BY <1>2, <3>1, <3>2 DEF Plan, Ends, ReachesPause
  <2>2. CASE StopApplication
    BY <1>2, <2>2 DEF IInv, Plan, Ends, ReachesPause, Planned, StopApplication
  <2> QED BY <2>1, <2>2
<1> QED BY <1>3, <1>4, <1>5, <1>6 DEF IInv

\* Facts about the counter in Send, before and after it.
LEMMA SendCounts ==
  ASSUME ClientTypeOK, Counted
  PROVE  /\ SentCount \in 0 .. U32 - 1
         /\ Len(sent) + 1 < U32 => SentCount = Len(sent) + 1
         /\ PhaseEnds => ReachesPause /\ Len(sent) + 1 > clientCount
         /\ ReachesPause /\ Len(sent) = clientCount => PhaseEnds
<1>1. /\ U32 \in Nat \ {0} /\ m_sent_l \in 0 .. U32 - 1 /\ clientCount \in 0 .. U32 - 1
      /\ Len(sent) \in Nat
  BY DEF ClientTypeOK
<1>2. SentCount \in 0 .. U32 - 1 /\ (m_sent_l + 1 < U32 => SentCount = m_sent_l + 1)
  <2>1. m_sent_l + 1 \in Nat
    BY <1>1
  <2> QED BY <1>1, <2>1, Modulo, Zenon DEF SentCount
<1>3. Len(sent) + 1 < U32 => SentCount = Len(sent) + 1
  BY <1>1, <1>2 DEF Counted
<1>4. /\ clientCount + 1 < U32 => (clientCount + 1) % U32 = clientCount + 1
      /\ clientCount + 1 = U32 => (clientCount + 1) % U32 = 0
  <2>1. clientCount + 1 \in Nat /\ U32 \in Nat /\ U32 <= U32 /\ U32 < 2 * U32 /\ U32 - U32 = 0
    BY <1>1
  <2>2. U32 % U32 = 0
    BY <1>1, <2>1, Modulo, Zenon
  <2>3. clientCount + 1 < U32 => (clientCount + 1) % U32 = clientCount + 1
    BY <1>1, <2>1, Modulo, Zenon
  <2> QED BY <2>2, <2>3, Zenon
<1>5. PhaseEnds => ReachesPause
  BY <1>1, <1>2, <1>4 DEF PhaseEnds, InLowPhase, ReachesPause
<1>6. PhaseEnds => Len(sent) + 1 > clientCount
  BY <1>1, <1>2, <1>3 DEF PhaseEnds, InLowPhase
<1>7. ReachesPause /\ Len(sent) = clientCount => PhaseEnds
  BY <1>1, <1>3, <1>4 DEF PhaseEnds, InLowPhase, ReachesPause
<1> QED BY <1>2, <1>3, <1>5, <1>6, <1>7

\* The packet that Send appends, and the ones before it.
LEMMA SendAppends ==
  ASSUME ClientTypeOK, Send
  PROVE  /\ Len(sent) \in Nat /\ Len(sent') = Len(sent) + 1 /\ sent' # <<>>
         /\ \A i \in 1 .. Len(sent) : sent'[i] = sent[i]
         /\ sent'[Len(sent) + 1] = NextPacket
         /\ sent' \in Seq([from : {"lowPackets", "row"}, row : Int, size : Nat])
<1>1. NextPacket \in [from : {"lowPackets", "row"}, row : Int, size : Nat]
  BY DEF ClientTypeOK, NextPacket, RowRead
<1>2. sent \in Seq([from : {"lowPackets", "row"}, row : Int, size : Nat])
      /\ sent' = Append(sent, NextPacket)
  BY DEF ClientTypeOK, Send
<1> QED BY <1>1, <1>2

LEMMA SendPlansOn ==
  ASSUME IInv, Send
  PROVE  Plan'
<1>1. /\ U32 \in Nat \ {0} /\ clientCount \in 0 .. U32 - 1 /\ Len(sent) \in Nat
      /\ clientCount' = clientCount /\ Len(sent') = Len(sent) + 1
      /\ m_sendEvent = "pending" /\ application' = application
      /\ m_sendEvent' =
           IF InLowPhase \/ PhaseEnds \/ InHighPhase THEN "pending" ELSE "expired"
  BY SendAppends DEF IInv, ClientTypeOK, Send
<1>2. SentCount \in 0 .. U32 - 1 /\ (Len(sent) + 1 < U32 => SentCount = Len(sent) + 1)
  BY SendCounts DEF IInv
<1>3. ASSUME ~Ends PROVE m_sendEvent' = "pending"
  <2>1. CASE clientCount = U32 - 1
    BY <1>1, <1>2, <2>1 DEF InLowPhase
  <2>2. CASE clientCount = U32 - 2
    <3>1. (clientCount + 1) % U32 = clientCount + 1
      <4>1. clientCount + 1 \in Nat /\ clientCount + 1 < U32
        BY <1>1, <2>2
      <4> QED BY <1>1, <4>1, Modulo, Zenon
    <3> QED BY <1>1, <1>2, <2>2, <3>1 DEF InLowPhase, PhaseEnds
  <2> QED BY <1>3, <2>1, <2>2 DEF Ends, ReachesPause
<1>4. ASSUME Ends
      PROVE  /\ Len(sent) + 1 <= Planned
             /\ m_sendEvent' = "pending" <=> Len(sent) + 1 < Planned
  <2>1. clientCount < U32 - 2
    BY <1>1, <1>4 DEF Ends, ReachesPause
  <2>2. Len(sent) < Planned
    BY <1>1, <1>4 DEF IInv, Plan, Life
  <2>3. Planned \in Nat /\ Planned < U32
    <3>1. PICK half \in 1 .. U32 : U32 = 2 * half
      OBVIOUS
    <3> QED BY <1>1, <2>1, <3>1 DEF Planned
  <2>4. SentCount = Len(sent) + 1
    BY <1>1, <1>2, <2>2, <2>3
  <2>5. (clientCount + 1) % U32 = clientCount + 1
    <3>1. clientCount + 1 \in Nat /\ clientCount + 1 < U32
      BY <1>1, <2>1
    <3> QED BY <1>1, <3>1, Modulo, Zenon
  <2>6. /\ 2 * clientCount < U32 => (2 * clientCount) % U32 = 2 * clientCount
        /\ 2 * clientCount >= U32 => (2 * clientCount) % U32 = 2 * clientCount - U32
    <3>1. 2 * clientCount \in Nat /\ 2 * clientCount < 2 * U32
          /\ (2 * clientCount >= U32 <=> U32 <= 2 * clientCount)
      BY <1>1
    <3> QED BY <1>1, <3>1, Modulo, Zenon
  <2>7. Len(sent) + 1 = Planned => ~InLowPhase /\ ~PhaseEnds /\ ~InHighPhase
    BY <1>1, <2>1, <2>4, <2>5, <2>6 DEF Planned, InLowPhase, PhaseEnds, InHighPhase
  <2>8. Len(sent) + 1 < Planned => InLowPhase \/ PhaseEnds \/ InHighPhase
    BY <1>1, <2>1, <2>4, <2>5, <2>6 DEF Planned, InLowPhase, PhaseEnds, InHighPhase
  <2> QED BY <1>1, <2>2, <2>3, <2>7, <2>8
<1>5. Planned' = Planned /\ (Ends' <=> Ends) /\ Planned \in Int
  BY <1>1 DEF Planned, Ends, ReachesPause
<1> QED BY <1>1, <1>3, <1>4, <1>5 DEF Plan

\* What a packet's payload comes from, before and after the pause.
LEMMA SendKeepsSources ==
  ASSUME IInv, Send
  PROVE  Sources'
<1>1. /\ clientCount \in 0 .. U32 - 1 /\ clientCount' = clientCount /\ m_dataSize \in Nat
      /\ m_dataSize' = IF PhaseEnds THEN RowBytes ELSE m_dataSize
      /\ RowBytes # 0
  BY DEF IInv, ClientTypeOK, Send, DataSizeAfter
<1>2. /\ Len(sent) \in Nat /\ Len(sent') = Len(sent) + 1
      /\ \A i \in 1 .. Len(sent) : sent'[i] = sent[i]
      /\ sent'[Len(sent) + 1] = NextPacket
  BY SendAppends DEF IInv
<1>3. /\ PhaseEnds => ReachesPause /\ Len(sent) + 1 > clientCount
      /\ ReachesPause /\ Len(sent) = clientCount => PhaseEnds
  BY SendCounts DEF IInv
<1>4. NextPacket.from = IF m_dataSize # 0 THEN "row" ELSE "lowPackets"
  BY DEF NextPacket
<1>5. SUFFICES ASSUME sent'[1].from = "lowPackets"
               PROVE  /\ m_dataSize' # 0 <=> ReachesPause /\ Len(sent) + 1 > clientCount
                      /\ \A i \in 1 .. Len(sent) + 1 :
                           sent'[i].from = IF ReachesPause /\ i > clientCount + 1
                                             THEN "row" ELSE "lowPackets"
  BY <1>1, <1>2 DEF Sources, ReachesPause
<1>6. m_dataSize # 0 <=> ReachesPause /\ Len(sent) > clientCount
  <2>1. CASE Len(sent) = 0
    BY <1>1, <1>2, <1>4, <1>5, <2>1
  <2>2. CASE Len(sent) # 0
    <3>1. sent # <<>> /\ sent[1].from = "lowPackets"
      BY <1>2, <1>5, <2>2
    <3> QED BY <3>1 DEF IInv, Sources
  <2> QED BY <2>1, <2>2
<1>7. m_dataSize' # 0 <=> ReachesPause /\ Len(sent) + 1 > clientCount
  BY <1>1, <1>2, <1>3, <1>6
<1>8. ASSUME NEW i \in 1 .. Len(sent) + 1
      PROVE  sent'[i].from = IF ReachesPause /\ i > clientCount + 1
                               THEN "row" ELSE "lowPackets"
  <2>1. CASE i = Len(sent) + 1
    BY <1>1, <1>2, <1>4, <1>6, <2>1
  <2>2. CASE i \in 1 .. Len(sent)
    <3>1. sent # <<>> /\ sent[1].from = "lowPackets"
      BY <1>2, <1>5, <2>2
    <3> QED BY <1>2, <2>2, <3>1 DEF IInv, Sources
  <2> QED BY <1>2, <2>1, <2>2
<1> QED BY <1>7, <1>8

LEMMA SendKeepsSizes ==
  ASSUME IInv, Send
  PROVE  Sizes'
<1>1. /\ clientCount \in 0 .. U32 - 1 /\ clientCount' = clientCount /\ m_dataSize \in Nat
      /\ m_dataSize' = IF PhaseEnds THEN RowBytes ELSE m_dataSize
      /\ RowBytes # 0
  BY DEF IInv, ClientTypeOK, Send, DataSizeAfter
<1>2. /\ Len(sent) \in Nat /\ Len(sent') = Len(sent) + 1
      /\ \A i \in 1 .. Len(sent) : sent'[i] = sent[i]
      /\ sent'[Len(sent) + 1] = NextPacket
  BY SendAppends DEF IInv
<1>3. /\ PhaseEnds => Len(sent) + 1 > clientCount
      /\ ReachesPause /\ Len(sent) = clientCount => PhaseEnds
  BY SendCounts DEF IInv
<1>4. NextPacket.size = NextSize
  BY DEF NextPacket, NextSize
<1>5. SUFFICES ASSUME ReachesPause
               PROVE  /\ NextSize' = IF Len(sent) + 1 > clientCount THEN RowBytes
                                                                    ELSE sent'[1].size
                      /\ \A i \in 1 .. Len(sent) + 1 :
                           sent'[i].size = IF i > clientCount + 1 THEN RowBytes
                                                                  ELSE sent'[1].size
  BY <1>1, <1>2 DEF Sizes, ReachesPause
<1>6. NextSize' = IF PhaseEnds THEN RowBytes ELSE NextSize
  BY <1>1 DEF NextSize
<1>7. NextSize = IF Len(sent) > clientCount THEN RowBytes ELSE sent'[1].size
  <2>1. CASE Len(sent) = 0
    BY <1>1, <1>2, <1>4, <2>1
  <2>2. CASE Len(sent) # 0
    <3>1. sent # <<>> /\ sent'[1] = sent[1]
      BY <1>2, <2>2
    <3> QED BY <1>5, <3>1 DEF IInv, Sizes
  <2> QED BY <2>1, <2>2
<1>8. NextSize' = IF Len(sent) + 1 > clientCount THEN RowBytes ELSE sent'[1].size
  BY <1>1, <1>2, <1>3, <1>5, <1>6, <1>7
<1>9. ASSUME NEW i \in 1 .. Len(sent) + 1
      PROVE  sent'[i].size = IF i > clientCount + 1 THEN RowBytes ELSE sent'[1].size
  <2>1. CASE i = Len(sent) + 1
    BY <1>1, <1>2, <1>4, <1>7, <2>1
  <2>2. CASE i \in 1 .. Len(sent)
    <3>1. sent # <<>> /\ sent'[1] = sent[1]
      BY <1>2, <2>2
    <3> QED BY <1>2, <1>5, <2>2, <3>1 DEF IInv, Sizes
  <2> QED BY <1>2, <2>1, <2>2
<1> QED BY <1>8, <1>9

LEMMA SendKeepsRows ==
  ASSUME IInv, Send
  PROVE  RowsCounted'
<1>1. /\ Len(sent) \in Nat /\ Len(sent') = Len(sent) + 1
      /\ \A i \in 1 .. Len(sent) : sent'[i] = sent[i]
      /\ sent'[Len(sent) + 1] = NextPacket
  BY SendAppends DEF IInv
<1>2. Len(sent) < U32 => m_sent_l = Len(sent)
  BY DEF IInv, Counted
<1>3. /\ m_dataSize # 0 => NextPacket.from = "row" /\ NextPacket.row = m_sent_l - Rows
      /\ m_dataSize = 0 => NextPacket.from = "lowPackets" /\ NextPacket.row = m_sent_l
  BY DEF NextPacket, RowRead
<1> SUFFICES ASSUME NEW i \in 1 .. Len(sent'), i <= U32
             PROVE  sent'[i].row = IF sent'[i].from = "row" THEN i - 1 - Rows ELSE i - 1
  BY DEF RowsCounted
<1>4. CASE i \in 1 .. Len(sent)
  BY <1>1, <1>4 DEF IInv, RowsCounted
<1>5. CASE i = Len(sent) + 1
  <2>1. m_sent_l = i - 1
    BY <1>1, <1>2, <1>5
  <2>2. CASE m_dataSize # 0
    BY <1>1, <1>3, <1>5, <2>1, <2>2
  <2>3. CASE m_dataSize = 0
    BY <1>1, <1>3, <1>5, <2>1, <2>3
  <2> QED BY <2>2, <2>3
<1> QED BY <1>1, <1>4, <1>5

LEMMA SendKeeps ==
  ASSUME IInv, Send
  PROVE  IInv'
<1>1. /\ Len(sent) \in Nat /\ Len(sent') = Len(sent) + 1 /\ sent' # <<>>
      /\ sent' \in Seq([from : {"lowPackets", "row"}, row : Int, size : Nat])
  BY SendAppends DEF IInv
<1>2. /\ SentCount \in 0 .. U32 - 1
      /\ Len(sent) + 1 < U32 => SentCount = Len(sent) + 1
      /\ PhaseEnds => Len(sent) + 1 > clientCount
  BY SendCounts DEF IInv
<1>3. /\ m_sent_l' = SentCount /\ m_sendEvent' \in {"pending", "expired"}
      /\ m_sendEvent = "pending" /\ m_data' = "row"
      /\ m_dataSize' = IF PhaseEnds THEN RowBytes ELSE m_dataSize
      /\ UNCHANGED <<clientCount, m_size, m_socket, lowPackets, filled, randomfile, application>>
  BY DEF Send, DataSizeAfter
<1>4. ClientTypeOK'
  BY <1>1, <1>2, <1>3 DEF IInv, ClientTypeOK
<1>5. Life' /\ Counted'
  BY <1>1, <1>2, <1>3 DEF IInv, Life, Counted
<1>6. SizesAgree'
  BY <1>1, <1>2, <1>3 DEF IInv, ClientTypeOK, SizesAgree
<1> QED BY <1>4, <1>5, <1>6, SendPlansOn, SendKeepsSources, SendKeepsSizes, SendKeepsRows
  DEF IInv

LEMMA Invariant == ClientSpec => []IInv
<1>1. ASSUME IInv, [ClientNext]_clientvars PROVE IInv'
  <2>1. CASE ClientNext
    BY <1>1, <2>1, SetFillKeeps, StartStopKeeps, SendKeeps DEF ClientNext
  <2>2. CASE UNCHANGED clientvars
    <3>1. UNCHANGED <<clientCount, m_size, m_dataSize, m_data, m_sent_l, m_socket,
                      m_sendEvent, lowPackets, filled, randomfile, application, sent>>
      BY <2>2 DEF clientvars, payloadVars
    <3> QED BY <1>1, <3>1 DEF IInv, ClientTypeOK, Life, Counted, Plan, Sources, Sizes,
               SizesAgree, RowsCounted, Ends, ReachesPause, Planned, NextSize
  <2> QED BY <1>1, <2>1, <2>2
<1> QED BY InvInit, <1>1, PTL DEF ClientSpec

\* The counters keep their width and the packets their types.
THEOREM ClientTypeCorrect == ClientSpec => []ClientTypeOK
<1>1. IInv => ClientTypeOK
  BY DEF IInv
<1> QED BY Invariant, <1>1, PTL

\* Send, run from the event queue, always finds a socket: StopApplication cancels
\* the event when it drops the socket.
THEOREM SocketForEveryEvent == ClientSpec => []EventHasSocket
<1>1. IInv => EventHasSocket
  BY DEF IInv, Life, EventHasSocket
<1> QED BY Invariant, <1>1, PTL

\* The branches at the end of Send make the two trains, of the lengths Planned,
\* for every MaxPackets but the two at which m_sent_l wraps first.
THEOREM TrainsAsPlanned == ClientSpec => []SendPlan
<1>1. IInv => SendPlan
  <2> SUFFICES ASSUME IInv PROVE SendPlan
    OBVIOUS
  <2>1. ASSUME Unfilled
        PROVE  \A i \in 1 .. Len(sent) :
                 sent[i].from = IF ReachesPause /\ i > clientCount + 1 THEN "row"
                                                                      ELSE "lowPackets"
    <3>1. CASE sent = <<>>
      BY <3>1
    <3>2. CASE sent # <<>>
      BY <2>1, <3>2 DEF IInv, Sources, Unfilled
    <3> QED BY <3>1, <3>2
  <2> QED BY <2>1 DEF IInv, Plan, SendPlan
<1> QED BY Invariant, <1>1, PTL

\* The memcpy of a row in Send overruns the buffer of a short SetFill in all of
\* the first train, and in none of the second.
THEOREM CopiesThatFit == ClientSpec => []CopyFits
<1>1. IInv => CopyFits
  <2> SUFFICES ASSUME IInv, ReachesPause, NEW i \in 1 .. Len(sent)
               PROVE  (sent[i].size < RowBytes)
                        <=> (i <= clientCount + 1 /\ sent[1].size < RowBytes)
    BY DEF CopyFits
  <2>1. sent # <<>> /\ clientCount \in Nat
    BY DEF IInv, ClientTypeOK
  <2>2. sent[i].size = IF i > clientCount + 1 THEN RowBytes ELSE sent[1].size
    BY <2>1 DEF IInv, Sizes
  <2> QED BY <2>1, <2>2
<1> QED BY Invariant, <1>1, PTL

\* Both trains copy rows of the array for one MaxPackets alone: with any other, the
\* first train leaves the array or the second begins before it.
THEOREM RowsFitOneTrain == ClientSpec => []RowsFitOnce
<1>1. IInv => RowsFitOnce
  <2> SUFFICES ASSUME IInv, Unfilled PROVE RowsFitOnce
    BY DEF RowsFitOnce
  <2>0. /\ clientCount \in 0 .. U32 - 1 /\ Len(sent) \in Nat /\ Rows \in Nat \ {0}
        /\ 2 * Rows < U32 /\ U32 \in Nat
    BY DEF IInv, ClientTypeOK
  <2>1. \A i \in 1 .. Len(sent) :
          sent[i].from = IF ReachesPause /\ i > clientCount + 1 THEN "row" ELSE "lowPackets"
    <3>1. sent = <<>> \/ (sent # <<>> /\ sent[1].from = "lowPackets")
      BY DEF Unfilled
    <3> QED BY <3>1 DEF IInv, Sources
  <2>2. \A i \in 1 .. Len(sent) :
          i <= U32 => sent[i].row = IF ReachesPause /\ i > clientCount + 1
                                      THEN i - 1 - Rows ELSE i - 1
    BY <2>1 DEF IInv, RowsCounted
  <2>3. ASSUME clientCount = Rows - 1 PROVE RowsInArray
    <3>1. Ends /\ ReachesPause /\ Planned <= 2 * Rows
      BY <2>0, <2>3 DEF Ends, ReachesPause, Planned
    <3>2. Len(sent) <= 2 * Rows
      <4>1. Len(sent) <= Planned /\ Planned \in Nat
        BY <2>0, <3>1 DEF IInv, Plan, Planned
      <4> QED BY <2>0, <3>1, <4>1
    <3> SUFFICES ASSUME NEW i \in 1 .. Len(sent) PROVE sent[i].row \in 0 .. Rows - 1
      BY DEF RowsInArray
    <3>3. sent[i].row = IF i > Rows THEN i - 1 - Rows ELSE i - 1
      BY <2>0, <2>2, <2>3, <3>1, <3>2
    <3> QED BY <2>0, <3>2, <3>3
  <2>4. ASSUME clientCount # Rows - 1, Len(sent) >= clientCount + 2 PROVE ~RowsInArray
    <3>1. CASE clientCount < Rows - 1
      <4> DEFINE i == clientCount + 2
      <4>1. i \in 1 .. Len(sent) /\ i <= U32 /\ ReachesPause /\ i > clientCount + 1
        BY <2>0, <2>4, <3>1 DEF ReachesPause
      <4>2. sent[i].row = clientCount + 1 - Rows
        BY <2>0, <2>2, <4>1
      <4>3. sent[i].row \notin 0 .. Rows - 1
        BY <2>0, <3>1, <4>2
      <4> QED BY <4>1, <4>3 DEF RowsInArray
    <3>2. CASE clientCount >= Rows
      <4> DEFINE i == Rows + 1
      <4>1. i \in 1 .. Len(sent) /\ i <= U32 /\ ~(i > clientCount + 1)
        BY <2>0, <2>4, <3>2
      <4>2. sent[i].row = Rows
        BY <2>0, <2>2, <4>1
      <4>3. sent[i].row \notin 0 .. Rows - 1
        BY <2>0, <4>2
      <4> QED BY <4>1, <4>3 DEF RowsInArray
    <3> QED BY <2>0, <2>4, <3>1, <3>2
  <2> QED BY <2>3, <2>4 DEF RowsFitOnce
<1> QED BY Invariant, <1>1, PTL

\* m_size and m_dataSize disagree in the second train alone.
THEOREM SizesAgreeInFirstTrain == ClientSpec => []SizesAgree
<1>1. IInv => SizesAgree
  BY DEF IInv
<1> QED BY Invariant, <1>1, PTL
=============================================================================
