------------------------- MODULE Experiment_proofs -------------------------
(***************************************************************************)
(* Proofs about Experiment, for every MaxPackets, network delay, loss and  *)
(* host: the counting of the server, which knows the two trains only by    *)
(* their lengths (EInv), what the wall clock gains in its two windows, by  *)
(* the simulated times of sending, arrival and pauses, at most (TInv) and  *)
(* at least (SleptWindows), and what a verdict rests on (VInv).            *)
(***************************************************************************)
EXTENDS Experiment, UdpAppClient_proofs, FiniteSetTheorems

Payloads == [from : {"lowPackets", "row"}, row : Int, size : Nat]

\* The variables of the server and of the network have values of their types; the
\* wall clock has not gone back since a train began.
ExperimentTypeOK ==
  /\ serverMaxPackets \in ServerCounts
  /\ m_received_l \in 0 .. U16 - 1 /\ m_received_h \in 0 .. U16 - 1
  /\ receivedAllLowEntropy \in BOOLEAN
  /\ wall \in Nat /\ m_first_t \in 0 .. wall
  /\ m_duration_l \in Nat /\ m_duration_h \in Nat
  /\ delay \in Delays /\ sendAt \in Nat
  /\ air \in Seq([packet : Payloads, at : Nat]) /\ arrived \in Seq(Payloads)
  /\ losses \in Nat

\* The server's counters, in packets that have arrived: m_received_l until the first
\* train is complete, m_received_h until one packet after the second is.
Counting ==
  /\ ~receivedAllLowEntropy /\ m_count # 1 =>
       Len(arrived) < TrainLength /\ m_received_l = Len(arrived)
  /\ ~receivedAllLowEntropy => m_received_h = 0
  /\ receivedAllLowEntropy => m_count # 1 /\ Len(arrived) >= TrainLength
  /\ receivedAllLowEntropy /\ Len(arrived) < 2 * TrainLength =>
       m_received_h = Len(arrived) - TrainLength
  /\ receivedAllLowEntropy /\ Len(arrived) = 2 * TrainLength => m_received_h = m_count
  /\ receivedAllLowEntropy /\ Len(arrived) = 2 * TrainLength + 1 =>
       m_received_h = (m_count + 1) % U16

\* Until the second train is complete it has no duration.
DurationWhenMeasured ==
  /\ m_duration_h # 0 => receivedAllLowEntropy /\ Len(arrived) >= 2 * TrainLength
  /\ DetectedIsMeasured

\* Every packet that was sent has arrived, is on its way or is lost; if none is lost
\* they arrive as they were sent.
Travelling ==
  /\ Len(sent) = Len(arrived) + Len(air) + losses
  /\ losses = 0 =>
       /\ \A i \in 1 .. Len(arrived) : arrived[i] = sent[i]
       /\ \A i \in 1 .. Len(air) : air[i].packet = sent[Len(arrived) + i]

\* The programs do not call SetFill for this client.
NeverFilled == Unfilled /\ (sent = <<>> => m_dataSize = 0)

\* From the first to the last packet of the second train the wall clock gains at
\* most MaxCost with every packet that is sent or arrives: the pause is over.
SecondWindow ==
  SameCount /\ otherStarts = {} /\ m_count >= 2 =>
    /\ receivedAllLowEntropy /\ Len(arrived) > m_count /\ Len(arrived) < 2 * m_count =>
         wall - m_first_t <= (Len(arrived) + Len(sent) - 2 * m_count - 2) * MaxCost
    /\ m_duration_h <= WorkOf(m_count)

NoPauses == otherStarts = {} => pauses = {}

EInv ==
  /\ ExperimentTypeOK /\ Counting /\ DurationWhenMeasured /\ Travelling /\ NeverFilled
  /\ NoPauses /\ SecondWindow

\* The events happen in the order of their times, and nothing is done twice.
InTime ==
  /\ now \in Nat /\ otherStarts \subseteq Nat
  /\ sendAt = ClientStart + Len(sent) * Interval
  /\ pauses \subseteq {PauseAt(s) : s \in otherStarts} /\ \A t \in pauses : now <= t
  /\ \A s \in otherStarts : PauseAt(s) \in pauses \/ PauseAt(s) <= now
  /\ losses = 0 =>
       /\ \A i \in 1 .. Len(air) : air[i].at = ArrivalOf(Len(arrived) + i)
       /\ Len(arrived) # 0 => ArrivalOf(Len(arrived)) <= now

\* With a short path, a packet arrives before the next one is sent.
InStep == losses = 0 /\ delay < Interval => Len(sent) <= Len(arrived) + 1

\* The other clients that have paused since the n-th packet arrived.
PausedSince(n) == {s \in otherStarts : ArrivalOf(n) <= PauseAt(s) /\ PauseAt(s) \notin pauses}

\* Since the n-th packet arrived the wall clock has gained MaxCost with every packet
\* that was sent or arrived, and Sleep with every client but the measured one that
\* has paused.
Gain(n) == (Len(arrived) + Len(sent) - 2 * n) * MaxCost + Sleep * Cardinality(PausedSince(n))
Gained(n) == wall - m_first_t <= Gain(n)

BothWindows ==
  SameCount /\ m_count >= 2 /\ losses = 0 /\ delay < Interval =>
    /\ ~receivedAllLowEntropy /\ Len(arrived) >= 1 => Gained(1)
    /\ m_duration_l <= WorkOf(m_count) + Sleep * PausesBetween(1, m_count)
    /\ receivedAllLowEntropy /\ Len(arrived) > m_count /\ Len(arrived) < 2 * m_count =>
         Gained(m_count + 1)
    /\ m_duration_h <= WorkOf(m_count) + Sleep * PausesBetween(m_count + 1, 2 * m_count)

TInv == InTime /\ InStep /\ BothWindows

\* The other clients that have paused after the n-th packet arrived, and not at the
\* time of its arrival: the wall clock has gained at least their sleeps.
PausedAfter(n) == {s \in otherStarts : ArrivalOf(n) < PauseAt(s) /\ PauseAt(s) \notin pauses}
Slept(n) == Sleep * Cardinality(PausedAfter(n)) <= wall - m_first_t

SleptWindows ==
  SameCount /\ m_count >= 2 /\ losses = 0 =>
    /\ ~receivedAllLowEntropy /\ Len(arrived) >= 1 => Slept(1)
    /\ receivedAllLowEntropy => Sleep * PausesWithin(1, m_count) <= m_duration_l
    /\ receivedAllLowEntropy /\ Len(arrived) > m_count /\ Len(arrived) < 2 * m_count =>
         Slept(m_count + 1)
    /\ Len(arrived) >= 2 * m_count =>
         Sleep * PausesWithin(m_count + 1, 2 * m_count) <= m_duration_h

\* Nothing arrives later than the packet that was sent last would; a verdict is given
\* once, when both applications are stopped, and on durations that stay as they are.
LastArrival == \A i \in 1 .. Len(air) : air[i].at <= ArrivalOf(Len(sent))
VerdictAtEnd ==
  /\ verdict # "none" => server = "stopped" /\ application = "stopped"
  /\ verdict = "detected" => Detects
VInv == LastArrival /\ VerdictAtEnd /\ MeasuredInTime

-----------------------------------------------------------------------------

LEMMA MaxCostType == MaxCost \in Nat /\ \A cost \in EventCosts : cost \in Nat /\ cost <= MaxCost
<1>1. \E c \in EventCosts : \A e \in EventCosts : e <= c
  BY ExperimentAssumption
<1>2. MaxCost \in EventCosts /\ \A e \in EventCosts : e <= MaxCost
  BY <1>1 DEF MaxCost
<1> QED BY <1>2, ExperimentAssumption

\* m_count is a uint16_t, and a train is of at least one packet.
LEMMA CountType ==
  ASSUME serverMaxPackets \in ServerCounts
  PROVE  /\ m_count \in 0 .. U16 - 1 /\ TrainLength \in 1 .. U16
         /\ U16 \in Nat /\ 1 < U16 /\ 2 * U16 <= U32 /\ U32 \in Nat
         /\ m_count # 0 => TrainLength = m_count
         /\ m_count = 0 => TrainLength = U16
<1>1. serverMaxPackets \in Nat /\ U16 \in Nat \ {0, 1}
  BY ServerAssumption
<1>2. m_count \in 0 .. U16 - 1
  BY <1>1, Modulo, Zenon DEF m_count
<1>3. 2 * U16 <= U32 /\ U32 \in Nat
  BY ExperimentAssumption, ClientAssumption
<1> QED BY <1>1, <1>2, <1>3 DEF TrainLength

\* A counter of type uint16_t.
LEMMA NextCount ==
  ASSUME U16 \in Nat, 1 < U16, NEW n \in 0 .. U16 - 1
  PROVE  /\ (n + 1) % U16 \in 0 .. U16 - 1
         /\ n + 1 < U16 => (n + 1) % U16 = n + 1
         /\ n + 1 = U16 => (n + 1) % U16 = 0
<1>1. U16 \in Nat \ {0} /\ n + 1 \in Nat /\ U16 <= U16 /\ U16 < 2 * U16
  OBVIOUS
<1>2. (n + 1) % U16 \in 0 .. U16 - 1 /\ (n + 1 < U16 => (n + 1) % U16 = n + 1)
  BY <1>1, Modulo, Zenon
<1>3. U16 % U16 = U16 - U16
  BY <1>1, Modulo, Zenon
<1> QED BY <1>1, <1>2, <1>3

-----------------------------------------------------------------------------
(* The experiment runs the client *)

LEMMA ClientStep == [Next]_vars => [ClientNext]_clientvars
<1>1. StartBoth => ClientNext
  BY DEF StartBoth, ClientNext
<1>2. ClientSends => ClientNext
  BY DEF ClientSends, ClientNext
<1>3. OtherClientPauses \/ ServerReceives => UNCHANGED clientvars
  BY DEF OtherClientPauses, ServerReceives
<1>4. StopBoth => ClientNext
  BY DEF StopBoth, ClientNext
<1>5. UNCHANGED vars => UNCHANGED clientvars
  BY DEF vars
<1> QED BY <1>1, <1>2, <1>3, <1>4, <1>5 DEF Next

\* Under the simulator's scheduling the client is the client of UdpAppClient.
THEOREM ExperimentRunsClient == Spec => ClientSpec
<1>1. Init => ClientInit
  BY DEF Init
<1> QED BY <1>1, ClientStep, PTL DEF Spec, ClientSpec

LEMMA ClientInvariant == Spec => []IInv
BY ExperimentRunsClient, Invariant, PTL

-----------------------------------------------------------------------------
(* The steps *)

\* A packet is sent, and goes on its way or is lost.
LEMMA SendsStep ==
  ASSUME IInv, ExperimentTypeOK, ClientSends
  PROVE  /\ UNCHANGED <<serverMaxPackets, m_received_l, m_received_h, receivedAllLowEntropy,
                        m_first_t, m_last_t, m_duration_l, m_duration_h, server, verdict,
                        echoed, delay, otherStarts, pauses, arrived, clientCount>>
         /\ NextPacket \in Payloads /\ sent' = Append(sent, NextPacket)
         /\ \/ /\ air' = Append(air, [packet |-> NextPacket, at |-> sendAt + delay])
               /\ losses' = losses
            \/ air' = air /\ losses' = losses + 1
         /\ \E cost \in EventCosts : wall' = wall + cost + IF PhaseEnds THEN Sleep ELSE 0
         /\ sendAt + delay \in Nat /\ sendAt' \in Nat
<1>1. /\ UNCHANGED <<servervars, setting, pauses, arrived>>
      /\ Send /\ sendAt' = sendAt + Interval
      /\ \E cost \in EventCosts : wall' = wall + cost + IF PhaseEnds THEN Sleep ELSE 0
      /\ \/ /\ air' = Append(air, [packet |-> NextPacket, at |-> sendAt + delay])
            /\ losses' = losses
         \/ air' = air /\ losses' = losses + 1
  BY DEF ClientSends
<1>2. sent' = Append(sent, NextPacket) /\ clientCount' = clientCount
  BY <1>1 DEF Send
<1>3. NextPacket \in Payloads
  <2>1. /\ m_sent_l \in Int /\ Rows \in Int /\ m_dataSize \in Nat /\ RowBytes \in Nat
    BY ClientAssumption DEF IInv, ClientTypeOK
  <2>2. RowRead \in Int
    BY <2>1 DEF RowRead
  <2> QED BY <2>1, <2>2 DEF NextPacket, Payloads
<1>4. sendAt + delay \in Nat /\ sendAt + Interval \in Nat
  BY ExperimentAssumption DEF ExperimentTypeOK
<1> QED BY <1>1, <1>2, <1>3, <1>4 DEF servervars, countVars, clockVars, setting

\* A packet arrives, and the server counts it for one of the trains.
LEMMA ReceivesStep ==
  ASSUME ExperimentTypeOK, ServerReceives
  PROVE  /\ UNCHANGED <<serverMaxPackets, server, verdict, delay, sendAt, otherStarts, pauses,
                        losses, clientCount, sent, m_dataSize>>
         /\ air # <<>> /\ air' = Tail(air)
         /\ Head(air) \in [packet : Payloads, at : Nat]
         /\ arrived' = Append(arrived, Head(air).packet)
         /\ \E cost \in EventCosts : wall' = wall + cost
         /\ \/ /\ ~receivedAllLowEntropy
               /\ m_received_l' = (m_received_l + 1) % U16
               /\ m_first_t' = IF m_received_l' = 1 THEN wall' ELSE m_first_t
               /\ receivedAllLowEntropy' = Finishes(m_received_l')
               /\ m_duration_l' = IF Finishes(m_received_l') THEN wall' - m_first_t
                                                            ELSE m_duration_l
               /\ UNCHANGED <<m_received_h, m_duration_h>>
            \/ /\ receivedAllLowEntropy /\ receivedAllLowEntropy' = TRUE
               /\ m_received_h' = (m_received_h + 1) % U16
               /\ m_first_t' = IF m_received_h' = 1 THEN wall' ELSE m_first_t
               /\ m_duration_h' = IF Finishes(m_received_h') THEN wall' - m_first_t
                                                            ELSE m_duration_h
               /\ UNCHANGED <<m_received_l, m_duration_l>>
<1>1. /\ UNCHANGED <<clientvars, setting, sendAt, pauses, losses>>
      /\ HandleRead(wall') /\ air # <<>> /\ air' = Tail(air)
      /\ arrived' = Append(arrived, Head(air).packet)
      /\ \E cost \in EventCosts : wall' = wall + cost
  BY DEF ServerReceives
<1>2. Head(air) \in [packet : Payloads, at : Nat]
  <2> DEFINE Airborne == [packet : Payloads, at : Nat]
  <2>1. air \in Seq(Airborne)
    BY DEF ExperimentTypeOK
  <2> HIDE DEF Airborne
  <2>2. Head(air) \in Airborne
    BY <1>1, <2>1
  <2> QED BY <2>2 DEF Airborne
<1>3. UNCHANGED <<delay, otherStarts, clientCount, sent, m_dataSize>>
  BY <1>1 DEF clientvars, payloadVars, setting
<1>4. CASE HandleLow(wall')
  <2>1. /\ ~receivedAllLowEntropy
        /\ m_received_l' = (m_received_l + 1) % U16
        /\ receivedAllLowEntropy' = Finishes(m_received_l')
        /\ m_duration_l' = IF Finishes(m_received_l') THEN wall' - m_first_t ELSE m_duration_l
        /\ UNCHANGED <<serverMaxPackets, m_received_h, m_duration_h, server, verdict>>
    BY <1>4 DEF HandleLow
  <2>2. m_first_t' = IF m_received_l' = 1 THEN wall' ELSE m_first_t
    BY <1>4 DEF HandleLow, Clock
  <2> QED BY <1>1, <1>2, <1>3, <2>1, <2>2
<1>5. CASE HandleHigh(wall')
  <2>1. /\ receivedAllLowEntropy /\ receivedAllLowEntropy' = receivedAllLowEntropy
        /\ m_received_h' = (m_received_h + 1) % U16
        /\ m_duration_h' = IF Finishes(m_received_h') THEN wall' - m_first_t ELSE m_duration_h
        /\ UNCHANGED <<serverMaxPackets, m_received_l, m_duration_l, server, verdict>>
    BY <1>5 DEF HandleHigh
  <2>2. m_first_t' = IF m_received_h' = 1 THEN wall' ELSE m_first_t
    BY <1>5 DEF HandleHigh, Clock
  <2>3. receivedAllLowEntropy' = TRUE
    BY <2>1 DEF ExperimentTypeOK
  <2> QED BY <1>1, <1>2, <1>3, <2>1, <2>2, <2>3
<1> QED BY <1>1, <1>4, <1>5 DEF HandleRead

\* Starting and stopping leave the packets and the server's readings alone; so does
\* the simulator when it idles.
LEMMA QuietStep ==
  ASSUME ExperimentTypeOK, StartBoth \/ StopBoth \/ UNCHANGED vars
  PROVE  /\ UNCHANGED <<serverMaxPackets, m_received_l, m_received_h, receivedAllLowEntropy,
                        m_first_t, m_duration_l, m_duration_h, wall, delay, sendAt,
                        otherStarts, pauses, air, arrived, losses, clientCount, sent,
                        m_dataSize>>
         /\ verdict' = "detected" => verdict = "detected" \/ m_duration_h # 0
<1>1. CASE StartBoth
  BY <1>1 DEF StartBoth, ServerStart, StartApplication, setting, payloadVars, countVars,
     clockVars
<1>2. CASE StopBoth
  <2>1. UNCHANGED <<serverMaxPackets, m_received_l, m_received_h, receivedAllLowEntropy,
                    m_first_t, m_duration_l, m_duration_h, wall, delay, sendAt, otherStarts,
                    pauses, air, arrived, losses, clientCount, sent, m_dataSize>>
    BY <1>2 DEF StopBoth, ServerStop, StopApplication, setting, payloadVars, countVars,
       clockVars
  <2>2. verdict' = "detected" => Detects
    BY <1>2 DEF StopBoth, ServerStop
  <2>3. Detects => m_duration_h # 0
    BY ServerAssumption DEF Detects, ExperimentTypeOK
  <2> QED BY <2>1, <2>2, <2>3
<1>3. CASE UNCHANGED vars
  BY <1>3 DEF vars, clientvars, servervars, setting, payloadVars, countVars, clockVars
<1> QED BY <1>1, <1>2, <1>3

\* The pause of another client costs wall-clock time and nothing else.
LEMMA PauseStep ==
  ASSUME OtherClientPauses
  PROVE  /\ UNCHANGED <<serverMaxPackets, m_received_l, m_received_h, receivedAllLowEntropy,
                        m_first_t, m_duration_l, m_duration_h, verdict, delay, sendAt,
                        otherStarts, air, arrived, losses, clientCount, sent, m_dataSize>>
         /\ wall' = wall + Sleep /\ pauses # {} /\ pauses' \subseteq pauses
BY DEF OtherClientPauses, clientvars, servervars, setting, payloadVars, countVars, clockVars

-----------------------------------------------------------------------------
(* The invariant holds at first *)

LEMMA WorkType == ASSUME NEW n \in Nat PROVE WorkOf(n) \in Nat
BY MaxCostType DEF WorkOf

LEMMA EInvInit == Init => EInv
<1> SUFFICES ASSUME Init PROVE EInv
  OBVIOUS
<1>1. /\ serverMaxPackets \in ServerCounts /\ m_received_l = 0 /\ m_received_h = 0
      /\ receivedAllLowEntropy = FALSE /\ m_first_t = 0 /\ m_duration_l = 0
      /\ m_duration_h = 0 /\ verdict = "none" /\ sent = <<>> /\ m_dataSize = 0
      /\ delay \in Delays /\ otherStarts \in OtherStartSets
      /\ pauses = {PauseAt(s) : s \in otherStarts} /\ sendAt = ClientStart
      /\ air = <<>> /\ wall = 0 /\ arrived = <<>> /\ losses = 0
  BY DEF Init, ServerInit, ClientInit
<1>2. /\ m_count \in 0 .. U16 - 1 /\ TrainLength \in 1 .. U16 /\ U16 \in Nat
      /\ WorkOf(m_count) \in Nat
  BY <1>1, CountType, WorkType
<1>3. ExperimentTypeOK
  <2>1. 0 \in 0 .. U16 - 1 /\ 0 \in 0 .. 0 /\ ClientStart \in Nat
    BY <1>2, ExperimentAssumption
  <2>2. <<>> \in Seq([packet : Payloads, at : Nat]) /\ <<>> \in Seq(Payloads)
    OBVIOUS
  <2> QED BY <1>1, <2>1, <2>2 DEF ExperimentTypeOK
<1>4. Counting /\ DurationWhenMeasured
  BY <1>1, <1>2 DEF Counting, DurationWhenMeasured, DetectedIsMeasured
<1>5. Travelling /\ NeverFilled /\ NoPauses
  BY <1>1 DEF Travelling, NeverFilled, Unfilled, NoPauses
<1>6. SecondWindow
  BY <1>1, <1>2 DEF SecondWindow
<1> QED BY <1>3, <1>4, <1>5, <1>6 DEF EInv

-----------------------------------------------------------------------------
(* The types *)

LEMMA TypeStep ==
  ASSUME IInv, ExperimentTypeOK, [Next]_vars
  PROVE  ExperimentTypeOK'
<1>1. CASE StartBoth \/ StopBoth \/ UNCHANGED vars
  BY <1>1, QuietStep DEF ExperimentTypeOK
<1>2. CASE OtherClientPauses
  <2>1. wall' \in Nat /\ wall <= wall'
    BY <1>2, PauseStep, ExperimentAssumption DEF ExperimentTypeOK
  <2> QED BY <1>2, <2>1, PauseStep DEF ExperimentTypeOK
<1>3. CASE ClientSends
  <2>1. wall' \in Nat /\ wall <= wall'
    <3>1. PICK cost \in EventCosts : wall' = wall + cost + IF PhaseEnds THEN Sleep ELSE 0
      BY <1>3, SendsStep
    <3>2. cost \in Nat /\ Sleep \in Nat /\ wall \in Nat
      BY ExperimentAssumption DEF ExperimentTypeOK
    <3> QED BY <3>1, <3>2
  <2>2. losses' \in Nat
    <3>1. losses' = losses \/ losses' = losses + 1
      BY <1>3, SendsStep
    <3>2. losses \in Nat
      BY DEF ExperimentTypeOK
    <3> QED BY <3>1, <3>2
  <2>3. air' \in Seq([packet : Payloads, at : Nat])
    <3> DEFINE Airborne == [packet : Payloads, at : Nat]
    <3> DEFINE flying == [packet |-> NextPacket, at |-> sendAt + delay]
    <3>1. air \in Seq(Airborne) /\ flying \in Airborne
      BY <1>3, SendsStep DEF ExperimentTypeOK
    <3>2. air' = air \/ air' = Append(air, flying)
      BY <1>3, SendsStep
    <3> HIDE DEF Airborne, flying
    <3>3. air' \in Seq(Airborne)
      BY <3>1, <3>2
    <3> QED BY <3>3 DEF Airborne
  <2>4. arrived' = arrived /\ sendAt' \in Nat
    BY <1>3, SendsStep
  <2> QED BY <1>3, <2>1, <2>2, <2>3, <2>4, SendsStep DEF ExperimentTypeOK
<1>4. CASE ServerReceives
  <2>1. wall' \in Nat /\ wall <= wall'
    <3>1. PICK cost \in EventCosts : wall' = wall + cost
      BY <1>4, ReceivesStep
    <3>2. cost \in Nat /\ wall \in Nat
      BY ExperimentAssumption DEF ExperimentTypeOK
    <3> QED BY <3>1, <3>2
  <2>2. air' \in Seq([packet : Payloads, at : Nat])
    <3> DEFINE Airborne == [packet : Payloads, at : Nat]
    <3>1. air \in Seq(Airborne) /\ air # <<>> /\ air' = Tail(air)
      BY <1>4, ReceivesStep DEF ExperimentTypeOK
    <3> HIDE DEF Airborne
    <3>2. air' \in Seq(Airborne)
      BY <3>1
    <3> QED BY <3>2 DEF Airborne
  <2>3. arrived' \in Seq(Payloads)
    <3>1. Head(air).packet \in Payloads /\ arrived \in Seq(Payloads)
      BY <1>4, ReceivesStep DEF ExperimentTypeOK
    <3>2. arrived' = Append(arrived, Head(air).packet)
      BY <1>4, ReceivesStep
    <3> HIDE DEF Payloads
    <3> QED BY <3>1, <3>2
  <2>4. m_received_l' \in 0 .. U16 - 1 /\ m_received_h' \in 0 .. U16 - 1
    <3>1. /\ m_received_l \in 0 .. U16 - 1 /\ m_received_h \in 0 .. U16 - 1
          /\ U16 \in Nat /\ 1 < U16
      BY CountType DEF ExperimentTypeOK
    <3>2. (m_received_l + 1) % U16 \in 0 .. U16 - 1 /\ (m_received_h + 1) % U16 \in 0 .. U16 - 1
      BY <3>1, NextCount
    <3> QED BY <1>4, <3>1, <3>2, ReceivesStep
  <2>5. wall' - m_first_t \in Nat /\ m_first_t \in 0 .. wall'
    <3>1. m_first_t \in 0 .. wall /\ wall \in Nat
      BY DEF ExperimentTypeOK
    <3>2. PICK later \in Nat : later = wall' /\ wall <= later
      BY <2>1
    <3>3. later - m_first_t \in Nat /\ m_first_t \in 0 .. later
      <4>1. wall \in Nat /\ later \in Nat /\ m_first_t \in Nat /\ m_first_t <= wall /\ wall <= later
        BY <3>1, <3>2
      <4> QED BY <4>1
    <3> QED BY <3>2, <3>3, Zenon
  <2>6. m_first_t' \in 0 .. wall' /\ m_duration_l' \in Nat /\ m_duration_h' \in Nat
    <3>1. /\ m_first_t' \in {m_first_t, wall'} /\ m_duration_l' \in {m_duration_l, wall' - m_first_t}
          /\ m_duration_h' \in {m_duration_h, wall' - m_first_t}
      BY <1>4, ReceivesStep
    <3>2. m_duration_l \in Nat /\ m_duration_h \in Nat /\ wall' \in 0 .. wall'
      BY <2>1 DEF ExperimentTypeOK
    <3> QED BY <2>5, <3>1, <3>2
  <2>7. receivedAllLowEntropy' \in BOOLEAN
    BY <1>4, ReceivesStep DEF Finishes
  <2> QED BY <1>4, <2>1, <2>2, <2>3, <2>4, <2>6, <2>7, ReceivesStep DEF ExperimentTypeOK
<1> QED BY <1>1, <1>2, <1>3, <1>4 DEF Next

-----------------------------------------------------------------------------
(* The server's counters *)

\* The arithmetic of one more packet.
LEMMA CountsOneMore ==
  ASSUME ExperimentTypeOK, Counting, ServerReceives
  PROVE  /\ Len(arrived) \in Nat /\ Len(arrived') = Len(arrived) + 1
         /\ ~receivedAllLowEntropy /\ m_count # 1 =>
              /\ Len(arrived) + 1 < TrainLength =>
                   receivedAllLowEntropy' = FALSE /\ m_received_l' = Len(arrived) + 1
              /\ Len(arrived) + 1 = TrainLength => receivedAllLowEntropy' = TRUE
         /\ ~receivedAllLowEntropy /\ m_count = 1 => receivedAllLowEntropy' = FALSE
         /\ ~receivedAllLowEntropy => m_received_h' = 0
         /\ receivedAllLowEntropy => receivedAllLowEntropy' = TRUE
         /\ receivedAllLowEntropy /\ Len(arrived) + 1 < 2 * TrainLength =>
              m_received_h' = (Len(arrived) + 1) - TrainLength /\ m_received_h' # m_count
         /\ receivedAllLowEntropy /\ Len(arrived) + 1 = 2 * TrainLength =>
              m_received_h' = m_count
         /\ receivedAllLowEntropy /\ Len(arrived) = 2 * TrainLength =>
              m_received_h' = (m_count + 1) % U16 /\ m_received_h' # m_count
<1>1. /\ m_count \in 0 .. U16 - 1 /\ TrainLength \in 1 .. U16 /\ U16 \in Nat /\ 1 < U16
      /\ m_count # 0 => TrainLength = m_count
      /\ m_count = 0 => TrainLength = U16
  BY CountType DEF ExperimentTypeOK
<1>2. Len(arrived) \in Nat /\ Len(arrived') = Len(arrived) + 1
  <2>1. arrived \in Seq(Payloads) /\ arrived' = Append(arrived, Head(air).packet)
    BY ReceivesStep DEF ExperimentTypeOK
  <2> HIDE DEF Payloads
  <2> QED BY <2>1
<1>3. ASSUME NEW n \in 0 .. U16 - 1
      PROVE  /\ n + 1 < U16 => (n + 1) % U16 = n + 1
             /\ n + 1 = U16 => (n + 1) % U16 = 0
  BY <1>1, <1>3, NextCount
<1>4. ASSUME ~receivedAllLowEntropy, m_count # 1
      PROVE  /\ Len(arrived) + 1 < TrainLength =>
                  receivedAllLowEntropy' = FALSE /\ m_received_l' = Len(arrived) + 1
             /\ Len(arrived) + 1 = TrainLength => receivedAllLowEntropy' = TRUE
  <2>1. Len(arrived) < TrainLength /\ m_received_l = Len(arrived)
    BY <1>4 DEF Counting
  <2>2. /\ m_received_l' = (Len(arrived) + 1) % U16
        /\ receivedAllLowEntropy' = Finishes(m_received_l')
    BY <1>4, <2>1, ReceivesStep
  <2>3. Len(arrived) \in 0 .. U16 - 1
    BY <1>1, <1>2, <2>1
  <2>4. ASSUME Len(arrived) + 1 < TrainLength
        PROVE  receivedAllLowEntropy' = FALSE /\ m_received_l' = Len(arrived) + 1
    <3>1. m_received_l' = Len(arrived) + 1
      BY <1>1, <1>2, <1>3, <2>2, <2>3, <2>4
    <3>2. Len(arrived) + 1 # m_count
      BY <1>1, <1>2, <2>4
    <3> QED BY <2>2, <3>1, <3>2 DEF Finishes
  <2>5. ASSUME Len(arrived) + 1 = TrainLength PROVE receivedAllLowEntropy' = TRUE
    <3>1. (Len(arrived) + 1) % U16 = m_count
      BY <1>1, <1>2, <1>3, <2>3, <2>5
    <3> QED BY <1>4, <2>2, <3>1 DEF Finishes
  <2> QED BY <2>4, <2>5
<1>5. ASSUME ~receivedAllLowEntropy
      PROVE  m_received_h' = 0 /\ (m_count = 1 => receivedAllLowEntropy' = FALSE)
  <2>1. receivedAllLowEntropy' = Finishes(m_received_l') /\ m_received_h' = m_received_h
    BY <1>5, ReceivesStep
  <2> QED BY <1>5, <2>1 DEF Counting, Finishes
<1>6. ASSUME receivedAllLowEntropy
      PROVE  /\ receivedAllLowEntropy' = TRUE
             /\ Len(arrived) + 1 < 2 * TrainLength =>
                  m_received_h' = (Len(arrived) + 1) - TrainLength /\ m_received_h' # m_count
             /\ Len(arrived) + 1 = 2 * TrainLength => m_received_h' = m_count
             /\ Len(arrived) = 2 * TrainLength =>
                  m_received_h' = (m_count + 1) % U16 /\ m_received_h' # m_count
  <2>1. /\ m_received_h' = (m_received_h + 1) % U16
        /\ receivedAllLowEntropy' = TRUE
    BY <1>6, ReceivesStep
  <2>2. /\ Len(arrived) >= TrainLength
        /\ Len(arrived) < 2 * TrainLength => m_received_h = Len(arrived) - TrainLength
        /\ Len(arrived) = 2 * TrainLength => m_received_h = m_count
    BY <1>6 DEF Counting
  <2>3. ASSUME Len(arrived) + 1 < 2 * TrainLength
        PROVE  m_received_h' = (Len(arrived) + 1) - TrainLength /\ m_received_h' # m_count
    <3> DEFINE n == Len(arrived) - TrainLength
    <3>1. /\ n \in 0 .. U16 - 1 /\ n + 1 < U16 /\ n + 1 # m_count
          /\ n + 1 = (Len(arrived) + 1) - TrainLength
      BY <1>1, <1>2, <2>2, <2>3
    <3>2. m_received_h = n
      BY <1>1, <1>2, <2>2, <2>3
    <3> HIDE DEF n
    <3>3. m_received_h' = n + 1
      BY <1>3, <2>1, <3>1, <3>2
    <3> QED BY <3>1, <3>3, Zenon
  <2>4. ASSUME Len(arrived) + 1 = 2 * TrainLength PROVE m_received_h' = m_count
    <3>1. m_received_h = TrainLength - 1 /\ TrainLength - 1 \in 0 .. U16 - 1
      BY <1>1, <1>2, <2>2, <2>4
    <3>2. ((TrainLength - 1) + 1) % U16 = m_count
      BY <1>1, <1>3, <3>1
    <3> QED BY <2>1, <3>1, <3>2, Zenon
  <2>5. ASSUME Len(arrived) = 2 * TrainLength
        PROVE  m_received_h' = (m_count + 1) % U16 /\ m_received_h' # m_count
    <3>1. m_received_h' = (m_count + 1) % U16
      BY <2>1, <2>2, <2>5
    <3>2. (m_count + 1) % U16 # m_count
      BY <1>1, <1>3
    <3> QED BY <3>1, <3>2
  <2> QED BY <2>1, <2>3, <2>4, <2>5
<1> QED BY <1>2, <1>4, <1>5, <1>6

LEMMA CountingStep ==
  ASSUME IInv, ExperimentTypeOK, Counting, [Next]_vars
  PROVE  Counting'
<1>1. CASE UNCHANGED <<serverMaxPackets, m_received_l, m_received_h, receivedAllLowEntropy,
                       arrived>>
  BY <1>1 DEF Counting, TrainLength, m_count
<1>2. CASE ServerReceives
  <2>1. /\ m_count \in 0 .. U16 - 1 /\ TrainLength \in 1 .. U16 /\ U16 \in Nat
        /\ m_count # 0 => TrainLength = m_count
    BY CountType DEF ExperimentTypeOK
  <2>2. m_count' = m_count /\ TrainLength' = TrainLength
    BY <1>2, ReceivesStep DEF TrainLength, m_count
  <2>3. Len(arrived) \in Nat /\ Len(arrived') = Len(arrived) + 1
    BY <1>2, CountsOneMore
  <2>4. CASE ~receivedAllLowEntropy /\ m_count = 1
    <3>1. receivedAllLowEntropy' = FALSE /\ m_received_h' = 0
      BY <1>2, <2>4, CountsOneMore
    <3> QED BY <2>2, <2>4, <3>1 DEF Counting
  <2>5. CASE ~receivedAllLowEntropy /\ m_count # 1
    <3>1. m_received_h' = 0 /\ Len(arrived) < TrainLength
      BY <1>2, <2>5, CountsOneMore DEF Counting
    <3>2. CASE Len(arrived) + 1 < TrainLength
      <4>1. receivedAllLowEntropy' = FALSE /\ m_received_l' = Len(arrived) + 1
        BY <1>2, <2>5, <3>2, CountsOneMore
      <4> QED BY <2>2, <2>3, <2>5, <3>1, <3>2, <4>1 DEF Counting
    <3>3. CASE Len(arrived) + 1 = TrainLength
      <4>1. receivedAllLowEntropy' = TRUE
        BY <1>2, <2>5, <3>3, CountsOneMore
      <4>2. /\ Len(arrived') = TrainLength /\ TrainLength < 2 * TrainLength
            /\ TrainLength >= TrainLength /\ TrainLength - TrainLength = 0
            /\ TrainLength # 2 * TrainLength /\ TrainLength # 2 * TrainLength + 1
        BY <2>1, <2>3, <3>3
      <4> QED BY <2>2, <2>5, <3>1, <4>1, <4>2 DEF Counting
    <3> QED BY <2>1, <2>3, <3>1, <3>2, <3>3
  <2>6. CASE receivedAllLowEntropy
    <3>1. /\ receivedAllLowEntropy' = TRUE /\ m_count # 1
          /\ Len(arrived) >= TrainLength
      BY <1>2, <2>6, CountsOneMore DEF Counting
    <3>2. /\ Len(arrived) + 1 < 2 * TrainLength =>
               m_received_h' = (Len(arrived) + 1) - TrainLength
          /\ Len(arrived) + 1 = 2 * TrainLength => m_received_h' = m_count
          /\ Len(arrived) = 2 * TrainLength => m_received_h' = (m_count + 1) % U16
      BY <1>2, <2>6, CountsOneMore
    <3>3. /\ Len(arrived) + 1 >= TrainLength
          /\ Len(arrived) + 1 = 2 * TrainLength + 1 => Len(arrived) = 2 * TrainLength
      BY <2>1, <2>3, <3>1
    <3>4. /\ Len(arrived') >= TrainLength
          /\ Len(arrived') < 2 * TrainLength => m_received_h' = Len(arrived') - TrainLength
          /\ Len(arrived') = 2 * TrainLength => m_received_h' = m_count
          /\ Len(arrived') = 2 * TrainLength + 1 => m_received_h' = (m_count + 1) % U16
      <4>1. Len(arrived') >= TrainLength
        BY <2>3, <3>3
      <4>2. ASSUME Len(arrived') < 2 * TrainLength
            PROVE  m_received_h' = Len(arrived') - TrainLength
        <5>1. Len(arrived) + 1 < 2 * TrainLength
          BY <2>3, <4>2
        <5>2. m_received_h' = (Len(arrived) + 1) - TrainLength
          BY <3>2, <5>1, Zenon
        <5> QED BY <2>3, <5>2, Zenon
      <4>3. ASSUME Len(arrived') = 2 * TrainLength PROVE m_received_h' = m_count
        BY <2>3, <3>2, <4>3
      <4>4. ASSUME Len(arrived') = 2 * TrainLength + 1
            PROVE  m_received_h' = (m_count + 1) % U16
        <5>1. Len(arrived) = 2 * TrainLength
          BY <2>3, <3>3, <4>4
        <5> QED BY <3>2, <5>1
      <4> QED BY <4>1, <4>2, <4>3, <4>4
    <3> QED BY <2>2, <3>1, <3>4 DEF Counting
  <2> QED BY <2>4, <2>5, <2>6
<1>3. CASE StartBoth \/ StopBoth \/ UNCHANGED vars
  BY <1>1, <1>3, QuietStep
<1>4. CASE OtherClientPauses
  BY <1>1, <1>4, PauseStep
<1>5. CASE ClientSends
  BY <1>1, <1>5, SendsStep
<1> QED BY <1>2, <1>3, <1>4, <1>5 DEF Next

LEMMA DurationStep ==
  ASSUME IInv, ExperimentTypeOK, Counting, DurationWhenMeasured, [Next]_vars
  PROVE  DurationWhenMeasured'
<1>1. CASE UNCHANGED <<serverMaxPackets, receivedAllLowEntropy, m_duration_h, arrived>>
           /\ (verdict' = "detected" => verdict = "detected" \/ m_duration_h # 0)
  BY <1>1 DEF DurationWhenMeasured, DetectedIsMeasured, TrainLength, m_count
<1>2. CASE ServerReceives
  <2>1. /\ TrainLength \in 1 .. U16 /\ U16 \in Nat
        /\ Len(arrived) \in Nat /\ Len(arrived') = Len(arrived) + 1
    BY <1>2, CountType, CountsOneMore DEF ExperimentTypeOK
  <2>2. TrainLength' = TrainLength /\ verdict' = verdict
    BY <1>2, ReceivesStep DEF TrainLength, m_count
  <2>3. CASE ~receivedAllLowEntropy
    <3>1. m_duration_h' = 0 /\ verdict # "detected"
      BY <1>2, <2>3, ReceivesStep DEF DurationWhenMeasured, DetectedIsMeasured
    <3> QED BY <2>2, <3>1 DEF DurationWhenMeasured, DetectedIsMeasured
  <2>4. CASE receivedAllLowEntropy
    <3>1. receivedAllLowEntropy' = TRUE
      BY <1>2, <2>4, CountsOneMore
    <3>2. Len(arrived) >= 2 * TrainLength => Len(arrived') >= 2 * TrainLength
      BY <2>1
    <3>3. m_duration_h' # 0 => Len(arrived') >= 2 * TrainLength
      <4>1. CASE Len(arrived) + 1 < 2 * TrainLength
        <5>1. m_received_h' # m_count
          BY <1>2, <2>4, <4>1, CountsOneMore
        <5>2. m_duration_h' = m_duration_h
          BY <1>2, <2>4, <5>1, ReceivesStep DEF Finishes
        <5> QED BY <3>2, <5>2 DEF DurationWhenMeasured
      <4>2. CASE Len(arrived) + 1 >= 2 * TrainLength
        BY <2>1, <4>2
      <4> QED BY <2>1, <4>1, <4>2
    <3>4. verdict' = "detected" => Len(arrived') >= 2 * TrainLength
      BY <2>2, <3>2 DEF DurationWhenMeasured, DetectedIsMeasured
    <3> QED BY <2>2, <3>1, <3>3, <3>4 DEF DurationWhenMeasured, DetectedIsMeasured
  <2> QED BY <2>3, <2>4
<1>3. CASE StartBoth \/ StopBoth \/ UNCHANGED vars
  BY <1>1, <1>3, QuietStep
<1>4. CASE OtherClientPauses
  BY <1>1, <1>4, PauseStep
<1>5. CASE ClientSends
  BY <1>1, <1>5, SendsStep
<1> QED BY <1>2, <1>3, <1>4, <1>5 DEF Next

-----------------------------------------------------------------------------
(* The packets on their way *)

LEMMA TravellingStep ==
  ASSUME IInv, ExperimentTypeOK, Travelling, [Next]_vars
  PROVE  Travelling'
<1> DEFINE Airborne == [packet : Payloads, at : Nat]
<1>1. /\ sent \in Seq(Payloads) /\ arrived \in Seq(Payloads) /\ air \in Seq(Airborne)
      /\ losses \in Nat
  BY DEF IInv, ClientTypeOK, ExperimentTypeOK, Payloads
<1>2. Len(sent) = Len(arrived) + Len(air) + losses
  BY DEF Travelling
<1>3. CASE UNCHANGED <<sent, arrived, air, losses>>
  BY <1>3 DEF Travelling
<1>4. CASE ClientSends
  <2>1. arrived' = arrived /\ sent' = Append(sent, NextPacket) /\ NextPacket \in Payloads
    BY <1>4, SendsStep
  <2>2. CASE air' = air /\ losses' = losses + 1
    <3> HIDE DEF Payloads, Airborne
    <3>1. Len(sent') = Len(sent) + 1
      BY <1>1, <2>1
    <3>2. losses' # 0 /\ Len(sent) + 1 = Len(arrived) + Len(air) + (losses + 1)
      BY <1>1, <1>2, <2>2
    <3> QED BY <2>1, <2>2, <3>1, <3>2 DEF Travelling
  <2>3. CASE air' = Append(air, [packet |-> NextPacket, at |-> sendAt + delay])
             /\ losses' = losses
    <3> DEFINE flying == [packet |-> NextPacket, at |-> sendAt + delay]
    <3>1. flying \in Airborne /\ flying.packet = NextPacket /\ air' = Append(air, flying)
      BY <1>4, <2>3, SendsStep
    <3> HIDE DEF Payloads, Airborne, flying
    <3>2. /\ Len(sent') = Len(sent) + 1 /\ sent'[Len(sent) + 1] = NextPacket
          /\ \A i \in 1 .. Len(sent) : sent'[i] = sent[i]
      BY <1>1, <2>1
    <3>3. /\ Len(air') = Len(air) + 1 /\ air'[Len(air) + 1] = flying
          /\ \A i \in 1 .. Len(air) : air'[i] = air[i]
      BY <1>1, <3>1
    <3>4. Len(arrived) \in Nat /\ Len(air) \in Nat /\ Len(sent) \in Nat
      BY <1>1
    <3>5. Len(sent') = Len(arrived) + Len(air') + losses
      BY <1>1, <1>2, <3>2, <3>3, <3>4
    <3>6. ASSUME losses = 0
          PROVE  /\ \A i \in 1 .. Len(arrived) : arrived[i] = sent'[i]
                 /\ \A i \in 1 .. Len(air) + 1 : air'[i].packet = sent'[Len(arrived) + i]
      <4>1. /\ \A i \in 1 .. Len(arrived) : arrived[i] = sent[i]
            /\ \A i \in 1 .. Len(air) : air[i].packet = sent[Len(arrived) + i]
        BY <3>6 DEF Travelling
      <4>2. ASSUME NEW i \in 1 .. Len(arrived) PROVE arrived[i] = sent'[i]
        BY <1>2, <3>2, <3>4, <3>6, <4>1, <4>2
      <4>3. ASSUME NEW i \in 1 .. Len(air) PROVE air'[i].packet = sent'[Len(arrived) + i]
        <5>1. Len(arrived) + i \in 1 .. Len(sent)
          BY <1>2, <3>4, <3>6, <4>3
        <5> QED BY <3>2, <3>3, <4>1, <4>3, <5>1
      <4>4. air'[Len(air) + 1].packet = sent'[Len(arrived) + (Len(air) + 1)]
        <5>1. Len(arrived) + (Len(air) + 1) = Len(sent) + 1
          BY <1>2, <3>4, <3>6
        <5> QED BY <3>1, <3>2, <3>3, <5>1
      <4>5. \A i \in 1 .. Len(air) + 1 : i \in 1 .. Len(air) \/ i = Len(air) + 1
        BY <3>4
      <4> QED BY <4>2, <4>3, <4>4, <4>5, Zenon
    <3> QED BY <2>1, <2>3, <3>3, <3>5, <3>6 DEF Travelling
  <2> QED BY <1>4, <2>2, <2>3, SendsStep
<1>5. CASE ServerReceives
  <2>1. /\ sent' = sent /\ losses' = losses /\ air # <<>> /\ air' = Tail(air)
        /\ arrived' = Append(arrived, Head(air).packet) /\ Head(air) \in Airborne
        /\ Head(air).packet \in Payloads
    BY <1>5, ReceivesStep
  <2> HIDE DEF Payloads, Airborne
  <2>2. /\ Len(air) \in Nat /\ Len(air) # 0 /\ Len(air') = Len(air) - 1 /\ Head(air) = air[1]
        /\ \A i \in 1 .. Len(air) - 1 : air'[i] = air[i + 1]
    BY <1>1, <2>1
  <2>3. /\ Len(arrived) \in Nat /\ Len(arrived') = Len(arrived) + 1
        /\ \A i \in 1 .. Len(arrived) : arrived'[i] = arrived[i]
        /\ arrived'[Len(arrived) + 1] = air[1].packet
    BY <1>1, <2>1, <2>2
  <2>4. Len(sent) = (Len(arrived) + 1) + (Len(air) - 1) + losses
    BY <1>1, <1>2, <2>2, <2>3
  <2>5. ASSUME losses = 0
        PROVE  /\ \A i \in 1 .. Len(arrived) + 1 : arrived'[i] = sent[i]
               /\ \A i \in 1 .. Len(air) - 1 : air'[i].packet = sent[(Len(arrived) + 1) + i]
    <3>1. /\ \A i \in 1 .. Len(arrived) : arrived[i] = sent[i]
          /\ \A i \in 1 .. Len(air) : air[i].packet = sent[Len(arrived) + i]
      BY <2>5 DEF Travelling
    <3>2. arrived'[Len(arrived) + 1] = sent[Len(arrived) + 1]
      BY <2>2, <2>3, <3>1
    <3>3. ASSUME NEW i \in 1 .. Len(air) - 1
          PROVE  air'[i].packet = sent[(Len(arrived) + 1) + i]
      <4>1. i + 1 \in 1 .. Len(air) /\ Len(arrived) + (i + 1) = (Len(arrived) + 1) + i
        BY <2>2, <2>3
      <4> QED BY <2>2, <3>1, <3>3, <4>1
    <3> QED BY <2>3, <3>1, <3>2, <3>3
  <2> QED BY <2>1, <2>2, <2>3, <2>4, <2>5 DEF Travelling
<1>6. CASE StartBoth \/ StopBoth \/ UNCHANGED vars
  BY <1>3, <1>6, QuietStep
<1>7. CASE OtherClientPauses
  BY <1>3, <1>7, PauseStep
<1> QED BY <1>4, <1>5, <1>6, <1>7 DEF Next

\* The first packet is of low entropy.
LEMMA NeverFilledStep ==
  ASSUME IInv, ExperimentTypeOK, NeverFilled, [Next]_vars
  PROVE  NeverFilled'
<1>1. CASE UNCHANGED <<sent, m_dataSize>>
  BY <1>1 DEF NeverFilled, Unfilled
<1>2. CASE ClientSends
  <2>1. sent \in Seq(Payloads) /\ sent' = Append(sent, NextPacket) /\ NextPacket \in Payloads
    BY <1>2, SendsStep DEF IInv, ClientTypeOK, Payloads
  <2>2. CASE sent = <<>>
    <3>1. NextPacket.from = "lowPackets"
      BY <2>2 DEF NeverFilled, NextPacket
    <3> HIDE DEF Payloads
    <3>2. sent'[1] = NextPacket /\ sent' # <<>>
      BY <2>1, <2>2
    <3> QED BY <3>1, <3>2 DEF NeverFilled, Unfilled
  <2>3. CASE sent # <<>>
    <3> HIDE DEF Payloads
    <3>1. sent'[1] = sent[1] /\ sent' # <<>>
      BY <2>1, <2>3
    <3> QED BY <2>3, <3>1 DEF NeverFilled, Unfilled
  <2> QED BY <2>2, <2>3
<1>3. CASE ServerReceives
  BY <1>1, <1>3, ReceivesStep
<1>4. CASE StartBoth \/ StopBoth \/ UNCHANGED vars
  BY <1>1, <1>4, QuietStep
<1>5. CASE OtherClientPauses
  BY <1>1, <1>5, PauseStep
<1> QED BY <1>2, <1>3, <1>4, <1>5 DEF Next

LEMMA NoPausesStep ==
  ASSUME IInv, ExperimentTypeOK, NoPauses, [Next]_vars
  PROVE  NoPauses'
<1>1. CASE otherStarts' = otherStarts /\ pauses' \subseteq pauses
  BY <1>1 DEF NoPauses
<1>2. CASE ServerReceives
  BY <1>1, <1>2, ReceivesStep
<1>3. CASE StartBoth \/ StopBoth \/ UNCHANGED vars
  BY <1>1, <1>3, QuietStep
<1>4. CASE OtherClientPauses
  BY <1>1, <1>4, PauseStep
<1>5. CASE ClientSends
  BY <1>1, <1>5, SendsStep
<1> QED BY <1>2, <1>3, <1>4, <1>5 DEF Next

-----------------------------------------------------------------------------
(* The second window *)

LEMMA CostOf ==
  ASSUME NEW k \in Nat
  PROVE  k * MaxCost \in Nat /\ (k + 1) * MaxCost = k * MaxCost + MaxCost
<1>1. ASSUME NEW c \in Nat PROVE k * c \in Nat /\ (k + 1) * c = k * c + c
  BY <1>1
<1> QED BY <1>1, MaxCostType

LEMMA CostGrows ==
  ASSUME NEW n \in Nat, NEW k \in Nat, k <= n
  PROVE  k * MaxCost <= n * MaxCost
<1>1. PICK j \in Nat : n = k + j
  <2>1. n - k \in Nat /\ n = k + (n - k)
    OBVIOUS
  <2> QED BY <2>1
<1>2. ASSUME NEW c \in Nat PROVE k * c <= n * c
  <2>1. j * c \in Nat /\ k * c \in Nat /\ n * c = k * c + j * c
    BY <1>1, <1>2
  <2> QED BY <2>1
<1> QED BY <1>2, MaxCostType

\* A client whose MaxPackets fits the server's counters sends both trains to the end.
LEMMA PlanFits ==
  ASSUME IInv, ExperimentTypeOK, Travelling, SameCount
  PROVE  /\ m_count \in Nat /\ Len(sent) \in Nat /\ Len(arrived) \in Nat
         /\ Len(air) \in Nat /\ losses \in Nat
         /\ clientCount = m_count /\ ReachesPause /\ (m_count + 1) % U32 = m_count + 1
         /\ 2 * m_count + 1 < U32 /\ U32 \in Nat
         /\ Planned = IF m_count = 0 THEN 2 ELSE 2 * m_count + 1
         /\ Len(sent) <= Planned /\ (m_sendEvent = "pending" => Len(sent) < Planned)
         /\ Over => Len(sent) = Planned /\ Len(air) = 0
         /\ Len(sent) = Len(arrived) + Len(air) + losses
<1>1. /\ m_count \in 0 .. U16 - 1 /\ U16 \in Nat /\ 1 < U16 /\ 2 * U16 <= U32
      /\ U32 \in Nat /\ clientCount = m_count
  BY CountType DEF ExperimentTypeOK, SameCount
<1>2. /\ Len(sent) \in Nat /\ Len(arrived) \in Nat /\ Len(air) \in Nat /\ losses \in Nat
      /\ Len(sent) = Len(arrived) + Len(air) + losses
  <2>1. Len(sent) \in Nat
    BY DEF IInv, ClientTypeOK
  <2>2. Len(arrived) \in Nat /\ Len(air) \in Nat /\ losses \in Nat
    BY DEF ExperimentTypeOK
  <2> QED BY <2>1, <2>2 DEF Travelling
<1>3. Ends /\ ReachesPause /\ 2 * m_count + 1 < U32
  BY <1>1 DEF Ends, ReachesPause
<1>4. Planned = IF m_count = 0 THEN 2 ELSE 2 * m_count + 1
  BY <1>1, <1>3 DEF Planned
<1>5. (m_count + 1) % U32 = m_count + 1
  <2>1. m_count + 1 \in Nat /\ m_count + 1 < U32 /\ U32 \in Nat \ {0}
    BY <1>1
  <2> QED BY <2>1, Modulo, Zenon
<1>6. Len(sent) <= Planned /\ (m_sendEvent = "pending" => Len(sent) < Planned)
  BY <1>3 DEF IInv, Plan, Life
<1>7. Over => Len(sent) = Planned /\ Len(air) = 0
  <2>1. Over => ~(Len(sent) < Planned) /\ Len(air) = 0
    BY <1>3 DEF IInv, Plan, Over
  <2> QED BY <1>1, <1>2, <1>4, <1>6, <2>1
<1> QED BY <1>1, <1>2, <1>3, <1>4, <1>5, <1>6, <1>7

\* While the server measures the second train the client does not pause.
LEMMA NoPauseInSecond ==
  ASSUME IInv, ExperimentTypeOK, Travelling, SameCount, ClientSends, Len(arrived) > m_count
  PROVE  \E cost \in EventCosts : wall' = wall + cost
<1>1. /\ m_count \in Nat /\ Len(sent) \in Nat /\ U32 \in Nat /\ clientCount = m_count
      /\ (m_count + 1) % U32 = m_count + 1 /\ 2 * m_count + 1 < U32
      /\ Planned = IF m_count = 0 THEN 2 ELSE 2 * m_count + 1
      /\ Len(arrived) <= Len(sent) /\ Len(arrived) \in Nat
  BY PlanFits
<1>2. m_sendEvent = "pending"
  BY DEF ClientSends, Send
<1>3. Len(sent) < Planned
  BY <1>2, PlanFits
<1>4. U32 > 2
  BY CountType DEF ExperimentTypeOK
<1>5. Len(sent) + 1 < U32
  BY <1>1, <1>3, <1>4
<1>6. SentCount = Len(sent) + 1
  BY <1>5, SendCounts DEF IInv
<1>7. ~PhaseEnds
  BY <1>1, <1>6 DEF PhaseEnds
<1>8. PICK cost \in EventCosts : wall' = wall + cost + IF PhaseEnds THEN Sleep ELSE 0
  BY SendsStep
<1>9. cost \in Nat /\ wall \in Nat
  BY ExperimentAssumption DEF ExperimentTypeOK
<1>10. wall + cost + 0 = wall + cost
  BY <1>9
<1> QED BY <1>7, <1>8, <1>10, Zenon

LEMMA SecondWindowStep ==
  ASSUME IInv, EInv, [Next]_vars
  PROVE  SecondWindow'
<1> USE DEF EInv
<1>0. CASE UNCHANGED <<serverMaxPackets, clientCount, otherStarts, receivedAllLowEntropy,
                       arrived, sent, wall, m_first_t, m_duration_h>>
  BY <1>0 DEF SecondWindow, SameCount, m_count, WorkOf
<1>1. CASE StartBoth \/ StopBoth \/ UNCHANGED vars
  BY <1>0, <1>1, QuietStep
<1>2. CASE OtherClientPauses
  BY <1>2, PauseStep DEF SecondWindow, NoPauses
<1>3. CASE ClientSends
  <2>1. /\ m_count' = m_count /\ otherStarts' = otherStarts /\ clientCount' = clientCount
        /\ m_duration_h' = m_duration_h /\ receivedAllLowEntropy' = receivedAllLowEntropy
        /\ arrived' = arrived /\ m_first_t' = m_first_t
    BY <1>3, SendsStep DEF m_count
  <2> SUFFICES ASSUME SameCount, otherStarts = {}, m_count >= 2, receivedAllLowEntropy,
                      Len(arrived) > m_count, Len(arrived) < 2 * m_count
               PROVE  wall' - m_first_t
                        <= (Len(arrived) + Len(sent') - 2 * m_count - 2) * MaxCost
    BY <2>1 DEF SecondWindow, SameCount, WorkOf
  <2>2. PICK cost \in EventCosts : wall' = wall + cost
    BY <1>3, NoPauseInSecond
  <2>3. /\ cost \in Nat /\ cost <= MaxCost /\ MaxCost \in Nat /\ wall \in Nat
        /\ m_first_t \in Int
    BY MaxCostType DEF ExperimentTypeOK
  <2>4. /\ m_count \in Nat /\ Len(arrived) \in Nat /\ Len(sent) \in Nat
        /\ Len(arrived) <= Len(sent)
    BY PlanFits
  <2>5. Len(sent') = Len(sent) + 1
    BY <1>3, SendAppends DEF IInv, ClientSends
  <2> DEFINE k == Len(arrived) + Len(sent) - 2 * m_count - 2
  <2>6. /\ k \in Nat /\ Len(arrived) + (Len(sent) + 1) - 2 * m_count - 2 = k + 1
    BY <2>4
  <2>7. wall - m_first_t <= k * MaxCost
    BY DEF SecondWindow
  <2> HIDE DEF k
  <2>8. k * MaxCost \in Nat /\ (k + 1) * MaxCost = k * MaxCost + MaxCost
    BY <2>6, CostOf
  <2>9. (wall + cost) - m_first_t <= (k + 1) * MaxCost
    BY <2>3, <2>7, <2>8
  <2> QED BY <2>2, <2>5, <2>6, <2>9, Zenon
<1>4. CASE ServerReceives
  <2>1. /\ m_count' = m_count /\ otherStarts' = otherStarts /\ clientCount' = clientCount
        /\ sent' = sent
    BY <1>4, ReceivesStep DEF m_count
  <2> SUFFICES ASSUME SameCount, otherStarts = {}, m_count >= 2
               PROVE  /\ receivedAllLowEntropy' /\ Len(arrived') > m_count
                            /\ Len(arrived') < 2 * m_count =>
                           wall' - m_first_t'
                             <= (Len(arrived') + Len(sent) - 2 * m_count - 2) * MaxCost
                      /\ m_duration_h' <= WorkOf(m_count)
    BY <2>1 DEF SecondWindow, SameCount, WorkOf
  <2>2. /\ m_count \in 0 .. U16 - 1 /\ U16 \in Nat /\ TrainLength = m_count
    BY CountType DEF ExperimentTypeOK
  <2>3. /\ Len(arrived) \in Nat /\ Len(sent) \in Nat /\ Len(air) \in Nat /\ losses \in Nat
        /\ Len(sent) <= 2 * m_count + 1
        /\ Len(sent) = Len(arrived) + Len(air) + losses
    BY PlanFits
  <2>4. Len(arrived') = Len(arrived) + 1 /\ Len(arrived) + 1 <= Len(sent)
    <3>1. air # <<>> /\ air \in Seq([packet : Payloads, at : Nat])
      BY <1>4, ReceivesStep DEF ExperimentTypeOK
    <3>2. Len(air) # 0
      BY <3>1
    <3> QED BY <1>4, <2>3, <3>2, CountsOneMore
  <2>5. PICK cost \in EventCosts : wall' = wall + cost
    BY <1>4, ReceivesStep
  <2>6. /\ cost \in Nat /\ cost <= MaxCost /\ MaxCost \in Nat /\ wall \in Nat
        /\ m_first_t \in Int
    BY MaxCostType DEF ExperimentTypeOK
  <2>7. m_duration_h <= WorkOf(m_count) /\ WorkOf(m_count) = (2 * (m_count + 1)) * MaxCost
    BY DEF SecondWindow, WorkOf
  <2>8. CASE ~receivedAllLowEntropy
    <3>1. m_duration_h' = m_duration_h
      BY <1>4, <2>8, ReceivesStep
    <3>2. Len(arrived) < m_count
      BY <2>2, <2>8 DEF Counting
    <3>3. ~(Len(arrived') > m_count)
      BY <2>2, <2>3, <2>4, <3>2
    <3> QED BY <2>7, <3>1, <3>3
  <2>9. CASE receivedAllLowEntropy
    <3>1. /\ m_received_h' = (m_received_h + 1) % U16
          /\ m_first_t' = IF m_received_h' = 1 THEN wall' ELSE m_first_t
          /\ m_duration_h' = IF Finishes(m_received_h') THEN wall' - m_first_t
                                                       ELSE m_duration_h
      BY <1>4, <2>9, ReceivesStep
    <3>2. Len(arrived) >= m_count
      BY <2>2, <2>9 DEF Counting
    <3> DEFINE k == Len(arrived) + Len(sent) - 2 * m_count - 2
    <3>3. CASE Len(arrived) + 1 < 2 * m_count
      <4>1. /\ m_received_h' = (Len(arrived) + 1) - m_count /\ m_received_h' # m_count
        BY <1>4, <2>2, <2>9, <3>3, CountsOneMore
      <4>2. m_duration_h' = m_duration_h
        BY <3>1, <4>1 DEF Finishes
      <4>3. Len(arrived') + Len(sent) - 2 * m_count - 2 = k + 1 /\ k + 1 \in Nat
        BY <2>2, <2>3, <2>4, <3>2
      <4>4. CASE Len(arrived) = m_count
        <5>1. (Len(arrived) + 1) - m_count = 1
          BY <2>2, <2>3, <4>4
        <5>2. m_first_t' = wall'
          BY <3>1, <4>1, <5>1
        <5>3. (wall + cost) - (wall + cost) = 0
          BY <2>6
        <5>4. 0 <= (k + 1) * MaxCost
          <6> HIDE DEF k
          <6>1. (k + 1) * MaxCost \in Nat
            BY <4>3, CostOf
          <6> QED BY <6>1
        <5> QED BY <2>5, <2>7, <4>2, <4>3, <5>2, <5>3, <5>4
      <4>5. CASE Len(arrived) > m_count
        <5>1. (Len(arrived) + 1) - m_count # 1
          BY <2>2, <2>3, <4>5
        <5>2. m_first_t' = m_first_t
          BY <3>1, <4>1, <5>1
        <5>3. wall - m_first_t <= k * MaxCost /\ k \in Nat
          <6>1. Len(arrived) < 2 * m_count
            BY <2>2, <2>3, <3>3
          <6>2. k \in Nat
            BY <2>2, <2>3, <2>4, <4>5
          <6> QED BY <2>9, <4>5, <6>1, <6>2 DEF SecondWindow
        <5> HIDE DEF k
        <5>4. k * MaxCost \in Nat /\ (k + 1) * MaxCost = k * MaxCost + MaxCost
          BY <5>3, CostOf
        <5>5. (wall + cost) - m_first_t <= (k + 1) * MaxCost
          BY <2>6, <5>3, <5>4
        <5> QED BY <2>5, <2>7, <4>2, <4>3, <5>2, <5>5
      <4> QED BY <2>2, <2>3, <3>2, <4>4, <4>5
    <3>4. CASE Len(arrived) + 1 = 2 * m_count
      <4>1. ~(Len(arrived') < 2 * m_count)
        BY <2>2, <2>3, <2>4, <3>4
      <4>2. m_received_h' = m_count
        BY <1>4, <2>2, <2>9, <3>4, CountsOneMore
      <4>3. m_duration_h' = wall' - m_first_t
        BY <3>1, <4>2, <2>2 DEF Finishes
      <4>4. /\ wall - m_first_t <= k * MaxCost
            /\ k \in Nat /\ k + 1 \in Nat /\ 2 * (m_count + 1) \in Nat
            /\ k + 1 <= 2 * (m_count + 1)
        <5>1. /\ Len(arrived) > m_count /\ Len(arrived) < 2 * m_count
              /\ k \in Nat /\ k + 1 \in Nat /\ 2 * (m_count + 1) \in Nat
              /\ k + 1 <= 2 * (m_count + 1)
          BY <2>2, <2>3, <2>4, <3>4
        <5> QED BY <2>9, <5>1 DEF SecondWindow
      <4> HIDE DEF k
      <4>5. /\ k * MaxCost \in Nat /\ (k + 1) * MaxCost = k * MaxCost + MaxCost
        BY <4>4, CostOf
      <4>6. (k + 1) * MaxCost <= (2 * (m_count + 1)) * MaxCost
        BY <4>4, CostGrows
      <4>7. (2 * (m_count + 1)) * MaxCost \in Nat
        BY <4>4, CostOf
      <4>8. (wall + cost) - m_first_t <= (2 * (m_count + 1)) * MaxCost
        BY <2>6, <4>4, <4>5, <4>6, <4>7
      <4> QED BY <2>5, <2>7, <4>1, <4>3, <4>8
    <3>5. CASE Len(arrived) + 1 > 2 * m_count
      <4>1. Len(arrived) = 2 * m_count /\ ~(Len(arrived') < 2 * m_count)
        BY <2>2, <2>3, <2>4, <3>5
      <4>2. m_received_h' # m_count
        BY <1>4, <2>2, <2>9, <4>1, CountsOneMore
      <4>3. m_duration_h' = m_duration_h
        BY <3>1, <4>2 DEF Finishes
      <4> QED BY <2>7, <4>1, <4>3
    <3> QED BY <2>2, <2>3, <3>3, <3>4, <3>5
  <2> QED BY <2>8, <2>9
<1> QED BY <1>1, <1>2, <1>3, <1>4 DEF Next

-----------------------------------------------------------------------------
(* Simulated time *)

\* Without losses the packets arrive at intervals.
LEMMA ArrivalTimes ==
  ASSUME delay \in Nat, NEW n \in Nat
  PROVE  /\ ArrivalOf(n) \in Int
         /\ ArrivalOf(n + 1) = (ClientStart + n * Interval) + delay
         /\ ArrivalOf(n + 1) = ArrivalOf(n) + Interval
         /\ n >= 1 => ArrivalOf(n) \in Nat
<1>1. Interval \in Nat \ {0} /\ ClientStart \in Nat
  BY ExperimentAssumption
<1>2. n * Interval \in Nat /\ (n + 1) - 1 = n /\ (n - 1) * Interval = n * Interval - Interval
  BY <1>1
<1>3. n >= 1 => (n - 1) * Interval \in Nat
  BY <1>1
<1>4. ArrivalOf(n) = (ClientStart + (n * Interval - Interval)) + delay
  BY <1>1, <1>2 DEF ArrivalOf
<1>5. ArrivalOf(n + 1) = (ClientStart + n * Interval) + delay
  BY <1>1, <1>2 DEF ArrivalOf
<1> QED BY <1>1, <1>2, <1>3, <1>4, <1>5

LEMMA ArrivalsGrow ==
  ASSUME delay \in Nat, NEW n \in Nat, NEW k \in Nat, k <= n
  PROVE  ArrivalOf(k) <= ArrivalOf(n)
<1>1. Interval \in Nat \ {0} /\ ClientStart \in Nat
  BY ExperimentAssumption
<1>2. PICK j \in Nat : n = k + j
  <2>1. n - k \in Nat /\ n = k + (n - k)
    OBVIOUS
  <2> QED BY <2>1
<1>3. j * Interval \in Nat /\ k * Interval \in Nat /\ n * Interval = k * Interval + j * Interval
  BY <1>1, <1>2
<1>4. (n - 1) * Interval = n * Interval - Interval /\ (k - 1) * Interval = k * Interval - Interval
  BY <1>1
<1> QED BY <1>1, <1>3, <1>4 DEF ArrivalOf

\* No two of the other clients pause at the same time.
LEMMA PauseTimes ==
  ASSUME IInv, NEW s \in Nat
  PROVE  /\ PauseAt(s) \in Nat /\ s <= PauseAt(s)
         /\ \A r \in Nat : PauseAt(r) = PauseAt(s) => r = s
<1>1. clientCount \in Nat /\ Interval \in Nat
  BY ClientAssumption, ExperimentAssumption DEF IInv, ClientTypeOK
<1>2. clientCount * Interval \in Nat
  BY <1>1
<1> QED BY <1>2 DEF PauseAt

\* Time does not go back, and a pause is not skipped.
LEMMA TimePasses ==
  ASSUME IInv, ExperimentTypeOK, InTime, [Next]_vars
  PROVE  /\ now' \in Nat /\ now <= now' /\ otherStarts' = otherStarts
         /\ clientCount' = clientCount /\ delay' = delay
         /\ pauses' \subseteq pauses /\ \A t \in pauses' : now' <= t
         /\ \A t \in pauses : t \in pauses' \/ t = now'
<1>1. \A t \in pauses : t \in Nat /\ now <= t
  BY PauseTimes DEF InTime
<1>2. ASSUME NEW t \in Nat, IsNext(t), now' = t PROVE now <= now' /\ \A p \in pauses : now' <= p
  BY <1>2 DEF IsNext
<1>3. CASE StartBoth
  BY <1>2, <1>3, QuietStep, ExperimentAssumption DEF StartBoth
<1>4. CASE StopBoth
  BY <1>2, <1>4, QuietStep, ExperimentAssumption DEF StopBoth
<1>5. CASE UNCHANGED vars
  BY <1>1, <1>5, QuietStep DEF InTime, vars
<1>6. CASE ClientSends
  <2>1. sendAt \in Nat /\ IsNext(sendAt) /\ now' = sendAt
    BY <1>6 DEF ClientSends, ExperimentTypeOK
  <2> QED BY <1>2, <1>6, <2>1, SendsStep
<1>7. CASE OtherClientPauses
  <2>1. PICK t \in pauses : IsNext(t) /\ now' = t /\ pauses' = pauses \ {t}
    BY <1>7 DEF OtherClientPauses
  <2>2. now <= now' /\ \A p \in pauses : now' <= p
    BY <1>1, <1>2, <2>1
  <2> QED BY <1>1, <1>7, <2>1, <2>2, PauseStep
<1>8. CASE ServerReceives
  <2>1. IsNext(Head(air).at) /\ now' = Head(air).at
    BY <1>8 DEF ServerReceives
  <2>2. Head(air).at \in Nat
    BY <1>8, ReceivesStep
  <2> QED BY <1>2, <1>8, <2>1, <2>2, ReceivesStep
<1> QED BY <1>3, <1>4, <1>5, <1>6, <1>7, <1>8 DEF Next

LEMMA InTimeStep ==
  ASSUME IInv, EInv, InTime, [Next]_vars
  PROVE  InTime'
<1> USE DEF EInv
<1>1. /\ now' \in Nat /\ now <= now' /\ otherStarts' = otherStarts
      /\ clientCount' = clientCount /\ delay' = delay
      /\ pauses' \subseteq pauses /\ \A t \in pauses' : now' <= t
      /\ \A t \in pauses : t \in pauses' \/ t = now'
  BY TimePasses
<1>2. delay \in Nat /\ Len(sent) \in Nat /\ Len(arrived) \in Nat /\ Len(air) \in Nat
  BY ExperimentAssumption DEF ExperimentTypeOK, IInv, ClientTypeOK
<1>3. /\ now' \in Nat /\ otherStarts' \subseteq Nat
      /\ pauses' \subseteq {PauseAt(s)' : s \in otherStarts'} /\ \A t \in pauses' : now' <= t
      /\ \A s \in otherStarts' : PauseAt(s)' \in pauses' \/ PauseAt(s)' <= now'
  <2>1. \A s : PauseAt(s)' = PauseAt(s)
    BY <1>1 DEF PauseAt
  <2>2. ASSUME NEW s \in otherStarts PROVE PauseAt(s) \in pauses' \/ PauseAt(s) <= now'
    <3>1. PauseAt(s) \in Nat /\ now \in Nat
      BY PauseTimes DEF InTime
    <3>2. CASE PauseAt(s) \in pauses
      <4>1. now' <= now'
        BY <1>1
      <4> QED BY <1>1, <3>2, <4>1
    <3>3. CASE PauseAt(s) <= now
      BY <1>1, <3>1, <3>3
    <3> QED BY <3>2, <3>3 DEF InTime
  <2> QED BY <1>1, <2>1, <2>2 DEF InTime
<1>4. \A n : ArrivalOf(n)' = ArrivalOf(n)
  BY <1>1 DEF ArrivalOf
<1>5. /\ sendAt' = ClientStart + Len(sent') * Interval
      /\ losses' = 0 =>
           /\ \A i \in 1 .. Len(air') : air'[i].at = ArrivalOf(Len(arrived') + i)
           /\ Len(arrived') # 0 => ArrivalOf(Len(arrived')) <= now'
  <2>1. CASE UNCHANGED <<sendAt, sent, air, arrived, losses>>
    <3>1. losses = 0 /\ Len(arrived) # 0 => ArrivalOf(Len(arrived)) <= now'
      <4>1. ArrivalOf(Len(arrived)) \in Int
        BY <1>2, ArrivalTimes
      <4> QED BY <1>1, <4>1 DEF InTime
    <3> QED BY <2>1, <3>1 DEF InTime
  <2>2. CASE StartBoth \/ StopBoth \/ UNCHANGED vars
    BY <2>1, <2>2, QuietStep
  <2>3. CASE OtherClientPauses
    BY <2>1, <2>3, PauseStep
  <2>4. CASE ClientSends
    <3>1. arrived' = arrived /\ sendAt' = sendAt + Interval
      BY <2>4, SendsStep DEF ClientSends
    <3>2. Len(sent') = Len(sent) + 1
      BY <2>4, SendAppends DEF IInv, ClientSends
    <3>3. sendAt' = ClientStart + Len(sent') * Interval
      <4>1. (Len(sent) + 1) * Interval = Len(sent) * Interval + Interval
            /\ Len(sent) * Interval \in Nat /\ Interval \in Nat /\ ClientStart \in Nat
        BY <1>2, ExperimentAssumption
      <4> QED BY <3>1, <3>2, <4>1 DEF InTime
    <3>4. losses' = 0 =>
            /\ losses = 0
            /\ air' = Append(air, [packet |-> NextPacket, at |-> sendAt + delay])
      BY <2>4, SendsStep DEF ExperimentTypeOK
    <3>5. losses = 0 /\ Len(arrived) # 0 => ArrivalOf(Len(arrived)) <= now'
      <4>1. ArrivalOf(Len(arrived)) \in Int
        BY <1>2, ArrivalTimes
      <4> QED BY <1>1, <4>1 DEF InTime
    <3>6. ASSUME losses = 0, air' = Append(air, [packet |-> NextPacket, at |-> sendAt + delay])
          PROVE  \A i \in 1 .. Len(air') : air'[i].at = ArrivalOf(Len(arrived) + i)
      <4> DEFINE flying == [packet |-> NextPacket, at |-> sendAt + delay]
                 Airborne == [packet : Payloads, at : Nat]
      <4>1. /\ air' = Append(air, flying) /\ flying.at = sendAt + delay /\ air \in Seq(Airborne)
            /\ flying \in Airborne
        BY <2>4, <3>6, SendsStep DEF ExperimentTypeOK
      <4> HIDE DEF flying, Airborne
      <4>2. /\ Len(air') = Len(air) + 1 /\ air'[Len(air) + 1] = flying
            /\ \A i \in 1 .. Len(air) : air'[i] = air[i]
        BY <4>1
      <4>3. sendAt + delay = ArrivalOf(Len(arrived) + (Len(air) + 1))
        <5>1. Len(arrived) + (Len(air) + 1) = Len(sent) + 1
          BY <1>2, <3>6 DEF Travelling
        <5>2. ArrivalOf(Len(sent) + 1) = (ClientStart + Len(sent) * Interval) + delay
          BY <1>2, ArrivalTimes
        <5> QED BY <5>1, <5>2 DEF InTime
      <4>4. \A i \in 1 .. Len(air) + 1 : i \in 1 .. Len(air) \/ i = Len(air) + 1
        BY <1>2
      <4> QED BY <3>6, <4>1, <4>2, <4>3, <4>4 DEF InTime
    <3> QED BY <3>1, <3>3, <3>4, <3>5, <3>6
  <2>5. CASE ServerReceives
    <3>1. /\ sent' = sent /\ sendAt' = sendAt /\ losses' = losses /\ air # <<>>
          /\ air' = Tail(air)
      BY <2>5, ReceivesStep
    <3>2. Len(arrived') = Len(arrived) + 1
      BY <2>5, CountsOneMore
    <3> DEFINE Airborne == [packet : Payloads, at : Nat]
    <3>3. air \in Seq(Airborne)
      BY DEF ExperimentTypeOK
    <3> HIDE DEF Airborne
    <3>4. /\ Len(air) # 0 /\ Len(air') = Len(air) - 1 /\ Head(air) = air[1]
          /\ \A i \in 1 .. Len(air) - 1 : air'[i] = air[i + 1]
      BY <3>1, <3>3
    <3>5. now' = air[1].at
      BY <2>5, <3>4 DEF ServerReceives
    <3>6. ASSUME losses = 0
          PROVE  /\ \A i \in 1 .. Len(air) - 1 : air'[i].at = ArrivalOf((Len(arrived) + 1) + i)
                 /\ ArrivalOf(Len(arrived) + 1) <= now'
      <4>1. \A i \in 1 .. Len(air) : air[i].at = ArrivalOf(Len(arrived) + i)
        BY <3>6 DEF InTime
      <4>2. ASSUME NEW i \in 1 .. Len(air) - 1
            PROVE  air'[i].at = ArrivalOf((Len(arrived) + 1) + i)
        <5>1. i + 1 \in 1 .. Len(air) /\ Len(arrived) + (i + 1) = (Len(arrived) + 1) + i
          BY <1>2
        <5> QED BY <3>4, <4>1, <4>2, <5>1
      <4>3. air[1].at = ArrivalOf(Len(arrived) + 1)
        BY <1>2, <3>4, <4>1
      <4>4. ArrivalOf(Len(arrived) + 1) <= ArrivalOf(Len(arrived) + 1)
        <5>1. ArrivalOf(Len(arrived) + 1) \in Int
          BY <1>2, ArrivalTimes
        <5> QED BY <5>1
      <4> QED BY <3>5, <4>2, <4>3, <4>4
    <3> QED BY <3>1, <3>2, <3>4, <3>6 DEF InTime
  <2> QED BY <2>2, <2>3, <2>4, <2>5 DEF Next
<1> QED BY <1>3, <1>4, <1>5 DEF InTime

\* With a short path, nothing is on its way when a packet is sent.
LEMMA SendsWhenArrived ==
  ASSUME IInv, EInv, InTime, InStep, ClientSends, losses = 0, delay < Interval
  PROVE  Len(sent) = Len(arrived) /\ Len(arrived) \in Nat
<1> USE DEF EInv
<1>1. /\ delay \in Nat /\ Interval \in Nat /\ Len(sent) \in Nat /\ Len(arrived) \in Nat
      /\ Len(air) \in Nat /\ ClientStart \in Nat
  BY ExperimentAssumption DEF ExperimentTypeOK, IInv, ClientTypeOK
<1>2. Len(sent) = Len(arrived) + Len(air) /\ Len(sent) <= Len(arrived) + 1
  <2>1. Len(sent) = Len(arrived) + Len(air) + losses
    BY DEF Travelling
  <2>2. Len(sent) <= Len(arrived) + 1
    BY DEF InStep
  <2> QED BY <1>1, <2>1, <2>2
<1>3. ASSUME Len(air) = 1 PROVE FALSE
  <2>1. air # <<>> /\ Head(air) = air[1]
    BY <1>3 DEF ExperimentTypeOK
  <2>2. sendAt <= air[1].at
    BY <2>1 DEF ClientSends, IsNext
  <2>3. air[1].at = ArrivalOf(Len(arrived) + 1)
    BY <1>3 DEF InTime
  <2>4. ArrivalOf(Len(arrived) + 1) = (ClientStart + Len(arrived) * Interval) + delay
    BY <1>1, ArrivalTimes
  <2>5. sendAt = ClientStart + (Len(arrived) + 1) * Interval
    BY <1>1, <1>2, <1>3 DEF InTime
  <2>6. /\ (Len(arrived) + 1) * Interval = Len(arrived) * Interval + Interval
        /\ Len(arrived) * Interval \in Nat
    BY <1>1
  <2> QED BY <1>1, <2>2, <2>3, <2>4, <2>5, <2>6
<1>4. Len(air) # 1
  BY <1>3
<1>5. Len(air) = 0
  <2>1. \A a, b, c \in Nat : a = b + c /\ a <= b + 1 /\ c # 1 => c = 0
    OBVIOUS
  <2> QED BY <1>1, <1>2, <1>4, <2>1, Zenon
<1> QED BY <1>1, <1>2, <1>5

LEMMA InStepStep ==
  ASSUME IInv, EInv, InTime, InStep, [Next]_vars
  PROVE  InStep'
<1> USE DEF EInv
<1>1. CASE UNCHANGED <<losses, delay, sent, arrived>>
  BY <1>1 DEF InStep
<1>2. CASE StartBoth \/ StopBoth \/ UNCHANGED vars
  BY <1>1, <1>2, QuietStep
<1>3. CASE OtherClientPauses
  BY <1>1, <1>3, PauseStep
<1>4. CASE ClientSends
  <2>1. delay' = delay /\ arrived' = arrived /\ (losses' = 0 => losses = 0)
    BY <1>4, SendsStep DEF ExperimentTypeOK
  <2>2. Len(sent') = Len(sent) + 1
    BY <1>4, SendAppends DEF IInv, ClientSends
  <2>3. ASSUME losses = 0, delay < Interval PROVE Len(sent) + 1 <= Len(arrived) + 1
    BY <1>4, <2>3, SendsWhenArrived
  <2> QED BY <2>1, <2>2, <2>3 DEF InStep
<1>5. CASE ServerReceives
  <2>1. /\ delay' = delay /\ sent' = sent /\ losses' = losses
        /\ Len(arrived) \in Nat /\ Len(arrived') = Len(arrived) + 1
    BY <1>5, ReceivesStep, CountsOneMore
  <2>2. Len(sent) \in Nat
    BY DEF IInv, ClientTypeOK
  <2>3. losses = 0 /\ delay < Interval => Len(sent) <= (Len(arrived) + 1) + 1
    BY <2>1, <2>2 DEF InStep
  <2> QED BY <2>1, <2>3 DEF InStep
<1> QED BY <1>2, <1>3, <1>4, <1>5 DEF Next

-----------------------------------------------------------------------------
(* The windows *)

LEMMA SleepsOf ==
  ASSUME NEW k \in Nat
  PROVE  Sleep * k \in Nat /\ Sleep * (k + 1) = Sleep * k + Sleep
BY ExperimentAssumption

LEMMA SleepsGrow ==
  ASSUME NEW n \in Nat, NEW k \in Nat, k <= n
  PROVE  Sleep * k <= Sleep * n
<1>1. PICK j \in Nat : n = k + j
  <2>1. n - k \in Nat /\ n = k + (n - k)
    OBVIOUS
  <2> QED BY <2>1
<1>2. Sleep * k \in Nat /\ Sleep * j \in Nat /\ Sleep * n = Sleep * k + Sleep * j
  BY <1>1, ExperimentAssumption
<1> QED BY <1>2

\* Finitely many of the other clients have paused, those that pause from one arrival
\* to another among them.
LEMMA PausedType ==
  ASSUME IInv, InTime, NEW n
  PROVE  IsFiniteSet(PausedSince(n)) /\ Cardinality(PausedSince(n)) \in Nat
<1>1. PausedSince(n) \in SUBSET Nat /\ now \in Nat
  BY DEF PausedSince, InTime
<1>2. ASSUME NEW s \in PausedSince(n) PROVE s <= now
  <2>1. s \in Nat /\ PauseAt(s) <= now
    BY <1>2 DEF PausedSince, InTime
  <2>2. PauseAt(s) \in Nat /\ s <= PauseAt(s)
    BY <2>1, PauseTimes
  <2> QED BY <1>1, <2>1, <2>2
<1>3. IsFiniteSet(PausedSince(n))
  BY <1>1, <1>2, FS_BoundedSetOfNaturals
<1> QED BY <1>3, FS_CardinalityType

LEMMA PausesBetweenType ==
  ASSUME IInv, ExperimentTypeOK, InTime, NEW n, NEW m \in Nat, m >= 1
  PROVE  /\ PausesBetween(n, m) \in Nat
         /\ now <= ArrivalOf(m) => Cardinality(PausedSince(n)) <= PausesBetween(n, m)
<1> DEFINE Between == {s \in otherStarts : ArrivalOf(n) <= PauseAt(s) /\ PauseAt(s) <= ArrivalOf(m)}
<1>1. ArrivalOf(m) \in Nat
  BY ArrivalTimes, ExperimentAssumption DEF ExperimentTypeOK
<1>2. Between \in SUBSET Nat
  BY DEF InTime
<1>3. ASSUME NEW s \in Between PROVE s <= ArrivalOf(m)
  <2>1. s \in Nat /\ PauseAt(s) <= ArrivalOf(m)
    BY <1>3 DEF InTime
  <2>2. PauseAt(s) \in Nat /\ s <= PauseAt(s)
    BY <2>1, PauseTimes
  <2> QED BY <1>1, <2>1, <2>2
<1>4. PausesBetween(n, m) = Cardinality(Between)
  BY DEF PausesBetween
<1>5. ASSUME now <= ArrivalOf(m) PROVE PausedSince(n) \subseteq Between
  <2> SUFFICES ASSUME NEW s \in PausedSince(n) PROVE s \in Between
    OBVIOUS
  <2>1. s \in otherStarts /\ ArrivalOf(n) <= PauseAt(s) /\ PauseAt(s) \notin pauses
    BY DEF PausedSince
  <2>2. PauseAt(s) <= now /\ PauseAt(s) \in Nat /\ now \in Nat
    BY <2>1, PauseTimes DEF InTime
  <2> QED BY <1>1, <1>5, <2>1, <2>2
<1> HIDE DEF Between
<1>6. IsFiniteSet(Between)
  BY <1>1, <1>2, <1>3, FS_BoundedSetOfNaturals
<1>7. Cardinality(Between) \in Nat
  BY <1>6, FS_CardinalityType
<1>8. now <= ArrivalOf(m) => Cardinality(PausedSince(n)) <= Cardinality(Between)
  BY <1>5, <1>6, FS_Subset
<1> QED BY <1>4, <1>7, <1>8

\* Another client pauses.
LEMMA GainPauses ==
  ASSUME IInv, EInv, InTime, OtherClientPauses, losses = 0,
         NEW n \in Nat, n >= 1, n <= Len(arrived), Gained(n)
  PROVE  Gained(n)'
<1> USE DEF EInv
<1>1. PICK t \in pauses : now' = t /\ pauses' = pauses \ {t}
  BY DEF OtherClientPauses
<1>2. PICK s \in otherStarts : s \in Nat /\ t = PauseAt(s)
  BY <1>1 DEF InTime
<1>3. /\ UNCHANGED <<m_first_t, delay, otherStarts, arrived, sent, clientCount>>
      /\ wall' = wall + Sleep
  BY PauseStep
<1>4. ArrivalOf(n) <= t
  <2>1. delay \in Nat /\ Len(arrived) \in Nat /\ Len(arrived) # 0
    BY ExperimentAssumption DEF ExperimentTypeOK
  <2>2. ArrivalOf(n) <= ArrivalOf(Len(arrived))
    BY <2>1, ArrivalsGrow
  <2>3. ArrivalOf(Len(arrived)) <= now /\ now <= t /\ now \in Nat
    BY <1>1, <2>1 DEF InTime
  <2>4. ArrivalOf(n) \in Int /\ ArrivalOf(Len(arrived)) \in Int /\ t \in Nat
    BY <1>2, <2>1, ArrivalTimes, PauseTimes
  <2> QED BY <2>2, <2>3, <2>4
<1>5. PausedSince(n)' = PausedSince(n) \cup {s}
  <2>1. PausedSince(n)' = {r \in otherStarts : ArrivalOf(n) <= PauseAt(r)
                                                 /\ PauseAt(r) \notin pauses \ {t}}
    BY <1>1, <1>3 DEF PausedSince, ArrivalOf, PauseAt
  <2>2. ASSUME NEW r \in otherStarts PROVE PauseAt(r) = t => r = s
    BY <1>2, PauseTimes DEF InTime
  <2>3. ASSUME NEW r
        PROVE  r \in PausedSince(n)' <=> r \in PausedSince(n) \cup {s}
    <3>1. r \in PausedSince(n)' <=>
            r \in otherStarts /\ ArrivalOf(n) <= PauseAt(r) /\ PauseAt(r) \notin pauses \ {t}
      BY <2>1, Zenon
    <3>2. r \in PausedSince(n) <=>
            r \in otherStarts /\ ArrivalOf(n) <= PauseAt(r) /\ PauseAt(r) \notin pauses
      BY Zenon DEF PausedSince
    <3> QED BY <1>2, <1>4, <2>2, <3>1, <3>2, Zenon
  <2> QED BY <2>3, Zenon
<1>6. s \notin PausedSince(n)
  BY <1>1, <1>2 DEF PausedSince
<1> DEFINE c == Cardinality(PausedSince(n))
<1>7. c \in Nat /\ Cardinality(PausedSince(n)') = c + 1
  BY <1>5, <1>6, PausedType, FS_AddElement
<1> DEFINE work == (Len(arrived) + Len(sent) - 2 * n) * MaxCost
<1>8. work \in Int /\ wall \in Nat /\ m_first_t \in Int /\ Sleep \in Nat
  <2>1. Len(arrived) + Len(sent) - 2 * n \in Int
    BY DEF ExperimentTypeOK, IInv, ClientTypeOK
  <2>2. wall \in Nat /\ m_first_t \in Int
    BY DEF ExperimentTypeOK
  <2> QED BY <2>1, <2>2, MaxCostType, ExperimentAssumption
<1>9. wall - m_first_t <= work + Sleep * c
  BY DEF Gained, Gain
<1>10. /\ Gained(n)' <=> wall' - m_first_t' <= Gain(n)'
       /\ Gain(n)' = work + Sleep * Cardinality(PausedSince(n)')
  BY <1>3 DEF Gained, Gain
<1> HIDE DEF work, c
<1>11. Sleep * c \in Nat /\ Sleep * (c + 1) = Sleep * c + Sleep
  BY <1>7, SleepsOf
<1>12. (wall + Sleep) - m_first_t <= work + Sleep * (c + 1)
  BY <1>8, <1>9, <1>11
<1> QED BY <1>3, <1>7, <1>10, <1>12, Zenon

\* A packet is sent or arrives, and the clock is not started anew.
LEMMA GainWorks ==
  ASSUME IInv, EInv, InTime,
         UNCHANGED <<m_first_t, delay, otherStarts, pauses, clientCount>>,
         Len(arrived') + Len(sent') = (Len(arrived) + Len(sent)) + 1,
         NEW cost \in EventCosts, wall' = wall + cost,
         NEW n \in Nat, n <= Len(arrived), Len(arrived) <= Len(sent), Gained(n)
  PROVE  /\ Gained(n)'
         /\ (wall + cost) - m_first_t <= ((Len(arrived) + Len(sent) - 2 * n) + 1) * MaxCost
                                           + Sleep * Cardinality(PausedSince(n))
<1> USE DEF EInv
<1>1. PausedSince(n)' = PausedSince(n)
  BY DEF PausedSince, ArrivalOf, PauseAt
<1> DEFINE c == Cardinality(PausedSince(n))
           k == Len(arrived) + Len(sent) - 2 * n
<1>2. k \in Nat /\ (Len(arrived) + Len(sent)) + 1 - 2 * n = k + 1
  BY DEF ExperimentTypeOK, IInv, ClientTypeOK
<1>3. c \in Nat
  BY PausedType
<1>4. /\ cost \in Nat /\ cost <= MaxCost /\ MaxCost \in Nat /\ wall \in Nat
      /\ m_first_t \in Int
  BY MaxCostType DEF ExperimentTypeOK
<1>5. wall - m_first_t <= k * MaxCost + Sleep * c
  BY DEF Gained, Gain
<1>6. Gained(n)' <=> wall' - m_first_t' <= Gain(n)'
  BY DEF Gained
<1>7. Gain(n)' = (Len(arrived') + Len(sent') - 2 * n) * MaxCost + Sleep * c
  BY <1>1 DEF Gain
<1>8. Gain(n)' = (k + 1) * MaxCost + Sleep * c
  <2>1. Len(arrived') + Len(sent') - 2 * n = k + 1
    <3>1. PICK m : m = Len(arrived') + Len(sent')
      OBVIOUS
    <3>2. m = (Len(arrived) + Len(sent)) + 1
      BY <3>1
    <3>3. Len(arrived') \in Nat /\ Len(sent') \in Nat
      OBVIOUS
    <3> QED BY <1>2, <3>1, <3>2, <3>3
  <2> QED BY <1>7, <2>1, Zenon
<1> HIDE DEF c, k
<1>9. k * MaxCost \in Nat /\ (k + 1) * MaxCost = k * MaxCost + MaxCost
  BY <1>2, CostOf
<1>10. Sleep * c \in Nat
  BY <1>3, SleepsOf
<1>11. (wall + cost) - m_first_t <= (k + 1) * MaxCost + Sleep * c
  BY <1>4, <1>5, <1>9, <1>10
<1>12. Gained(n)'
  BY <1>6, <1>8, <1>11, Zenon
<1> QED BY <1>11, <1>12 DEF k, c

\* The last packet of a train arrives: what the server takes for its duration.
LEMMA GainMeasured ==
  ASSUME IInv, EInv, InTime, ServerReceives, losses = 0, SameCount,
         NEW n \in Nat, n <= Len(arrived), Gained(n),
         NEW m \in Nat, m = Len(arrived) + 1, m + Len(sent) - 2 * n <= 2 * (m_count + 1)
  PROVE  wall' - m_first_t <= WorkOf(m_count) + Sleep * PausesBetween(n, m)
<1> USE DEF EInv
<1>1. /\ Len(arrived) \in Nat /\ Len(sent) \in Nat /\ Len(arrived) <= Len(sent)
      /\ Len(air) \in Nat /\ m_count \in Nat
  BY PlanFits
<1>2. PICK cost \in EventCosts : wall' = wall + cost
  BY ReceivesStep
<1> DEFINE c == Cardinality(PausedSince(n))
           k == Len(arrived) + Len(sent) - 2 * n
           p == PausesBetween(n, m)
           w == 2 * (m_count + 1)
<1>3. k \in Nat /\ k + 1 \in Nat /\ k + 1 <= w /\ w \in Nat
  BY <1>1
<1>4. now <= ArrivalOf(m)
  <2>1. Len(air) # 0 /\ Head(air) = air[1]
    BY ReceivesStep DEF ExperimentTypeOK
  <2>2. 1 \in 1 .. Len(air)
    BY <1>1, <2>1
  <2>3. air[1].at = ArrivalOf(m)
    BY <2>2 DEF InTime
  <2> QED BY <2>1, <2>3 DEF ServerReceives, IsNext
<1>5. c \in Nat /\ p \in Nat /\ c <= p
  BY <1>1, <1>4, PausedType, PausesBetweenType
<1>6. /\ cost \in Nat /\ cost <= MaxCost /\ MaxCost \in Nat /\ wall \in Nat
      /\ m_first_t \in Int
  BY MaxCostType DEF ExperimentTypeOK
<1>7. wall - m_first_t <= k * MaxCost + Sleep * c
  BY DEF Gained, Gain
<1>8. WorkOf(m_count) = w * MaxCost
  BY DEF WorkOf
<1> HIDE DEF c, k, p, w
<1>9. k * MaxCost \in Nat /\ (k + 1) * MaxCost = k * MaxCost + MaxCost
  BY <1>3, CostOf
<1>10. (k + 1) * MaxCost <= w * MaxCost /\ w * MaxCost \in Nat
  <2>1. w * MaxCost \in Nat
    BY <1>3, CostOf
  <2>2. (k + 1) * MaxCost <= w * MaxCost
    BY <1>3, CostGrows
  <2> QED BY <2>1, <2>2
<1>11. Sleep * c \in Nat /\ Sleep * p \in Nat /\ Sleep * c <= Sleep * p
  BY <1>5, SleepsOf, SleepsGrow
<1>12. (wall + cost) - m_first_t <= w * MaxCost + Sleep * p
  BY <1>6, <1>7, <1>9, <1>10, <1>11
<1> QED BY <1>2, <1>8, <1>12, Zenon DEF p

\* The first packet of a train arrives.
LEMMA GainOpens ==
  ASSUME IInv, EInv, InTime, ServerReceives, m_first_t' = wall', SameCount,
         NEW n \in Nat, n = Len(arrived) + 1, n <= Len(sent)
  PROVE  Gained(n)'
<1> USE DEF EInv
<1>1. /\ Len(sent) \in Nat /\ sent' = sent /\ Len(arrived') = n
      /\ UNCHANGED <<delay, otherStarts, pauses, clientCount>>
  BY ReceivesStep, PlanFits, CountsOneMore
<1>2. PausedSince(n)' = PausedSince(n)
  BY <1>1 DEF PausedSince, ArrivalOf, PauseAt
<1> DEFINE c == Cardinality(PausedSince(n))
           k == n + Len(sent) - 2 * n
<1>3. k \in Nat /\ c \in Nat
  BY <1>1, PausedType
<1>4. Gain(n)' = k * MaxCost + Sleep * c
  BY <1>1, <1>2 DEF Gain
<1> HIDE DEF c, k
<1>5. k * MaxCost + Sleep * c \in Nat
  <2>1. k * MaxCost \in Nat /\ Sleep * c \in Nat
    BY <1>3, CostOf, SleepsOf
  <2> QED BY <2>1
<1>6. PICK w \in Nat : w = wall' /\ w - w <= k * MaxCost + Sleep * c
  <2>1. wall' \in Nat
    <3>1. PICK cost \in EventCosts : wall' = wall + cost
      BY ReceivesStep
    <3>2. cost \in Nat /\ wall \in Nat
      BY ExperimentAssumption DEF ExperimentTypeOK
    <3> QED BY <3>1, <3>2
  <2>2. \A w \in Nat : w - w <= k * MaxCost + Sleep * c
    BY <1>5
  <2> QED BY <2>1, <2>2
<1> QED BY <1>4, <1>6, Zenon DEF Gained

\* What is fixed for a run, and what cannot be undone.
LEMMA SettingKept ==
  ASSUME IInv, EInv, [Next]_vars
  PROVE  /\ otherStarts' = otherStarts /\ clientCount' = clientCount /\ delay' = delay
         /\ serverMaxPackets' = serverMaxPackets
         /\ losses' = 0 => losses = 0
<1> USE DEF EInv
<1>1. losses \in Nat
  BY DEF ExperimentTypeOK
<1>2. CASE StartBoth \/ StopBoth \/ UNCHANGED vars
  BY <1>2, QuietStep
<1>3. CASE OtherClientPauses
  BY <1>3, PauseStep
<1>4. CASE ClientSends
  BY <1>1, <1>4, SendsStep
<1>5. CASE ServerReceives
  BY <1>5, ReceivesStep
<1> QED BY <1>2, <1>3, <1>4, <1>5 DEF Next

LEMMA BothWindowsStep ==
  ASSUME IInv, EInv, TInv, [Next]_vars
  PROVE  BothWindows'
<1> USE DEF EInv, TInv
<1>1. /\ otherStarts' = otherStarts /\ clientCount' = clientCount /\ delay' = delay
      /\ serverMaxPackets' = serverMaxPackets
  BY SettingKept
<1>2. /\ (SameCount' <=> SameCount) /\ m_count' = m_count /\ WorkOf(m_count)' = WorkOf(m_count)
      /\ PausesBetween(1, m_count)' = PausesBetween(1, m_count)
      /\ PausesBetween(m_count + 1, 2 * m_count)' = PausesBetween(m_count + 1, 2 * m_count)
  BY <1>1 DEF SameCount, m_count, WorkOf, PausesBetween, ArrivalOf, PauseAt
<1>3. losses' = 0 => losses = 0
  BY SettingKept
<1> SUFFICES ASSUME SameCount, m_count >= 2, losses = 0, delay < Interval
             PROVE  /\ ~receivedAllLowEntropy' /\ Len(arrived') >= 1 => Gained(1)'
                    /\ m_duration_l' <= WorkOf(m_count) + Sleep * PausesBetween(1, m_count)
                    /\ receivedAllLowEntropy' /\ Len(arrived') > m_count
                          /\ Len(arrived') < 2 * m_count => Gained(m_count + 1)'
                    /\ m_duration_h' <= WorkOf(m_count)
                                          + Sleep * PausesBetween(m_count + 1, 2 * m_count)
  <2>1. \A n : Gained(n + 1)' <=> wall' - m_first_t' <= Gain(n + 1)'
    BY DEF Gained
  <2> QED BY <1>1, <1>2, <1>3 DEF BothWindows, Gained, Gain, PausedSince, ArrivalOf, PauseAt
<1>4. /\ ~receivedAllLowEntropy /\ Len(arrived) >= 1 => Gained(1)
      /\ m_duration_l <= WorkOf(m_count) + Sleep * PausesBetween(1, m_count)
      /\ receivedAllLowEntropy /\ Len(arrived) > m_count /\ Len(arrived) < 2 * m_count =>
           Gained(m_count + 1)
      /\ m_duration_h <= WorkOf(m_count) + Sleep * PausesBetween(m_count + 1, 2 * m_count)
  BY DEF BothWindows
<1>5. /\ m_count \in 0 .. U16 - 1 /\ U16 \in Nat /\ 1 < U16 /\ TrainLength = m_count
      /\ m_count + 1 \in Nat /\ 1 \in Nat /\ m_count # 1
  BY CountType DEF ExperimentTypeOK
<1>6. /\ Len(arrived) \in Nat /\ Len(sent) \in Nat /\ Len(air) \in Nat
      /\ Len(sent) = Len(arrived) + Len(air) + losses
      /\ Len(sent) <= 2 * m_count + 1 /\ clientCount = m_count
      /\ (m_count + 1) % U32 = m_count + 1 /\ 2 * m_count + 1 < U32 /\ U32 \in Nat
  BY <1>5, PlanFits
<1>7. Len(arrived) <= Len(sent)
  BY <1>6
<1>8. CASE StartBoth \/ StopBoth \/ UNCHANGED vars
  <2>1. UNCHANGED <<receivedAllLowEntropy, m_first_t, m_duration_l, m_duration_h, wall,
                    delay, otherStarts, pauses, arrived, clientCount, sent>>
    BY <1>8, QuietStep
  <2>2. (Gained(1)' <=> Gained(1)) /\ (Gained(m_count + 1)' <=> Gained(m_count + 1))
    BY <1>2, <2>1 DEF Gained, Gain, PausedSince, ArrivalOf, PauseAt
  <2> QED BY <1>4, <2>1, <2>2
<1>9. CASE OtherClientPauses
  <2>1. UNCHANGED <<receivedAllLowEntropy, m_duration_l, m_duration_h, arrived>>
    BY <1>9, PauseStep
  <2>2. ~receivedAllLowEntropy /\ Len(arrived) >= 1 => Gained(1)'
    BY <1>4, <1>5, <1>9, GainPauses
  <2>3. receivedAllLowEntropy /\ Len(arrived) > m_count /\ Len(arrived) < 2 * m_count =>
          Gained(m_count + 1)'
    <3> SUFFICES ASSUME receivedAllLowEntropy, Len(arrived) > m_count,
                        Len(arrived) < 2 * m_count
                 PROVE  Gained(m_count + 1)'
      OBVIOUS
    <3>1. PICK n \in Nat : n = m_count + 1
      BY <1>5
    <3>2. n >= 1 /\ n <= Len(arrived) /\ Gained(n)
      BY <1>4, <1>5, <1>6, <3>1
    <3>3. Gained(n)'
      BY <1>9, <3>2, GainPauses
    <3> QED BY <1>2, <3>1, <3>3
  <2> QED BY <1>4, <2>1, <2>2, <2>3
<1>10. CASE ClientSends
  <2>1. UNCHANGED <<receivedAllLowEntropy, m_first_t, m_duration_l, m_duration_h, arrived,
                    delay, otherStarts, pauses, clientCount>>
    BY <1>10, SendsStep
  <2>2. Len(arrived') + Len(sent') = (Len(arrived) + Len(sent)) + 1
    <3>1. Len(sent') = Len(sent) + 1
      BY <1>10, SendAppends DEF IInv, ClientSends
    <3> QED BY <1>6, <2>1, <3>1
  <2>3. ASSUME ~receivedAllLowEntropy, Len(arrived) >= 1 PROVE Gained(1)'
    <3>1. Len(arrived) < m_count
      BY <1>5, <2>3 DEF Counting
    <3>2. Len(sent) = Len(arrived)
      BY <1>10, SendsWhenArrived
    <3>3. SentCount = Len(sent) + 1
      <4>1. Len(sent) + 1 < U32
        BY <1>5, <1>6, <3>1, <3>2
      <4> QED BY <4>1, SendCounts DEF IInv
    <3>4. ~PhaseEnds
      BY <1>5, <1>6, <3>1, <3>2, <3>3 DEF PhaseEnds
    <3>5. PICK cost \in EventCosts : wall' = wall + cost + IF PhaseEnds THEN Sleep ELSE 0
      BY <1>10, SendsStep
    <3>6. wall + cost + 0 = wall + cost
      BY ExperimentAssumption DEF ExperimentTypeOK
    <3>7. wall' = wall + cost
      BY <3>4, <3>5, <3>6, Zenon
    <3> QED BY <1>4, <1>7, <2>1, <2>2, <2>3, <3>7, GainWorks
  <2>4. ASSUME receivedAllLowEntropy, Len(arrived) > m_count, Len(arrived) < 2 * m_count
        PROVE  Gained(m_count + 1)'
    <3>1. PICK n \in Nat : n = m_count + 1
      BY <1>5
    <3>2. n <= Len(arrived) /\ Gained(n)
      BY <1>4, <1>5, <1>6, <2>4, <3>1
    <3>3. PICK cost \in EventCosts : wall' = wall + cost
      BY <1>10, <2>4, NoPauseInSecond
    <3>4. Gained(n)'
      BY <1>7, <2>1, <2>2, <3>2, <3>3, GainWorks
    <3> QED BY <1>2, <3>1, <3>4
  <2> QED BY <1>4, <2>1, <2>3, <2>4
<1>11. CASE ServerReceives
  <2>1. UNCHANGED <<delay, otherStarts, pauses, clientCount, sent>>
    BY <1>11, ReceivesStep
  <2>2. Len(arrived') = Len(arrived) + 1 /\ Len(arrived) + 1 <= Len(sent)
    <3>1. Len(air) # 0
      BY <1>11, ReceivesStep DEF ExperimentTypeOK
    <3> QED BY <1>6, <1>11, <3>1, CountsOneMore
  <2>3. Len(arrived') + Len(sent') = (Len(arrived) + Len(sent)) + 1
    BY <1>6, <2>1, <2>2
  <2>4. PICK cost \in EventCosts : wall' = wall + cost
    BY <1>11, ReceivesStep
  <2>5. CASE ~receivedAllLowEntropy
    <3>0. /\ Len(arrived) + 1 < TrainLength =>
               receivedAllLowEntropy' = FALSE /\ m_received_l' = Len(arrived) + 1
          /\ Len(arrived) + 1 = TrainLength => receivedAllLowEntropy' = TRUE
      BY <1>5, <1>11, <2>5, CountsOneMore
    <3>1. /\ m_first_t' = IF m_received_l' = 1 THEN wall' ELSE m_first_t
          /\ m_duration_l' = IF receivedAllLowEntropy' THEN wall' - m_first_t ELSE m_duration_l
          /\ m_duration_h' = m_duration_h
      BY <1>11, <2>5, ReceivesStep
    <3>2. Len(arrived) < m_count
      BY <1>5, <2>5 DEF Counting
    <3>3. ~(Len(arrived') > m_count)
      BY <1>5, <1>6, <2>2, <3>2
    <3>4. CASE Len(arrived) + 1 < m_count
      <4>1. receivedAllLowEntropy' = FALSE /\ m_received_l' = Len(arrived) + 1
        BY <1>5, <3>0, <3>4
      <4>2. Gained(1)'
        <5>1. CASE Len(arrived) = 0
          <6>1. m_first_t' = wall'
            BY <3>1, <4>1, <5>1
          <6> QED BY <1>11, <2>2, <5>1, <6>1, GainOpens
        <5>2. CASE Len(arrived) >= 1
          <6>1. m_first_t' = m_first_t
            BY <1>6, <3>1, <4>1, <5>2
          <6> QED BY <1>4, <1>7, <2>1, <2>3, <2>4, <2>5, <5>2, <6>1, GainWorks
        <5> QED BY <1>6, <5>1, <5>2
      <4> QED BY <1>4, <3>1, <3>3, <4>1, <4>2
    <3>5. CASE Len(arrived) + 1 = m_count
      <4>1. receivedAllLowEntropy' = TRUE
        BY <1>5, <3>0, <3>5
      <4>2. Gained(1) /\ 1 <= Len(arrived)
        BY <1>4, <1>6, <2>5, <3>5
      <4>3. m_count + Len(sent) - 2 * 1 <= 2 * (m_count + 1) /\ m_count \in Nat
        BY <1>5, <1>6, <3>5 DEF InStep
      <4>4. wall' - m_first_t <= WorkOf(m_count) + Sleep * PausesBetween(1, m_count)
        BY <1>11, <3>5, <4>2, <4>3, GainMeasured
      <4>5. m_duration_l' <= WorkOf(m_count) + Sleep * PausesBetween(1, m_count)
        BY <3>1, <4>1, <4>4, Zenon
      <4> QED BY <1>4, <3>1, <3>3, <4>1, <4>5
    <3> QED BY <1>5, <1>6, <3>2, <3>4, <3>5
  <2>6. CASE receivedAllLowEntropy
    <3>1. /\ receivedAllLowEntropy' = TRUE /\ m_duration_l' = m_duration_l
          /\ m_first_t' = IF m_received_h' = 1 THEN wall' ELSE m_first_t
          /\ m_duration_h' = IF Finishes(m_received_h') THEN wall' - m_first_t
                                                       ELSE m_duration_h
      BY <1>11, <2>6, ReceivesStep
    <3>2. Len(arrived) >= m_count
      BY <1>5, <2>6 DEF Counting
    <3>3. PICK n \in Nat : n = m_count + 1
      BY <1>5
    <3>4. CASE Len(arrived) + 1 < 2 * m_count
      <4>1. m_received_h' = (Len(arrived) + 1) - m_count /\ m_received_h' # m_count
        BY <1>5, <1>11, <2>6, <3>4, CountsOneMore
      <4>2. m_duration_h' = m_duration_h
        BY <3>1, <4>1 DEF Finishes
      <4>3. Gained(n)'
        <5>1. CASE Len(arrived) = m_count
          <6>1. (Len(arrived) + 1) - m_count = 1 /\ n = Len(arrived) + 1
            BY <1>5, <1>6, <3>3, <5>1
          <6>2. m_first_t' = wall'
            BY <3>1, <4>1, <6>1
          <6> QED BY <1>11, <2>2, <6>1, <6>2, GainOpens
        <5>2. CASE Len(arrived) > m_count
          <6>1. (Len(arrived) + 1) - m_count # 1 /\ n <= Len(arrived) /\ Len(arrived) < 2 * m_count
            BY <1>5, <1>6, <3>3, <3>4, <5>2
          <6>2. m_first_t' = m_first_t
            BY <3>1, <4>1, <6>1
          <6>3. Gained(n)
            BY <1>4, <2>6, <3>3, <5>2, <6>1
          <6> QED BY <1>7, <2>1, <2>3, <2>4, <6>1, <6>2, <6>3, GainWorks
        <5> QED BY <1>5, <1>6, <3>2, <5>1, <5>2
      <4>4. Gained(m_count + 1)'
        BY <1>2, <3>3, <4>3
      <4> QED BY <1>4, <3>1, <4>2, <4>4
    <3>5. CASE Len(arrived) + 1 = 2 * m_count
      <4>1. ~(Len(arrived') < 2 * m_count)
        BY <1>5, <1>6, <2>2, <3>5
      <4>2. m_received_h' = m_count
        BY <1>5, <1>11, <2>6, <3>5, CountsOneMore
      <4>3. m_duration_h' = wall' - m_first_t
        BY <1>5, <3>1, <4>2 DEF Finishes
      <4>4. n <= Len(arrived) /\ Gained(n)
        <5>1. Len(arrived) > m_count /\ Len(arrived) < 2 * m_count /\ n <= Len(arrived)
          BY <1>5, <1>6, <2>2, <3>3, <3>5
        <5> QED BY <1>4, <2>6, <3>3, <5>1
      <4>5. PICK m \in Nat : m = 2 * m_count
        BY <1>5
      <4>6. m = Len(arrived) + 1 /\ m + Len(sent) - 2 * n <= 2 * (m_count + 1)
        BY <1>5, <1>6, <3>3, <3>5, <4>5
      <4>7. wall' - m_first_t <= WorkOf(m_count) + Sleep * PausesBetween(n, m)
        BY <1>11, <4>4, <4>6, GainMeasured
      <4>8. m_duration_h' <= WorkOf(m_count)
                              + Sleep * PausesBetween(m_count + 1, 2 * m_count)
        BY <3>3, <4>3, <4>5, <4>7, Zenon
      <4> QED BY <1>4, <3>1, <4>1, <4>8
    <3>6. CASE Len(arrived) + 1 > 2 * m_count
      <4>1. Len(arrived) = 2 * m_count /\ ~(Len(arrived') < 2 * m_count)
        BY <1>5, <1>6, <2>2, <3>6
      <4>2. m_received_h' # m_count
        BY <1>5, <1>11, <2>6, <4>1, CountsOneMore
      <4>3. m_duration_h' = m_duration_h
        BY <3>1, <4>2 DEF Finishes
      <4> QED BY <1>4, <3>1, <4>1, <4>3
    <3> QED BY <1>5, <1>6, <3>4, <3>5, <3>6
  <2> QED BY <2>5, <2>6
<1> QED BY <1>8, <1>9, <1>10, <1>11 DEF Next

-----------------------------------------------------------------------------
(* The other clients' sleeps *)

LEMMA SleepsSubtract ==
  ASSUME NEW a \in Nat, NEW b \in Nat
  PROVE  Sleep * (a - b) = Sleep * a - Sleep * b
BY ExperimentAssumption

LEMMA PausedAfterType ==
  ASSUME IInv, InTime, NEW n
  PROVE  IsFiniteSet(PausedAfter(n)) /\ Cardinality(PausedAfter(n)) \in Nat
<1>1. PausedAfter(n) \in SUBSET Nat /\ now \in Nat
  BY DEF PausedAfter, InTime
<1>2. ASSUME NEW s \in PausedAfter(n) PROVE s <= now
  <2>1. s \in Nat /\ PauseAt(s) <= now
    BY <1>2 DEF PausedAfter, InTime
  <2>2. PauseAt(s) \in Nat /\ s <= PauseAt(s)
    BY <2>1, PauseTimes
  <2> QED BY <1>1, <2>1, <2>2
<1>3. IsFiniteSet(PausedAfter(n))
  BY <1>1, <1>2, FS_BoundedSetOfNaturals
<1> QED BY <1>3, FS_CardinalityType

LEMMA PausesWithinType ==
  ASSUME IInv, ExperimentTypeOK, InTime, NEW n, NEW m \in Nat, m >= 1
  PROVE  /\ PausesWithin(n, m) \in Nat
         /\ (\A t \in pauses : ArrivalOf(m) <= t) =>
              PausesWithin(n, m) <= Cardinality(PausedAfter(n))
<1> DEFINE Within == {s \in otherStarts : ArrivalOf(n) < PauseAt(s) /\ PauseAt(s) < ArrivalOf(m)}
<1>1. ArrivalOf(m) \in Nat
  BY ArrivalTimes, ExperimentAssumption DEF ExperimentTypeOK
<1>2. Within \in SUBSET Nat
  BY DEF InTime
<1>3. ASSUME NEW s \in Within PROVE s <= ArrivalOf(m)
  <2>1. s \in Nat /\ PauseAt(s) < ArrivalOf(m)
    BY <1>3 DEF InTime
  <2>2. PauseAt(s) \in Nat /\ s <= PauseAt(s)
    BY <2>1, PauseTimes
  <2> QED BY <1>1, <2>1, <2>2
<1>4. PausesWithin(n, m) = Cardinality(Within)
  BY DEF PausesWithin
<1>5. ASSUME \A t \in pauses : ArrivalOf(m) <= t PROVE Within \subseteq PausedAfter(n)
  <2> SUFFICES ASSUME NEW s \in Within PROVE s \in PausedAfter(n)
    OBVIOUS
  <2>1. s \in otherStarts /\ s \in Nat /\ ArrivalOf(n) < PauseAt(s) /\ PauseAt(s) < ArrivalOf(m)
    BY DEF InTime
  <2>2. PauseAt(s) \notin pauses
    <3>1. PauseAt(s) \in Nat
      BY <2>1, PauseTimes
    <3> QED BY <1>1, <1>5, <2>1, <3>1
  <2> QED BY <2>1, <2>2 DEF PausedAfter
<1> HIDE DEF Within
<1>6. IsFiniteSet(Within)
  BY <1>1, <1>2, <1>3, FS_BoundedSetOfNaturals
<1>7. Cardinality(Within) \in Nat
  BY <1>6, FS_CardinalityType
<1>8. (\A t \in pauses : ArrivalOf(m) <= t) => Cardinality(Within) <= Cardinality(PausedAfter(n))
  BY <1>5, PausedAfterType, FS_Subset
<1> QED BY <1>4, <1>7, <1>8

\* Another client pauses.
LEMMA SleptPauses ==
  ASSUME IInv, EInv, InTime, OtherClientPauses, NEW n, Slept(n)
  PROVE  Slept(n)'
<1> USE DEF EInv
<1>1. PICK t \in pauses : pauses' = pauses \ {t}
  BY DEF OtherClientPauses
<1>2. PICK s \in otherStarts : s \in Nat /\ t = PauseAt(s)
  BY <1>1 DEF InTime
<1>3. UNCHANGED <<m_first_t, delay, otherStarts, clientCount>> /\ wall' = wall + Sleep
  BY PauseStep
<1>4. PausedAfter(n)' \subseteq PausedAfter(n) \cup {s}
  <2>1. PausedAfter(n)' = {r \in otherStarts : ArrivalOf(n) < PauseAt(r)
                                                 /\ PauseAt(r) \notin pauses \ {t}}
    BY <1>1, <1>3 DEF PausedAfter, ArrivalOf, PauseAt
  <2>2. ASSUME NEW r \in otherStarts PROVE PauseAt(r) = t => r = s
    BY <1>2, PauseTimes DEF InTime
  <2>3. ASSUME NEW r \in PausedAfter(n)'
        PROVE  r \in PausedAfter(n) \cup {s}
    <3>1. r \in otherStarts /\ ArrivalOf(n) < PauseAt(r) /\ PauseAt(r) \notin pauses \ {t}
      BY <2>1, <2>3, Zenon
    <3> QED BY <2>2, <3>1, Zenon DEF PausedAfter
  <2> QED BY <2>3, Zenon
<1> DEFINE old == Cardinality(PausedAfter(n))
<1>5. PICK c : c = Cardinality(PausedAfter(n)')
  OBVIOUS
<1>6. old \in Nat /\ c \in Nat /\ c <= old + 1
  <2>1. IsFiniteSet(PausedAfter(n)) /\ old \in Nat
    BY PausedAfterType
  <2>2. IsFiniteSet(PausedAfter(n) \cup {s})
        /\ Cardinality(PausedAfter(n) \cup {s}) \in {old, old + 1}
    BY <2>1, FS_AddElement, Zenon
  <2>3. IsFiniteSet(PausedAfter(n)') /\ c <= Cardinality(PausedAfter(n) \cup {s})
    BY <1>4, <1>5, <2>2, FS_Subset
  <2>4. c \in Nat
    BY <1>5, <2>3, FS_CardinalityType
  <2> QED BY <2>1, <2>2, <2>3, <2>4
<1>7. Sleep * old <= wall - m_first_t
  BY DEF Slept
<1>8. wall \in Nat /\ m_first_t \in Int /\ Sleep \in Nat
  BY ExperimentAssumption DEF ExperimentTypeOK
<1> HIDE DEF old
<1>9. Sleep * c <= (wall + Sleep) - m_first_t
  <2>1. Sleep * c \in Nat /\ Sleep * c <= Sleep * (old + 1)
    BY <1>6, SleepsOf, SleepsGrow
  <2>2. Sleep * (old + 1) = Sleep * old + Sleep /\ Sleep * old \in Nat
    BY <1>6, SleepsOf
  <2> QED BY <1>7, <1>8, <2>1, <2>2
<1>10. Slept(n)' <=> Sleep * Cardinality(PausedAfter(n)') <= wall' - m_first_t'
  BY DEF Slept
<1> QED BY <1>3, <1>5, <1>9, <1>10, Zenon

\* The clock goes on, and is not started anew.
LEMMA SleptOn ==
  ASSUME IInv, EInv, InTime,
         UNCHANGED <<m_first_t, delay, otherStarts, pauses, clientCount>>,
         NEW cost \in Nat, wall' = wall + cost, NEW n, Slept(n)
  PROVE  Slept(n)' /\ Sleep * Cardinality(PausedAfter(n)) <= (wall + cost) - m_first_t
<1> USE DEF EInv
<1>1. PausedAfter(n)' = PausedAfter(n)
  BY DEF PausedAfter, ArrivalOf, PauseAt
<1> DEFINE c == Cardinality(PausedAfter(n))
<1>2. c \in Nat /\ wall \in Nat /\ m_first_t \in Int
  BY PausedAfterType DEF ExperimentTypeOK
<1>3. Sleep * c <= wall - m_first_t
  BY DEF Slept
<1>4. Slept(n)' <=> Sleep * c <= wall' - m_first_t'
  BY <1>1 DEF Slept
<1> HIDE DEF c
<1>5. Sleep * c <= (wall + cost) - m_first_t
  BY <1>2, <1>3, SleepsOf
<1> QED BY <1>4, <1>5, Zenon DEF c

\* The last packet of a train arrives: the pauses due before it have all been made.
LEMMA SleptMeasured ==
  ASSUME IInv, EInv, InTime, ServerReceives, losses = 0,
         NEW n \in Nat, Slept(n), NEW m \in Nat, m = Len(arrived) + 1
  PROVE  Sleep * PausesWithin(n, m) <= wall' - m_first_t
<1> USE DEF EInv
<1>1. Len(arrived) \in Nat /\ Len(air) \in Nat
  BY DEF ExperimentTypeOK
<1>2. PICK cost \in EventCosts : wall' = wall + cost
  BY ReceivesStep
<1>3. \A t \in pauses : ArrivalOf(m) <= t
  <2>1. Len(air) # 0 /\ Head(air) = air[1]
    BY ReceivesStep DEF ExperimentTypeOK
  <2>2. 1 \in 1 .. Len(air)
    BY <1>1, <2>1
  <2>3. air[1].at = ArrivalOf(m)
    BY <2>2 DEF InTime
  <2> QED BY <2>1, <2>3 DEF ServerReceives, IsNext
<1> DEFINE c == Cardinality(PausedAfter(n))  p == PausesWithin(n, m)
<1>4. c \in Nat /\ p \in Nat /\ p <= c
  BY <1>1, <1>3, PausedAfterType, PausesWithinType
<1>5. cost \in Nat /\ wall \in Nat /\ m_first_t \in Int
  BY MaxCostType DEF ExperimentTypeOK
<1>6. Sleep * c <= wall - m_first_t
  BY DEF Slept
<1> HIDE DEF c, p
<1>7. Sleep * c \in Nat /\ Sleep * p \in Nat /\ Sleep * p <= Sleep * c
  BY <1>4, SleepsOf, SleepsGrow
<1>8. Sleep * p <= (wall + cost) - m_first_t
  BY <1>5, <1>6, <1>7
<1> QED BY <1>2, <1>8, Zenon DEF p

\* The first packet of a train arrives: nobody has paused after it yet.
LEMMA SleptOpens ==
  ASSUME IInv, EInv, InTime, ServerReceives, losses = 0, m_first_t' = wall',
         NEW n \in Nat, n = Len(arrived) + 1
  PROVE  Slept(n)'
<1> USE DEF EInv
<1>1. UNCHANGED <<delay, otherStarts, pauses, clientCount>> /\ Len(arrived) \in Nat
      /\ Len(air) \in Nat /\ delay \in Nat
  BY ReceivesStep, ExperimentAssumption DEF ExperimentTypeOK
<1>2. PausedAfter(n)' = PausedAfter(n)
  BY <1>1 DEF PausedAfter, ArrivalOf, PauseAt
<1>3. now <= ArrivalOf(n)
  <2>1. Len(air) # 0 /\ Head(air) = air[1]
    BY ReceivesStep DEF ExperimentTypeOK
  <2>2. 1 \in 1 .. Len(air)
    BY <1>1, <2>1
  <2>3. air[1].at = ArrivalOf(n)
    BY <2>2 DEF InTime
  <2> QED BY <2>1, <2>3 DEF ServerReceives, IsNext
<1>4. PausedAfter(n) = {}
  <2> SUFFICES ASSUME NEW s \in PausedAfter(n) PROVE FALSE
    OBVIOUS
  <2>1. s \in Nat /\ ArrivalOf(n) < PauseAt(s) /\ PauseAt(s) <= now
    BY DEF PausedAfter, InTime
  <2>2. PauseAt(s) \in Nat /\ now \in Nat /\ ArrivalOf(n) \in Int
    BY <1>1, <2>1, PauseTimes, ArrivalTimes DEF InTime
  <2> QED BY <1>3, <2>1, <2>2
<1>5. Sleep * Cardinality(PausedAfter(n)) = 0
  <2>1. Cardinality(PausedAfter(n)) = 0
    BY <1>4, FS_EmptySet, Zenon
  <2>2. Sleep * 0 = 0
    BY ExperimentAssumption
  <2> QED BY <2>1, <2>2, Zenon
<1>6. PICK cost \in EventCosts : wall' = wall + cost
  BY ReceivesStep
<1>7. 0 <= (wall + cost) - (wall + cost)
  BY <1>6, MaxCostType DEF ExperimentTypeOK
<1>8. Slept(n)' <=> Sleep * Cardinality(PausedAfter(n)') <= wall' - m_first_t'
  BY DEF Slept
<1> QED BY <1>2, <1>5, <1>6, <1>7, <1>8, Zenon

\* Not more packets arrive than the client has to send.
LEMMA AtMostPlanned ==
  ASSUME IInv, EInv, SameCount, m_count # 0, ServerReceives
  PROVE  Len(arrived) + 1 <= 2 * m_count + 1
<1>1. Len(air) # 0
  BY ReceivesStep DEF EInv, ExperimentTypeOK
<1> QED BY <1>1, PlanFits DEF EInv

LEMMA SleptWindowsStep ==
  ASSUME IInv, EInv, InTime, SleptWindows, [Next]_vars
  PROVE  SleptWindows'
<1> USE DEF EInv
<1>1. /\ otherStarts' = otherStarts /\ clientCount' = clientCount /\ delay' = delay
      /\ serverMaxPackets' = serverMaxPackets
      /\ losses' = 0 => losses = 0
  BY SettingKept
<1>2. /\ (SameCount' <=> SameCount) /\ m_count' = m_count
      /\ PausesWithin(1, m_count)' = PausesWithin(1, m_count)
      /\ PausesWithin(m_count + 1, 2 * m_count)' = PausesWithin(m_count + 1, 2 * m_count)
  BY <1>1 DEF SameCount, m_count, PausesWithin, ArrivalOf, PauseAt
<1> DEFINE low == Sleep * PausesWithin(1, m_count)
           high == Sleep * PausesWithin(m_count + 1, 2 * m_count)
<1> SUFFICES ASSUME SameCount, m_count >= 2, losses = 0
             PROVE  /\ ~receivedAllLowEntropy' /\ Len(arrived') >= 1 => Slept(1)'
                    /\ receivedAllLowEntropy' => low <= m_duration_l'
                    /\ receivedAllLowEntropy' /\ Len(arrived') > m_count
                          /\ Len(arrived') < 2 * m_count => Slept(m_count + 1)'
                    /\ Len(arrived') >= 2 * m_count => high <= m_duration_h'
  <2>1. \A n : Slept(n + 1)' <=> Sleep * Cardinality(PausedAfter(n + 1)') <= wall' - m_first_t'
    BY DEF Slept
  <2> QED BY <1>1, <1>2 DEF SleptWindows, Slept, PausedAfter, ArrivalOf, PauseAt
<1>3. /\ ~receivedAllLowEntropy /\ Len(arrived) >= 1 => Slept(1)
      /\ receivedAllLowEntropy => low <= m_duration_l
      /\ receivedAllLowEntropy /\ Len(arrived) > m_count /\ Len(arrived) < 2 * m_count =>
           Slept(m_count + 1)
      /\ Len(arrived) >= 2 * m_count => high <= m_duration_h
  BY DEF SleptWindows
<1> HIDE DEF low, high
<1>4. /\ m_count \in 0 .. U16 - 1 /\ U16 \in Nat /\ 1 < U16 /\ TrainLength = m_count
      /\ m_count + 1 \in Nat /\ 2 * m_count \in Nat /\ 1 \in Nat /\ m_count # 1
  BY CountType DEF ExperimentTypeOK
<1>5. Len(arrived) \in Nat /\ Len(arrived) <= 2 * m_count + 1
  BY <1>4, PlanFits
<1>6. PICK n \in Nat : n = m_count + 1
  BY <1>4
<1>7. Slept(m_count + 1)' <=> Slept(n)'
  BY <1>2, <1>6 DEF Slept, PausedAfter, ArrivalOf
<1>8. CASE StartBoth \/ StopBoth \/ UNCHANGED vars
  <2>1. UNCHANGED <<receivedAllLowEntropy, m_first_t, m_duration_l, m_duration_h, wall,
                    delay, otherStarts, pauses, arrived, clientCount>>
    BY <1>8, QuietStep
  <2>2. (Slept(1)' <=> Slept(1)) /\ (Slept(m_count + 1)' <=> Slept(m_count + 1))
    BY <1>2, <2>1 DEF Slept, PausedAfter, ArrivalOf, PauseAt
  <2> QED BY <1>3, <2>1, <2>2
<1>9. CASE OtherClientPauses
  <2>1. UNCHANGED <<receivedAllLowEntropy, m_duration_l, m_duration_h, arrived>>
    BY <1>9, PauseStep
  <2>2. (Slept(1) => Slept(1)') /\ (Slept(n) => Slept(n)')
    BY <1>9, SleptPauses
  <2> QED BY <1>3, <1>6, <1>7, <2>1, <2>2
<1>10. CASE ClientSends
  <2>1. UNCHANGED <<receivedAllLowEntropy, m_first_t, m_duration_l, m_duration_h, arrived,
                    delay, otherStarts, pauses, clientCount>>
    BY <1>10, SendsStep
  <2>2. \E cost \in Nat : wall' = wall + cost
    <3>1. PICK cost \in EventCosts : wall' = wall + cost + IF PhaseEnds THEN Sleep ELSE 0
      BY <1>10, SendsStep
    <3>2. cost \in Nat /\ Sleep \in Nat /\ wall \in Nat
      BY ExperimentAssumption DEF ExperimentTypeOK
    <3>3. wall' = wall + (cost + IF PhaseEnds THEN Sleep ELSE 0)
      BY <3>1, <3>2
    <3>4. cost + (IF PhaseEnds THEN Sleep ELSE 0) \in Nat
      BY <3>2
    <3> QED BY <3>3, <3>4
  <2>3. (Slept(1) => Slept(1)') /\ (Slept(n) => Slept(n)')
    BY <2>1, <2>2, SleptOn
  <2> QED BY <1>3, <1>6, <1>7, <2>1, <2>3
<1>11. CASE ServerReceives
  <2>1. UNCHANGED <<delay, otherStarts, pauses, clientCount>>
    BY <1>11, ReceivesStep
  <2>2. Len(arrived') = Len(arrived) + 1
    BY <1>11, CountsOneMore
  <2>3. \E cost \in Nat : wall' = wall + cost
    BY <1>11, ReceivesStep, ExperimentAssumption
  <2>4. m_first_t' = m_first_t => (Slept(1) => Slept(1)') /\ (Slept(n) => Slept(n)')
    BY <2>1, <2>3, SleptOn
  <2>5. CASE ~receivedAllLowEntropy
    <3>1. /\ Len(arrived) + 1 < TrainLength =>
               receivedAllLowEntropy' = FALSE /\ m_received_l' = Len(arrived) + 1
          /\ Len(arrived) + 1 = TrainLength => receivedAllLowEntropy' = TRUE
      BY <1>4, <1>11, <2>5, CountsOneMore
    <3>2. /\ m_first_t' = IF m_received_l' = 1 THEN wall' ELSE m_first_t
          /\ m_duration_l' = IF receivedAllLowEntropy' THEN wall' - m_first_t ELSE m_duration_l
      BY <1>11, <2>5, ReceivesStep
    <3>3. Len(arrived) < m_count
      BY <1>4, <2>5 DEF Counting
    <3>4. ~(Len(arrived') > m_count) /\ ~(Len(arrived') >= 2 * m_count)
      BY <1>4, <1>5, <2>2, <3>3
    <3>5. CASE Len(arrived) + 1 < m_count
      <4>1. receivedAllLowEntropy' = FALSE /\ m_received_l' = Len(arrived) + 1
        BY <1>4, <3>1, <3>5
      <4>2. Slept(1)'
        <5>1. CASE Len(arrived) = 0
          <6>1. m_first_t' = wall' /\ 1 = Len(arrived) + 1
            BY <3>2, <4>1, <5>1
          <6> QED BY <1>4, <1>11, <6>1, SleptOpens
        <5>2. CASE Len(arrived) >= 1
          <6>1. m_first_t' = m_first_t
            BY <1>5, <3>2, <4>1, <5>2
          <6> QED BY <1>3, <2>4, <2>5, <5>2, <6>1
        <5> QED BY <1>5, <5>1, <5>2
      <4> QED BY <3>4, <4>1, <4>2
    <3>6. CASE Len(arrived) + 1 = m_count
      <4>1. receivedAllLowEntropy' = TRUE
        BY <1>4, <3>1, <3>6
      <4>2. Slept(1)
        BY <1>3, <1>4, <1>5, <2>5, <3>6
      <4>3. Sleep * PausesWithin(1, m_count) <= wall' - m_first_t
        BY <1>4, <1>11, <3>6, <4>2, SleptMeasured
      <4>4. low <= m_duration_l'
        BY <3>2, <4>1, <4>3, Zenon DEF low
      <4> QED BY <3>4, <4>1, <4>4
    <3> QED BY <1>4, <1>5, <3>3, <3>5, <3>6
  <2>6. CASE receivedAllLowEntropy
    <3>1. /\ receivedAllLowEntropy' = TRUE /\ m_duration_l' = m_duration_l
          /\ m_first_t' = IF m_received_h' = 1 THEN wall' ELSE m_first_t
          /\ m_duration_h' = IF Finishes(m_received_h') THEN wall' - m_first_t
                                                       ELSE m_duration_h
      BY <1>11, <2>6, ReceivesStep
    <3>2. Len(arrived) >= m_count
      BY <1>4, <2>6 DEF Counting
    <3>3. CASE Len(arrived) + 1 < 2 * m_count
      <4>1. m_received_h' = (Len(arrived) + 1) - m_count
        BY <1>4, <1>11, <2>6, <3>3, CountsOneMore
      <4>2. Slept(n)'
        <5>1. CASE Len(arrived) = m_count
          <6>1. m_received_h' = 1 /\ n = Len(arrived) + 1
            BY <1>4, <1>5, <1>6, <4>1, <5>1
          <6>2. m_first_t' = wall'
            BY <3>1, <6>1
          <6> QED BY <1>11, <6>1, <6>2, SleptOpens
        <5>2. CASE Len(arrived) > m_count
          <6>1. m_received_h' # 1 /\ Len(arrived) < 2 * m_count
            BY <1>4, <1>5, <3>3, <4>1, <5>2
          <6>2. m_first_t' = m_first_t
            BY <3>1, <6>1
          <6> QED BY <1>3, <1>6, <2>4, <2>6, <5>2, <6>1, <6>2
        <5> QED BY <1>4, <1>5, <3>2, <5>1, <5>2
      <4>3. ~(Len(arrived') >= 2 * m_count)
        BY <1>4, <1>5, <2>2, <3>3
      <4> QED BY <1>3, <1>7, <2>6, <3>1, <4>2, <4>3
    <3>4. CASE Len(arrived) + 1 = 2 * m_count
      <4>1. m_received_h' = m_count
        BY <1>4, <1>11, <2>6, <3>4, CountsOneMore
      <4>2. m_duration_h' = wall' - m_first_t
        BY <1>4, <3>1, <4>1 DEF Finishes
      <4>3. Slept(n)
        BY <1>3, <1>4, <1>5, <1>6, <2>6, <3>4
      <4>4. Sleep * PausesWithin(n, 2 * m_count) <= wall' - m_first_t
        BY <1>4, <1>11, <3>4, <4>3, SleptMeasured
      <4>5. high <= m_duration_h'
        BY <1>6, <4>2, <4>4, Zenon DEF high
      <4>6. ~(Len(arrived') < 2 * m_count)
        BY <1>4, <1>5, <2>2, <3>4
      <4> QED BY <1>3, <2>6, <3>1, <4>5, <4>6
    <3>5. CASE Len(arrived) + 1 > 2 * m_count
      <4>1. Len(arrived) = 2 * m_count /\ ~(Len(arrived') < 2 * m_count)
        BY <1>4, <1>5, <2>2, <3>5, <1>11, AtMostPlanned
      <4>2. m_received_h' # m_count
        BY <1>4, <1>11, <2>6, <4>1, CountsOneMore
      <4>3. m_duration_h' = m_duration_h
        BY <3>1, <4>2 DEF Finishes
      <4> QED BY <1>3, <1>4, <2>6, <3>1, <4>1, <4>3
    <3> QED BY <1>4, <1>5, <3>3, <3>4, <3>5
  <2> QED BY <2>5, <2>6
<1> QED BY <1>8, <1>9, <1>10, <1>11 DEF Next

-----------------------------------------------------------------------------
(* The verdict *)

\* When all packets have arrived or are lost, the second train is measured exactly
\* if one of them at most is lost.
LEMMA AllAccountedFor ==
  ASSUME EInv, Measurable, Len(arrived) + losses = 2 * m_count + 1
  PROVE  m_received_h >= m_count <=> losses <= 1
<1>1. /\ m_count \in 2 .. U16 - 2 /\ U16 \in Nat /\ TrainLength = m_count
      /\ SameCount /\ m_received_h \in Nat
  BY CountType DEF EInv, ExperimentTypeOK, Measurable
<1>2. Len(arrived) \in Nat /\ losses \in Nat
  BY DEF EInv, ExperimentTypeOK
<1>3. CASE losses = 0
  <2>1. Len(arrived) = 2 * m_count + 1 /\ Len(arrived) >= m_count
    BY <1>1, <1>2, <1>3
  <2>2. m_received_h = (m_count + 1) % U16
    BY <1>1, <2>1 DEF EInv, Counting
  <2>3. (m_count + 1) % U16 = m_count + 1
    BY <1>1, NextCount
  <2> QED BY <1>1, <1>3, <2>2, <2>3
<1>4. CASE losses = 1
  <2>1. Len(arrived) = 2 * m_count /\ Len(arrived) >= m_count
    BY <1>1, <1>2, <1>4
  <2>2. m_received_h = m_count
    BY <1>1, <2>1 DEF EInv, Counting
  <2> QED BY <1>1, <1>4, <2>2
<1>5. CASE losses >= 2
  <2>1. Len(arrived) < 2 * m_count
    BY <1>1, <1>2, <1>5
  <2>2. m_received_h < m_count
    <3>1. receivedAllLowEntropy => m_received_h = Len(arrived) - m_count
      BY <1>1, <2>1 DEF EInv, Counting
    <3>2. ~receivedAllLowEntropy => m_received_h = 0
      BY DEF EInv, Counting
    <3> QED BY <1>1, <1>2, <2>1, <3>1, <3>2
  <2> QED BY <1>1, <1>2, <1>5, <2>2
<1> QED BY <1>2, <1>3, <1>4, <1>5

LEMMA LastArrivalStep ==
  ASSUME IInv, EInv, InTime, LastArrival, [Next]_vars
  PROVE  LastArrival'
<1> USE DEF EInv
<1>1. /\ delay \in Nat /\ Len(sent) \in Nat /\ Len(air) \in Nat
      /\ ClientStart \in Nat /\ Interval \in Nat
  BY ExperimentAssumption DEF ExperimentTypeOK, IInv, ClientTypeOK
<1>2. \A n : ArrivalOf(n)' = ArrivalOf(n)
  BY TimePasses DEF ArrivalOf
<1> DEFINE Airborne == [packet : Payloads, at : Nat]
<1>3. air \in Seq(Airborne)
  BY DEF ExperimentTypeOK
<1>4. CASE StartBoth \/ StopBoth \/ UNCHANGED vars
  BY <1>2, <1>4, QuietStep DEF LastArrival
<1>5. CASE OtherClientPauses
  BY <1>2, <1>5, PauseStep DEF LastArrival
<1>6. CASE ClientSends
  <2>1. Len(sent') = Len(sent) + 1
    BY <1>6, SendAppends DEF IInv, ClientSends
  <2>2. /\ ArrivalOf(Len(sent) + 1) = sendAt + delay
        /\ ArrivalOf(Len(sent)) <= ArrivalOf(Len(sent) + 1)
        /\ ArrivalOf(Len(sent)) \in Int /\ ArrivalOf(Len(sent) + 1) \in Int
    <3>1. /\ ArrivalOf(Len(sent)) \in Int
          /\ ArrivalOf(Len(sent) + 1) = (ClientStart + Len(sent) * Interval) + delay
          /\ ArrivalOf(Len(sent) + 1) = ArrivalOf(Len(sent)) + Interval
      BY <1>1, ArrivalTimes
    <3> QED BY <1>1, <3>1 DEF InTime
  <2>3. ASSUME NEW i \in 1 .. Len(air) PROVE air[i].at <= ArrivalOf(Len(sent) + 1)
    <3>1. air[i].at \in Nat
      <4> HIDE DEF Airborne
      <4>1. air[i] \in Airborne
        BY <1>3, <2>3
      <4> QED BY <4>1 DEF Airborne
    <3> QED BY <2>2, <2>3, <3>1 DEF LastArrival
  <2>4. CASE air' = air
    BY <1>2, <2>1, <2>3, <2>4 DEF LastArrival
  <2>5. CASE air' = Append(air, [packet |-> NextPacket, at |-> sendAt + delay])
    <3> DEFINE flying == [packet |-> NextPacket, at |-> sendAt + delay]
    <3>1. flying \in Airborne /\ flying.at = sendAt + delay /\ air' = Append(air, flying)
      BY <1>6, <2>5, SendsStep
    <3> HIDE DEF flying, Airborne
    <3>2. /\ Len(air') = Len(air) + 1 /\ air'[Len(air) + 1] = flying
          /\ \A i \in 1 .. Len(air) : air'[i] = air[i]
      BY <1>3, <3>1
    <3>3. flying.at <= ArrivalOf(Len(sent) + 1)
      BY <2>2, <3>1
    <3>4. \A i \in 1 .. Len(air) + 1 : i \in 1 .. Len(air) \/ i = Len(air) + 1
      BY <1>1
    <3>5. \A i \in 1 .. Len(air) + 1 : air'[i].at <= ArrivalOf(Len(sent) + 1)
      BY <2>3, <3>2, <3>3, <3>4, Zenon
    <3> QED BY <1>2, <2>1, <3>2, <3>5 DEF LastArrival
  <2> QED BY <1>6, <2>4, <2>5, SendsStep
<1>7. CASE ServerReceives
  <2>1. sent' = sent /\ air # <<>> /\ air' = Tail(air)
    BY <1>7, ReceivesStep
  <2> HIDE DEF Airborne
  <2>2. Len(air') = Len(air) - 1 /\ \A i \in 1 .. Len(air) - 1 : air'[i] = air[i + 1]
    BY <1>3, <2>1
  <2>3. \A i \in 1 .. Len(air) - 1 : i + 1 \in 1 .. Len(air)
    BY <1>1
  <2> QED BY <1>2, <2>1, <2>2, <2>3 DEF LastArrival
<1> QED BY <1>4, <1>5, <1>6, <1>7 DEF Next

\* Before the applications are stopped, everything that is due before StopTime has
\* happened.
LEMMA StopsAfterAll ==
  ASSUME IInv, EInv, InTime, LastArrival, StopBoth, Measurable,
         ArrivalOf(2 * m_count + 1) < StopTime
  PROVE  Len(arrived) + losses = 2 * m_count + 1
<1> USE DEF EInv
<1>1. /\ m_count \in Nat /\ m_count # 0 /\ SameCount
  BY ServerAssumption DEF Measurable
<1>2. /\ Len(sent) \in Nat /\ Len(arrived) \in Nat /\ Len(air) \in Nat /\ losses \in Nat
      /\ Planned = 2 * m_count + 1 /\ Len(sent) <= Planned
      /\ Len(sent) = Len(arrived) + Len(air) + losses
  BY <1>1, PlanFits
<1>3. /\ delay \in Nat /\ Interval \in Nat /\ ClientStart \in Nat /\ StopTime \in Nat
      /\ 2 * m_count \in Nat /\ sendAt \in Nat
  BY <1>1, ExperimentAssumption DEF ExperimentTypeOK
<1>4. IsNext(StopTime) /\ application = "running"
  BY DEF StopBoth, StopApplication
<1>5. Len(sent) = 2 * m_count + 1
  <2> SUFFICES ASSUME Len(sent) < Planned PROVE FALSE
    BY <1>2, <1>3
  <2>1. m_sendEvent = "pending"
    <3>1. Ends
      BY <1>1, PlanFits DEF Ends, ReachesPause
    <3> QED BY <1>4, <3>1 DEF IInv, Plan
  <2>2. StopTime <= sendAt
    BY <1>4, <2>1 DEF IsNext
  <2>3. /\ ArrivalOf(Len(sent) + 1) = sendAt + delay
        /\ ArrivalOf(Len(sent) + 1) <= ArrivalOf(2 * m_count + 1)
    <3>1. ArrivalOf(Len(sent) + 1) = (ClientStart + Len(sent) * Interval) + delay
      BY <1>2, <1>3, ArrivalTimes
    <3>2. Len(sent) + 1 \in Nat /\ 2 * m_count + 1 \in Nat /\ Len(sent) + 1 <= 2 * m_count + 1
      BY <1>2, <1>3
    <3>3. ArrivalOf(Len(sent) + 1) <= ArrivalOf(2 * m_count + 1)
      BY <1>3, <3>2, ArrivalsGrow
    <3> QED BY <3>1, <3>3 DEF InTime
  <2>4. ArrivalOf(2 * m_count + 1) \in Int
    BY <1>3, ArrivalTimes
  <2> QED BY <1>3, <2>2, <2>3, <2>4
<1>6. Len(air) = 0
  <2> SUFFICES ASSUME Len(air) # 0 PROVE FALSE
    OBVIOUS
  <2>1. air # <<>> /\ Head(air) = air[1] /\ 1 \in 1 .. Len(air) /\ air[1].at \in Nat
    <3> DEFINE Airborne == [packet : Payloads, at : Nat]
    <3>1. air \in Seq(Airborne)
      BY DEF ExperimentTypeOK
    <3> HIDE DEF Airborne
    <3>2. air # <<>> /\ Head(air) = air[1] /\ 1 \in 1 .. Len(air) /\ air[1] \in Airborne
      BY <1>2, <3>1
    <3> QED BY <3>2 DEF Airborne
  <2>2. StopTime <= air[1].at
    BY <1>4, <2>1 DEF IsNext
  <2>3. air[1].at <= ArrivalOf(2 * m_count + 1)
    BY <1>5, <2>1 DEF LastArrival
  <2>4. ArrivalOf(2 * m_count + 1) \in Int
    BY <1>3, ArrivalTimes
  <2> QED BY <1>3, <2>1, <2>2, <2>3, <2>4
<1> QED BY <1>2, <1>5, <1>6

LEMMA VerdictStep ==
  ASSUME IInv, EInv, InTime, VInv, [Next]_vars
  PROVE  VerdictAtEnd' /\ MeasuredInTime'
<1> USE DEF EInv, VInv
<1>1. CASE verdict' = "none"
  BY <1>1 DEF VerdictAtEnd, MeasuredInTime
<1>2. CASE UNCHANGED <<verdict, server, application, serverMaxPackets, clientCount, delay,
                       m_received_h, m_duration_l, m_duration_h, losses>>
  <2>1. VerdictAtEnd'
    BY <1>2 DEF VerdictAtEnd, Detects
  <2>2. MeasuredInTime'
    BY <1>2 DEF VInv, MeasuredInTime, Measurable, SameCount, m_count, ArrivalOf
  <2> QED BY <2>1, <2>2
<1>3. CASE StartBoth
  <2>1. server = "created" /\ verdict' = verdict
    BY <1>3 DEF StartBoth, ServerStart
  <2> QED BY <1>1, <2>1 DEF VerdictAtEnd
<1>4. CASE ClientSends
  <2>1. verdict' = verdict /\ m_sendEvent = "pending"
    BY <1>4, SendsStep DEF ClientSends, Send
  <2>2. application = "running"
    BY <2>1 DEF IInv, Life
  <2> QED BY <1>1, <2>1, <2>2 DEF VerdictAtEnd
<1>5. CASE OtherClientPauses
  BY <1>2, <1>5, PauseStep DEF OtherClientPauses, clientvars, servervars
<1>6. CASE ServerReceives
  <2>1. server = "running" /\ verdict' = verdict
    BY <1>6, ReceivesStep DEF ServerReceives, HandleRead, HandleLow, HandleHigh
  <2> QED BY <1>1, <2>1 DEF VerdictAtEnd
<1>7. CASE StopBoth
  <2>1. /\ server' = "stopped" /\ application' = "stopped"
        /\ verdict' = "detected" => Detects
    BY <1>7 DEF StopBoth, ServerStop, StopApplication
  <2>2. UNCHANGED <<serverMaxPackets, m_received_h, m_duration_l, m_duration_h, losses,
                    clientCount, delay>>
    BY <1>7, QuietStep
  <2>3. Measurable /\ ArrivalOf(2 * m_count + 1) < StopTime =>
          (m_received_h >= m_count <=> losses <= 1)
    BY <1>7, StopsAfterAll, AllAccountedFor
  <2>4. MeasuredInTime'
    BY <2>2, <2>3 DEF MeasuredInTime, Measurable, SameCount, m_count, ArrivalOf
  <2>5. VerdictAtEnd'
    BY <2>1, <2>2 DEF VerdictAtEnd, Detects
  <2> QED BY <2>4, <2>5
<1>8. CASE UNCHANGED vars
  BY <1>2, <1>8 DEF vars, clientvars, servervars, setting, countVars, clockVars
<1> QED BY <1>3, <1>4, <1>5, <1>6, <1>7, <1>8 DEF Next

-----------------------------------------------------------------------------
(* Theorems *)

LEMMA ExperimentInvariant == Spec => [](IInv /\ EInv)
<1>1. IInv /\ EInv /\ [Next]_vars => EInv'
  BY TypeStep, CountingStep, DurationStep, TravellingStep, NeverFilledStep, NoPausesStep,
     SecondWindowStep DEF EInv
<1> QED BY ClientInvariant, EInvInit, <1>1, PTL DEF Spec

LEMMA TimeInvariant == Spec => [](IInv /\ EInv /\ TInv)
<1>1. Init /\ EInv /\ IInv => TInv
  <2> SUFFICES ASSUME Init, EInv, IInv PROVE TInv
    OBVIOUS
  <2>1. /\ now = 0 /\ sendAt = ClientStart /\ pauses = {PauseAt(s) : s \in otherStarts}
        /\ otherStarts \in OtherStartSets /\ air = <<>> /\ arrived = <<>> /\ sent = <<>>
        /\ receivedAllLowEntropy = FALSE /\ m_duration_l = 0 /\ m_duration_h = 0
        /\ delay \in Delays
    BY DEF Init, ClientInit, ServerInit
  <2>2. Len(air) = 0 /\ Len(arrived) = 0 /\ Len(sent) = 0
    BY <2>1
  <2>3. otherStarts \subseteq Nat /\ ClientStart \in Nat /\ Interval \in Nat
    BY <2>1, ExperimentAssumption
  <2>4. \A t \in pauses : now <= t
    BY <2>1, <2>3, PauseTimes
  <2>5. 0 \in Nat /\ ClientStart = ClientStart + 0 * Interval
    BY <2>3
  <2>6. InTime
    BY <2>1, <2>2, <2>3, <2>4, <2>5 DEF InTime
  <2>7. InStep
    BY <2>2 DEF InStep
  <2>8. BothWindows
    <3> SUFFICES ASSUME SameCount, m_count >= 2
                 PROVE  /\ 0 <= WorkOf(m_count) + Sleep * PausesBetween(1, m_count)
                        /\ 0 <= WorkOf(m_count)
                                  + Sleep * PausesBetween(m_count + 1, 2 * m_count)
      BY <2>1, <2>2 DEF BothWindows
    <3>1. m_count \in Nat /\ m_count >= 1 /\ 2 * m_count \in Nat /\ 2 * m_count >= 1
      BY CountType DEF EInv, ExperimentTypeOK
    <3> DEFINE p == PausesBetween(1, m_count)  q == PausesBetween(m_count + 1, 2 * m_count)
    <3>2. p \in Nat /\ q \in Nat /\ WorkOf(m_count) \in Nat
      BY <2>6, <3>1, PausesBetweenType, WorkType DEF EInv
    <3> HIDE DEF p, q
    <3>3. Sleep * p \in Nat /\ Sleep * q \in Nat
      BY <3>2, SleepsOf
    <3>4. 0 <= WorkOf(m_count) + Sleep * p /\ 0 <= WorkOf(m_count) + Sleep * q
      BY <3>2, <3>3
    <3> QED BY <3>4 DEF p, q
  <2> QED BY <2>6, <2>7, <2>8 DEF TInv
<1>2. IInv /\ EInv /\ TInv /\ [Next]_vars => TInv'
  BY InTimeStep, InStepStep, BothWindowsStep DEF TInv
<1> QED BY ExperimentInvariant, <1>1, <1>2, PTL DEF Spec

LEMMA VerdictInvariant == Spec => [](IInv /\ EInv /\ TInv /\ VInv)
<1>1. Init => VInv
  <2> SUFFICES ASSUME Init PROVE VInv
    OBVIOUS
  <2>1. air = <<>> /\ Len(air) = 0 /\ verdict = "none"
    BY DEF Init, ServerInit
  <2> QED BY <2>1 DEF VInv, LastArrival, VerdictAtEnd, MeasuredInTime
<1>2. IInv /\ EInv /\ TInv /\ VInv /\ [Next]_vars => VInv'
  BY LastArrivalStep, VerdictStep DEF VInv, TInv
<1> QED BY TimeInvariant, <1>1, <1>2, PTL DEF Spec

\* HandleRead ends the first train after m_count packets, and after none if m_count
\* is 1: its branch for the first packet of a train comes before that for the last.
THEOREM TrainsByLength == Spec => []FirstTrainEnds
<1>1. EInv => FirstTrainEnds
  <2> SUFFICES ASSUME EInv PROVE FirstTrainEnds
    OBVIOUS
  <2>1. receivedAllLowEntropy \in BOOLEAN /\ TrainLength \in Nat /\ Len(arrived) \in Nat
    BY CountType DEF EInv, ExperimentTypeOK
  <2> QED BY <2>1 DEF EInv, Counting, FirstTrainEnds
<1> QED BY ExperimentInvariant, <1>1, PTL

\* StopApplication prints the positive verdict only if HandleRead has set
\* m_duration_h, at the end of the second train.
THEOREM VerdictNeedsBothTrains == Spec => []DetectedIsMeasured
<1>1. EInv => DetectedIsMeasured
  BY DEF EInv, DurationWhenMeasured
<1> QED BY ExperimentInvariant, <1>1, PTL

\* The client's extra low-entropy packet makes the server's two trains of the same
\* length: at most one of all packets may be missing.
THEOREM OneLossIsTolerated == Spec => []OneLossTolerated
<1>1. IInv /\ EInv => OneLossTolerated
  <2> SUFFICES ASSUME IInv, EInv, Measurable, Over
               PROVE  m_received_h >= m_count <=> losses <= 1
    BY DEF OneLossTolerated
  <2>1. m_count \in Nat /\ m_count # 0 /\ SameCount
    BY ServerAssumption DEF Measurable
  <2>2. /\ Len(sent) = Len(arrived) + Len(air) + losses /\ Len(arrived) \in Nat
        /\ losses \in Nat /\ Planned = IF m_count = 0 THEN 2 ELSE 2 * m_count + 1
    BY <2>1, PlanFits DEF EInv
  <2>3. Len(sent) = Planned /\ Len(air) = 0
    BY <2>1, PlanFits DEF EInv
  <2>4. Len(arrived) + losses = 2 * m_count + 1
    BY <2>1, <2>2, <2>3
  <2> QED BY <2>4, AllAccountedFor
<1> QED BY ExperimentInvariant, <1>1, PTL

\* A verdict that is printed after the last packet's arrival rests on two measured
\* trains exactly if at most one packet was lost: the applications are stopped by an
\* event that comes after all those due before StopTime.
THEOREM VerdictIsMeasured == Spec => []MeasuredInTime
<1>1. VInv => MeasuredInTime
  BY DEF VInv
<1> QED BY VerdictInvariant, <1>1, PTL

\* That extra packet is the last of the first train, and it is the first that the
\* server takes for the second: every packet after it is a row.
THEOREM SparePacketFirst == Spec => []SparePacketOpensWindow
<1>1. IInv /\ EInv => SparePacketOpensWindow
  <2> SUFFICES ASSUME IInv, EInv, SameCount, losses = 0, Len(arrived) > m_count
               PROVE  /\ arrived[m_count + 1].from = "lowPackets"
                      /\ \A i \in m_count + 2 .. Len(arrived) : arrived[i].from = "row"
    BY DEF SparePacketOpensWindow
  <2>1. /\ m_count \in Nat /\ Len(arrived) \in Nat /\ Len(sent) \in Nat
        /\ Len(arrived) <= Len(sent) /\ clientCount = m_count /\ ReachesPause
    BY PlanFits DEF EInv
  <2>2. sent # <<>> /\ sent[1].from = "lowPackets"
    <3>1. sent # <<>>
      BY <2>1
    <3> QED BY <3>1 DEF EInv, NeverFilled, Unfilled
  <2>3. \A i \in 1 .. Len(sent) :
          sent[i].from = IF i > m_count + 1 THEN "row" ELSE "lowPackets"
    BY <2>1, <2>2 DEF IInv, Sources
  <2>4. \A i \in 1 .. Len(arrived) : arrived[i] = sent[i]
    BY DEF EInv, Travelling
  <2>5. \A i \in 1 .. Len(arrived) :
          arrived[i].from = IF i > m_count + 1 THEN "row" ELSE "lowPackets"
    BY <2>1, <2>3, <2>4
  <2> QED BY <2>1, <2>5
<1> QED BY ExperimentInvariant, <1>1, PTL

\* The sleep in Send falls before the packet that opens the second window, whatever
\* the network does: it cannot lengthen m_duration_h.
THEOREM PauseNotInSecondWindow == Spec => []PauseNeverDetected
<1>1. IInv /\ EInv => PauseNeverDetected
  <2> SUFFICES ASSUME IInv, EInv, SameCount, otherStarts = {}
               PROVE  m_duration_h <= WorkOf(m_count)
    BY DEF PauseNeverDetected
  <2>1. m_count \in Nat /\ WorkOf(m_count) \in Nat
    <3>1. m_count \in Nat
      BY CountType DEF EInv, ExperimentTypeOK
    <3> QED BY <3>1, WorkType
  <2>2. CASE m_count >= 2
    BY <2>2 DEF EInv, SecondWindow
  <2>3. CASE m_count = 1
    <3>1. ~receivedAllLowEntropy
      BY <2>3 DEF EInv, Counting
    <3>2. m_duration_h = 0
      BY <3>1 DEF EInv, DurationWhenMeasured
    <3> QED BY <2>1, <3>2
  <2>4. CASE m_count = 0
    <3>1. Len(arrived) \in Nat /\ Len(arrived) <= 2
      BY <2>4, PlanFits DEF EInv
    <3>2. U16 \in Nat /\ 1 < U16 /\ TrainLength = U16
      BY <2>4, CountType DEF EInv, ExperimentTypeOK
    <3>3. ~(Len(arrived) >= 2 * TrainLength)
      BY <3>1, <3>2
    <3>4. m_duration_h = 0
      BY <3>3 DEF EInv, DurationWhenMeasured
    <3> QED BY <2>1, <3>4
  <2> QED BY <2>1, <2>2, <2>3, <2>4
<1> QED BY ExperimentInvariant, <1>1, PTL

\* Where nothing is lost and the path is short, the sleep in Send lengthens neither
\* duration: each is at most the host's work and the other clients' sleeps.
THEOREM OwnPauseNotMeasured == Spec => []OwnPauseInNoWindow
<1>1. TInv => OwnPauseInNoWindow
  <2> SUFFICES ASSUME TInv, Measurable, losses = 0, delay < Interval
               PROVE  /\ m_duration_l <= WorkOf(m_count) + Sleep * PausesBetween(1, m_count)
                      /\ m_duration_h <= WorkOf(m_count)
                                           + Sleep * PausesBetween(m_count + 1, 2 * m_count)
    BY DEF OwnPauseInNoWindow
  <2>1. SameCount /\ m_count >= 2
    BY ServerAssumption DEF Measurable
  <2> QED BY <2>1 DEF TInv, BothWindows
<1> QED BY TimeInvariant, <1>1, PTL

\* Every sleep of another client that falls into a window is measured with it.  What
\* the difference of the durations shows of them, and so the verdict, is by how much
\* those of the one window outnumber those of the other.
THEOREM OtherPausesMeasured == Spec => []PausesCancel
<1>1. Init => SleptWindows
  <2> SUFFICES ASSUME Init PROVE SleptWindows
    OBVIOUS
  <2>1. Len(arrived) = 0 /\ receivedAllLowEntropy = FALSE
    BY DEF Init, ServerInit
  <2>2. m_count \in Int
    BY CountType DEF Init, ServerInit
  <2> QED BY <2>1, <2>2 DEF SleptWindows
<1>2. IInv /\ EInv /\ TInv /\ SleptWindows /\ [Next]_vars => SleptWindows'
  BY SleptWindowsStep DEF TInv
<1>3. IInv /\ EInv /\ TInv /\ SleptWindows => PausesCancel
  <2> SUFFICES ASSUME IInv, EInv, TInv, SleptWindows, Measurable, losses = 0,
                      m_received_h >= m_count
               PROVE  PausesCancel
    BY DEF PausesCancel
  <2> USE DEF EInv, TInv
  <2>1. /\ SameCount /\ m_count \in Nat /\ m_count >= 2 /\ TrainLength = m_count
        /\ 2 * m_count \in Nat /\ Len(arrived) \in Nat
    BY CountType DEF ExperimentTypeOK, Measurable
  <2>2. receivedAllLowEntropy /\ Len(arrived) >= 2 * m_count
    <3>1. receivedAllLowEntropy
      BY <2>1 DEF Counting, ExperimentTypeOK
    <3> QED BY <2>1, <3>1 DEF Counting
  <2> DEFINE l1 == PausesWithin(1, m_count)    l2 == PausesBetween(1, m_count)
             h1 == PausesWithin(m_count + 1, 2 * m_count)
             h2 == PausesBetween(m_count + 1, 2 * m_count)
             w == WorkOf(m_count)
  <2>3. l1 \in Nat /\ l2 \in Nat /\ h1 \in Nat /\ h2 \in Nat /\ w \in Nat
    <3>1. 2 * m_count >= 1 /\ m_count >= 1
      BY <2>1
    <3>2. l1 \in Nat /\ h1 \in Nat
      BY <2>1, <3>1, PausesWithinType
    <3>3. l2 \in Nat /\ h2 \in Nat
      BY <2>1, <3>1, PausesBetweenType
    <3>4. w \in Nat
      BY <2>1, WorkType
    <3> QED BY <3>2, <3>3, <3>4
  <2>4. Sleep * l1 <= m_duration_l /\ Sleep * h1 <= m_duration_h
    BY <2>1, <2>2 DEF SleptWindows
  <2>5. delay < Interval =>
          m_duration_l <= w + Sleep * l2 /\ m_duration_h <= w + Sleep * h2
    BY <2>1 DEF BothWindows
  <2>6. m_duration_l \in Nat /\ m_duration_h \in Nat
    BY DEF ExperimentTypeOK
  <2> HIDE DEF l1, l2, h1, h2, w
  <2>7. /\ Sleep * l1 \in Nat /\ Sleep * l2 \in Nat /\ Sleep * h1 \in Nat /\ Sleep * h2 \in Nat
        /\ Sleep * (h1 - l2) = Sleep * h1 - Sleep * l2
        /\ Sleep * (h2 - l1) = Sleep * h2 - Sleep * l1
    BY <2>3, SleepsOf, SleepsSubtract
  <2>8. delay < Interval =>
          m_duration_h - m_duration_l \in Sleep * (h1 - l2) - w .. Sleep * (h2 - l1) + w
    BY <2>3, <2>4, <2>5, <2>6, <2>7
  <2>9. m_duration_l >= Sleep * l1 /\ m_duration_h >= Sleep * h1
    BY <2>4, <2>6, <2>7
  <2> QED BY <2>8, <2>9 DEF PausesCancel, l1, l2, h1, h2, w
<1> QED BY TimeInvariant, <1>1, <1>2, <1>3, PTL DEF Spec

\* With no surplus of pauses in the second window and a fast host, the server does not
\* report a compression that this flow never meets.
THEOREM PausesRaiseNoAlarm == Spec => []NoFalseAlarm
<1>1. IInv /\ EInv /\ TInv /\ VInv /\ PausesCancel => NoFalseAlarm
  <2> SUFFICES ASSUME IInv, EInv, TInv, VInv, PausesCancel, Measurable, losses = 0,
                      delay < Interval, WorkOf(m_count) <= Threshold,
                      PausesBetween(m_count + 1, 2 * m_count) <= PausesWithin(1, m_count),
                      verdict = "detected"
               PROVE  FALSE
    BY DEF NoFalseAlarm
  <2> USE DEF EInv, TInv, VInv
  <2>1. /\ SameCount /\ m_count \in 2 .. U16 - 2 /\ U16 \in Nat /\ 1 < U16
        /\ TrainLength = m_count /\ 2 * m_count \in Nat
    BY CountType DEF ExperimentTypeOK, Measurable
  <2>2. m_received_h >= m_count
    <3>1. receivedAllLowEntropy /\ Len(arrived) >= 2 * m_count
      BY <2>1 DEF DurationWhenMeasured, DetectedIsMeasured
    <3>2. Len(arrived) \in Nat /\ Len(arrived) <= 2 * m_count + 1
      BY <2>1, PlanFits
    <3>3. CASE Len(arrived) = 2 * m_count
      BY <2>1, <3>1, <3>3 DEF Counting
    <3>4. CASE Len(arrived) = 2 * m_count + 1
      <4>1. m_received_h = (m_count + 1) % U16
        BY <2>1, <3>1, <3>4 DEF Counting
      <4>2. (m_count + 1) % U16 = m_count + 1
        BY <2>1, NextCount
      <4> QED BY <2>1, <4>1, <4>2
    <3> QED BY <2>1, <3>1, <3>2, <3>3, <3>4
  <2> DEFINE l == PausesWithin(1, m_count)
             h == PausesBetween(m_count + 1, 2 * m_count)
             w == WorkOf(m_count)
             least == Sleep * (PausesWithin(m_count + 1, 2 * m_count)
                                 - PausesBetween(1, m_count)) - w
  <2>3. m_duration_h - m_duration_l \in least .. Sleep * (h - l) + w
    BY <2>2 DEF PausesCancel
  <2>4. l \in Nat /\ h \in Nat /\ h <= l /\ w \in Nat /\ w <= Threshold
    <3>1. 2 * m_count >= 1 /\ m_count >= 1 /\ m_count \in Nat
      BY <2>1
    <3>2. l \in Nat /\ h \in Nat
      BY <2>1, <3>1, PausesWithinType, PausesBetweenType
    <3> QED BY <3>1, <3>2, WorkType
  <2>5. m_duration_h - m_duration_l > Threshold /\ Threshold \in Nat
    BY ServerAssumption DEF VerdictAtEnd, Detects
  <2>6. m_duration_h \in Nat /\ m_duration_l \in Nat
    BY DEF ExperimentTypeOK
  <2> HIDE DEF l, h, w, least
  <2>7. /\ Sleep * (h - l) = Sleep * h - Sleep * l /\ Sleep * h <= Sleep * l
        /\ Sleep * h \in Nat /\ Sleep * l \in Nat
    BY <2>4, SleepsOf, SleepsSubtract, SleepsGrow
  <2>8. m_duration_h - m_duration_l <= Sleep * (h - l) + w
    BY <2>3, <2>6
  <2> QED BY <2>4, <2>5, <2>6, <2>7, <2>8
<1> QED BY VerdictInvariant, OtherPausesMeasured, <1>1, PTL
=============================================================================
