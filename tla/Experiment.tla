----------------------------- MODULE Experiment -----------------------------
(***************************************************************************)
(* The measurement of project1.cc: the UdpAppClient and the UdpAppServer   *)
(* that share a network, under the simulator's event queue.                *)
(*                                                                         *)
(* The simulator executes the events in the order of their simulated time. *)
(* The server times the trains with the wall clock, which advances by what *)
(* the host needs to execute an event and by the client's pause, a real    *)
(* sleep inside the event that sends the last low-entropy packet.          *)
(*                                                                         *)
(* The network is the promise of FifoLink: packets arrive in order, `delay' *)
(* after they were sent, or not at all.  It does not depend on what is in  *)
(* a packet: the flow does not cross the compressing link, which would add *)
(* 8 bytes to every packet alike.                                          *)
(*                                                                         *)
(* The script also installs clients on the two ends of that link.  They    *)
(* have no route to the server, so that nothing they send arrives, but they *)
(* run in the same process: when one of them pauses, everybody's wall clock *)
(* goes on.                                                                *)
(***************************************************************************)
EXTENDS UdpAppClient, UdpAppServer, FiniteSets

CONSTANTS
  Interval,          \* simulated time between packets
  Delays,            \* simulated times a packet may need from client to server
  ClientStart,       \* simulated time at which the applications are started
  OtherStartSets,    \* ... and sets of times at which the clients without a route
                     \* may be
  StopTime,          \* simulated time at which the applications are stopped
  Sleep,             \* 1000 in the code: the pause, in wall-clock milliseconds
  EventCosts,        \* wall-clock milliseconds the host may need for an event,
                     \* the other clients' events before it included
  MaxLosses          \* bound: packets the network may lose

ASSUME ExperimentAssumption ==
  /\ Interval \in Nat \ {0} /\ Delays \subseteq Nat /\ StopTime \in Nat /\ Sleep \in Nat
  /\ ClientStart \in Nat /\ OtherStartSets \subseteq SUBSET Nat
  /\ EventCosts \subseteq Nat /\ (\E c \in EventCosts : \A e \in EventCosts : e <= c)
  /\ MaxLosses \in Nat /\ 2 * U16 <= U32

VARIABLES
  now,               \* Simulator::Now
  delay,             \* how long a packet travels: the same for every packet
  sendAt,            \* time of the pending Send event
  otherStarts,       \* when the clients without a route start
  pauses,            \* times at which the other clients will pause
  air,               \* packets under way, with the time of their arrival
  wall,              \* the wall clock
  arrived,           \* packets given to the server
  losses

setting == <<delay, otherStarts>>
vars == <<clientvars, servervars, setting, now, sendAt, pauses, air, wall, arrived, losses>>

\* When a client that is started at time s ends its low-entropy train.
PauseAt(s) == s + clientCount * Interval

Init ==
  /\ ClientInit /\ ServerInit
  /\ delay \in Delays /\ otherStarts \in OtherStartSets
  /\ now = 0 /\ sendAt = ClientStart
  /\ pauses = {PauseAt(s) : s \in otherStarts}
  /\ air = <<>> /\ wall = 0 /\ arrived = <<>> /\ losses = 0

\* The event at time t is the next one to execute.
IsNext(t) ==
  /\ t >= now /\ t <= StopTime
  /\ application = "created" => t <= ClientStart
  /\ m_sendEvent = "pending" => t <= sendAt
  /\ air # <<>> => t <= Head(air).at
  /\ \A p \in pauses : t <= p

\* The server is scheduled to start before the client, at the same time.
StartBoth ==
  /\ IsNext(ClientStart)
  /\ ServerStart /\ StartApplication
  /\ now' = ClientStart
  /\ UNCHANGED <<setting, sendAt, pauses, air, wall, arrived, losses>>

\* The client's Send event, with its pause when it ends the low-entropy train.
ClientSends ==
  /\ IsNext(sendAt)
  /\ Send
  /\ now' = sendAt
  /\ sendAt' = sendAt + Interval
  /\ \E cost \in EventCosts : wall' = wall + cost + IF PhaseEnds THEN Sleep ELSE 0
  /\ \/ air' = Append(air, [packet |-> NextPacket, at |-> sendAt + delay])
        /\ UNCHANGED losses
     \/ losses < MaxLosses /\ losses' = losses + 1
        /\ UNCHANGED air
  /\ UNCHANGED <<servervars, setting, pauses, arrived>>

\* The Send event in which another client ends its low-entropy train.
OtherClientPauses ==
  \E t \in pauses :
    /\ IsNext(t)
    /\ now' = t
    /\ pauses' = pauses \ {t}
    /\ wall' = wall + Sleep
    /\ UNCHANGED <<clientvars, servervars, setting, sendAt, air, arrived, losses>>

\* The packet reaches the server, whose HandleRead reads the wall clock.
ServerReceives ==
  /\ air # <<>>
  /\ IsNext(Head(air).at)
  /\ now' = Head(air).at
  /\ \E cost \in EventCosts : wall' = wall + cost
  /\ HandleRead(wall')
  /\ arrived' = Append(arrived, Head(air).packet)
  /\ air' = Tail(air)
  /\ UNCHANGED <<clientvars, setting, sendAt, pauses, losses>>

\* At StopTime both applications are stopped and the server prints its verdict.
StopBoth ==
  /\ IsNext(StopTime)
  /\ ServerStop /\ StopApplication
  /\ now' = StopTime
  /\ UNCHANGED <<setting, sendAt, pauses, air, wall, arrived, losses>>

Next ==
  StartBoth \/ ClientSends \/ OtherClientPauses \/ ServerReceives \/ StopBoth

Spec == Init /\ [][Next]_vars

----------------------------------------------------------------------------
(* Properties *)

\* Both programs give client and server the same MaxPackets: the server counts to
\* the client's if it fits in a uint16_t.
SameCount == clientCount = m_count

\* ... and the server can measure trains of that length: it never ends one of 1
\* packet, takes 0 to be 65536, and m_received_h wraps after 65535.
Measurable == SameCount /\ m_count \in 2 .. U16 - 2

\* After how many packets the server ends a train, unless m_count is 1.
TrainLength == IF m_count = 0 THEN U16 ELSE m_count

\* The time the server's clock may gain while it counts n packets of a train.
MaxCost == CHOOSE c \in EventCosts : \A e \in EventCosts : e <= c
WorkOf(n) == 2 * (n + 1) * MaxCost

\* The simulated time of the n-th packet's arrival when nothing is lost, and how
\* many other clients pause between two such arrivals, with and without those that
\* pause at the very time of one.
ArrivalOf(n) == ClientStart + (n - 1) * Interval + delay
PausesBetween(from, to) ==
  Cardinality({s \in otherStarts : ArrivalOf(from) <= PauseAt(s) /\ PauseAt(s) <= ArrivalOf(to)})
PausesWithin(from, to) ==
  Cardinality({s \in otherStarts : ArrivalOf(from) < PauseAt(s) /\ PauseAt(s) < ArrivalOf(to)})

\* As long as nothing was lost, and with the path shorter than the interval, the
\* client's pause falls between the two measured windows and in neither of them:
\* the server has seen packet m_count before the client pauses, and packet
\* m_count + 1 only afterwards.  A window contains only the pauses that other
\* clients make in it.
OwnPauseInNoWindow ==
  Measurable /\ losses = 0 /\ delay < Interval =>
    /\ m_duration_l <= WorkOf(m_count) + Sleep * PausesBetween(1, m_count)
    /\ m_duration_h <= WorkOf(m_count) + Sleep * PausesBetween(m_count + 1, 2 * m_count)

\* Every pause that another client makes in a window is measured with it: what is
\* left in the difference is the surplus of one window's pauses over the other's.
\* project1.cc: the client that starts first (time 0, for want of a Start call)
\* pauses in the low-entropy window and the one that starts last in the other,
\* so that what they add to the two durations cancels out.
PausesCancel ==
  Measurable /\ losses = 0 /\ m_received_h >= m_count =>
    /\ m_duration_l >= Sleep * PausesWithin(1, m_count)
    /\ m_duration_h >= Sleep * PausesWithin(m_count + 1, 2 * m_count)
    /\ delay < Interval =>
         m_duration_h - m_duration_l \in
           Sleep * (PausesWithin(m_count + 1, 2 * m_count) - PausesBetween(1, m_count))
               - WorkOf(m_count)
           .. Sleep * (PausesBetween(m_count + 1, 2 * m_count) - PausesWithin(1, m_count))
               + WorkOf(m_count)

\* Once the client sends no more and nothing is under way, both windows have been measured if at
\* most one packet was lost, and otherwise the second one was not: the client sends
\* one packet more than the two windows need.
Over == application = "running" /\ m_sendEvent = "expired" /\ air = <<>>
OneLossTolerated ==
  Measurable /\ Over => (m_received_h >= m_count <=> losses <= 1)

\* That spare packet has low entropy: unless one of its train is lost, the second
\* window is opened by the last packet of the first train.
SparePacketOpensWindow ==
  SameCount /\ losses = 0 /\ Len(arrived) > m_count =>
    /\ arrived[m_count + 1].from = "lowPackets"
    /\ \A i \in m_count + 2 .. Len(arrived) : arrived[i].from = "row"

\* The server ends the first train after exactly as many packets as MaxPackets
\* says - as fits of it in a uint16_t: none becomes 65536, and one is never done.
FirstTrainEnds ==
  receivedAllLowEntropy <=> m_count # 1 /\ Len(arrived) >= TrainLength

\* A positive verdict is only given on two completely measured windows.
DetectedIsMeasured ==
  verdict = "detected" => receivedAllLowEntropy /\ Len(arrived) >= 2 * TrainLength

\* Whatever is lost and however long the path is, the client's own pause never
\* lengthens the second window, so it cannot produce a positive verdict.
PauseNeverDetected ==
  SameCount /\ otherStarts = {} => m_duration_h <= WorkOf(m_count)

\* So the pauses give no false alarm if none is made in the second window for which the
\* first has no other, and if the host is faster than the threshold tells: nothing
\* else could, as this flow does not cross the compressing link.
NoFalseAlarm ==
  /\ Measurable /\ losses = 0 /\ delay < Interval /\ WorkOf(m_count) <= Threshold
  /\ PausesBetween(m_count + 1, 2 * m_count) <= PausesWithin(1, m_count)
  => verdict # "detected"

\* If the simulation is long enough for the client's last packet, the verdict rests
\* on two measured windows exactly if at most one packet was lost.
MeasuredInTime ==
  verdict # "none" /\ Measurable /\ ArrivalOf(2 * m_count + 1) < StopTime =>
    (m_received_h >= m_count <=> losses <= 1)
=============================================================================
