---------------------------- MODULE UdpAppServer ----------------------------
(***************************************************************************)
(* The receiver of the measurement.  It takes the first m_count packets to *)
(* be the low-entropy train and the next m_count to be the high-entropy    *)
(* one, times each train with the wall clock, and prints a verdict when it *)
(* is stopped.  It has no other way to tell the trains apart.              *)
(***************************************************************************)
EXTENDS Integers, Sequences

CONSTANTS
  ServerCounts,      \* values of the attribute MaxPackets, checked as a uint32_t
  ServerPacketSize,  \* attribute PacketSize: size of the packets sent back
  U16,               \* modulus of uint16_t, the type of m_count and the counters
  Threshold          \* 100 in the code, in milliseconds

ASSUME ServerAssumption ==
  /\ ServerCounts \subseteq Nat /\ ServerPacketSize \in Nat
  /\ U16 \in Nat \ {0, 1} /\ Threshold \in Nat

VARIABLES
  serverMaxPackets,              \* the attribute: m_count is what fits of it
  m_received_l, m_received_h, receivedAllLowEntropy,
  m_first_t, m_last_t,           \* shared by the two trains
  m_duration_l, m_duration_h,
  server,                        \* "created", "running" or "stopped"
  verdict,                       \* what StopApplication prints
  echoed                         \* the packets sent back

clockVars == <<m_first_t, m_last_t, m_duration_l, m_duration_h>>
countVars == <<m_received_l, m_received_h, receivedAllLowEntropy>>
servervars == <<serverMaxPackets, countVars, clockVars, server, verdict, echoed>>

m_count == serverMaxPackets % U16

ServerInit ==
  /\ serverMaxPackets \in ServerCounts
  /\ m_received_l = 0 /\ m_received_h = 0 /\ receivedAllLowEntropy = FALSE
  /\ m_first_t = 0 /\ m_last_t = 0 /\ m_duration_l = 0 /\ m_duration_h = 0
  /\ server = "created" /\ verdict = "none" /\ echoed = <<>>

ServerStart ==
  /\ server = "created"
  /\ server' = "running"
  /\ UNCHANGED <<serverMaxPackets, countVars, clockVars, verdict, echoed>>

\* A fresh packet of m_size bytes goes back to the sender.
Echo == echoed' = Append(echoed, [from |-> "zeros", size |-> ServerPacketSize])

\* The clock readings for the count-th packet of a train, at wall-clock time t.
\* The first branch wins: a train of one packet is started, never finished.
Clock(count, t) ==
  \/ count = 1 /\ m_first_t' = t /\ UNCHANGED m_last_t
  \/ count # 1 /\ count <= m_count /\ m_last_t' = t /\ UNCHANGED m_first_t
  \/ count # 1 /\ count > m_count /\ UNCHANGED <<m_first_t, m_last_t>>

Finishes_AtLeast(count) == count # 1 /\ count >= m_count
Finishes(count) == count # 1 /\ count = m_count

\* One packet of HandleRead's loop while the low-entropy train is expected...
HandleLow(t) ==
  /\ server = "running"
  /\ ~receivedAllLowEntropy
  /\ m_received_l' = (m_received_l + 1) % U16
  /\ Clock(m_received_l', t)
  /\ receivedAllLowEntropy' = Finishes(m_received_l')
  /\ m_duration_l' = IF Finishes(m_received_l') THEN t - m_first_t ELSE m_duration_l
  /\ Echo
  /\ UNCHANGED <<serverMaxPackets, m_received_h, m_duration_h, server, verdict>>

\* ... and after it.
HandleHigh(t) ==
  /\ server = "running"
  /\ receivedAllLowEntropy
  /\ m_received_h' = (m_received_h + 1) % U16
  /\ Clock(m_received_h', t)
  /\ m_duration_h' = IF Finishes(m_received_h') THEN t - m_first_t ELSE m_duration_h
  /\ Echo
  /\ UNCHANGED <<serverMaxPackets, m_received_l, receivedAllLowEntropy, m_duration_l,
                 server, verdict>>

HandleRead(t) == HandleLow(t) \/ HandleHigh(t)

Detects_Swapped == m_duration_l - m_duration_h > Threshold
Detects == m_duration_h - m_duration_l > Threshold

ServerStop ==
  /\ server = "running"
  /\ server' = "stopped"
  /\ verdict' = IF Detects THEN "detected" ELSE "not detected"
  /\ UNCHANGED <<serverMaxPackets, countVars, clockVars, echoed>>
=============================================================================
