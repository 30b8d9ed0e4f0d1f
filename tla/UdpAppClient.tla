---------------------------- MODULE UdpAppClient ----------------------------
(***************************************************************************)
(* The sender of the measurement: a train of low-entropy packets, a pause, *)
(* and a train of high-entropy packets taken from the rows of an array that *)
(* is read from the file "randomfile".                                     *)
(*                                                                         *)
(* A packet is modelled by where its payload comes from, the row of the    *)
(* array that Send copies for it, and its size.  NS_ASSERT does nothing in *)
(* the optimized build the README prescribes.                              *)
(***************************************************************************)
EXTENDS Integers, Sequences

CONSTANTS
  ClientCounts,      \* values of the attribute MaxPackets, a uint32_t
  ClientPacketSize,  \* attribute PacketSize
  FillSizes,         \* data sizes the script may pass to SetFill or SetDataSize
  Rows,              \* 6000 in the code: rows of the array, and the row offset
  RowBytes,          \* 1024 in the code: bytes of a row
  U32,               \* modulus of uint32_t
  SendBound          \* bound: packets sent

ASSUME ClientAssumption ==
  /\ U32 \in Nat \ {0} /\ \E half \in 1 .. U32 : U32 = 2 * half
  /\ ClientCounts \subseteq 0 .. U32 - 1
  /\ ClientPacketSize \in Nat /\ FillSizes \subseteq Nat
  /\ Rows \in Nat \ {0} /\ 2 * Rows < U32
  /\ RowBytes \in Nat \ {0} /\ SendBound \in Nat

VARIABLES
  clientCount,       \* the client's m_count
  m_size, m_dataSize,
  m_data,            \* "null", "fill" (set by SetFill) or "row" (copied by Send)
  m_sent_l,
  m_socket,          \* "null" or "open"
  m_sendEvent,       \* "expired" or "pending"
  lowPackets,        \* content of the array lowPackets
  filled,            \* rows of the array that FillInPacketArray has filled
  randomfile,        \* does the file "randomfile" exist?
  application,       \* "created", "running" or "stopped"
  sent               \* the packets given to the socket

payloadVars == <<m_size, m_dataSize, m_data>>
clientvars == <<clientCount, payloadVars, m_sent_l, m_socket, m_sendEvent, lowPackets,
                filled, randomfile, application, sent>>

\* The constructor's loop clears a local variable named lowPackets: the member
\* keeps whatever the memory held.
Construct == lowPackets \in {"zeros", "garbage"}

ClientInit ==
  /\ Construct
  /\ clientCount \in ClientCounts
  /\ m_size = ClientPacketSize /\ m_dataSize = 0 /\ m_data = "null"
  /\ m_sent_l = 0
  /\ m_socket = "null" /\ m_sendEvent = "expired"
  /\ filled = 0 /\ randomfile \in BOOLEAN
  /\ application = "created" /\ sent = <<>>

----------------------------------------------------------------------------

\* The helper's SetFill functions, called by the script before the simulation.
SetFill(dataSize) ==
  /\ application = "created"
  /\ m_dataSize' = dataSize /\ m_size' = dataSize /\ m_data' = "fill"
  /\ UNCHANGED <<clientCount, m_sent_l, m_socket, m_sendEvent, lowPackets, filled,
                 randomfile, application, sent>>

SetDataSize(dataSize) ==
  /\ application = "created"
  /\ m_dataSize' = 0 /\ m_size' = dataSize /\ m_data' = "null"
  /\ UNCHANGED <<clientCount, m_sent_l, m_socket, m_sendEvent, lowPackets, filled,
                 randomfile, application, sent>>

\* The array is read through the stream that was opened first.  When the file
\* did not exist the stream has failed: the file is made, and no row is read.
FillInPacketArray ==
  /\ filled' = IF randomfile THEN Rows ELSE 0
  /\ randomfile' = TRUE

StartApplication ==
  /\ application = "created"
  /\ application' = "running"
  /\ FillInPacketArray
  /\ m_socket' = "open"
  /\ m_sendEvent' = "pending"
  /\ UNCHANGED <<clientCount, payloadVars, m_sent_l, lowPackets, sent>>

StopApplication_KeepsEvent ==
  /\ application = "running"
  /\ application' = "stopped"
  /\ m_socket' = "null"
  /\ UNCHANGED <<clientCount, payloadVars, m_sent_l, m_sendEvent, lowPackets, filled,
                 randomfile, sent>>
StopApplication ==
  /\ application = "running"
  /\ application' = "stopped"
  /\ m_socket' = "null"
  /\ m_sendEvent' = "expired"
  /\ UNCHANGED <<clientCount, payloadVars, m_sent_l, lowPackets, filled, randomfile,
                 sent>>

----------------------------------------------------------------------------

RowRead_FromLast == IF m_dataSize # 0 THEN m_sent_l - Rows - 1 ELSE m_sent_l
\* The row of the array that Send copies into m_data: in the low phase too,
\* "so the high entropy packets aren't longer b/c of additional copying".  (Its
\* offset in bytes wraps too, but only far outside the array.)
RowRead == IF m_dataSize # 0 THEN m_sent_l - Rows ELSE m_sent_l

\* Without a data size the packet is made of lowPackets, else of m_data, which
\* by then holds the row.
NextPacket ==
  IF m_dataSize # 0
    THEN [from |-> "row", row |-> RowRead, size |-> m_dataSize]
    ELSE [from |-> "lowPackets", row |-> RowRead, size |-> RowBytes]

\* The branches after ++m_sent_l: the first that applies decides.
SentCount == (m_sent_l + 1) % U32
InLowPhase == SentCount <= clientCount
PhaseEnds_Early == SentCount = clientCount
PhaseEnds_Late == SentCount = clientCount + 2
PhaseEnds == ~InLowPhase /\ SentCount = (clientCount + 1) % U32   \* sleeps
InHighPhase_OneMore == SentCount <= (2 * clientCount + 1) % U32
InHighPhase_OneLess == SentCount < (2 * clientCount) % U32
InHighPhase == SentCount <= (2 * clientCount) % U32

\* From the pause on, the payload is a row whatever the script has asked for.
DataSizeAfter_Unset == m_dataSize
DataSizeAfter == IF PhaseEnds THEN RowBytes ELSE m_dataSize

Send ==
  /\ m_sendEvent = "pending"
  /\ Len(sent) < SendBound
  /\ sent' = Append(sent, NextPacket)
  /\ m_data' = "row"
  /\ m_sent_l' = SentCount
  /\ m_dataSize' = DataSizeAfter
  /\ m_sendEvent' =
       IF InLowPhase \/ PhaseEnds \/ InHighPhase THEN "pending" ELSE "expired"
  /\ UNCHANGED <<clientCount, m_size, m_socket, lowPackets, filled, randomfile,
                 application>>

ClientNext ==
  \/ \E size \in FillSizes : SetFill(size) \/ SetDataSize(size)
  \/ StartApplication
  \/ StopApplication
  \/ Send

ClientSpec == ClientInit /\ [][ClientNext]_clientvars

\* The simulator runs the scheduled Send event.
FairClientSpec == ClientSpec /\ WF_clientvars(Send)

----------------------------------------------------------------------------
(* Properties *)

\* Every variable has a value of its type.
ClientTypeOK ==
  /\ clientCount \in ClientCounts
  /\ m_size \in Nat /\ m_dataSize \in Nat /\ m_data \in {"null", "fill", "row"}
  /\ m_sent_l \in 0 .. U32 - 1
  /\ m_socket \in {"null", "open"} /\ m_sendEvent \in {"expired", "pending"}
  /\ lowPackets \in {"zeros", "garbage"}
  /\ filled \in 0 .. Rows /\ randomfile \in BOOLEAN
  /\ application \in {"created", "running", "stopped"}
  /\ sent \in Seq([from : {"lowPackets", "row"}, row : Int, size : Nat])

\* A Send event never finds the socket gone: StopApplication takes both away.
EventHasSocket == m_sendEvent = "pending" => m_socket = "open"

\* m_sent_l never exceeds the largest MaxPackets, and wraps after the first packet
\* of the second train with the one below it: the counting begins again.
ReachesPause == clientCount # U32 - 1
Ends == ReachesPause /\ clientCount # U32 - 2

\* SetFill replaces the low-entropy train.
Unfilled == sent # <<>> => sent[1].from = "lowPackets"

\* A train of MaxPackets + 1 packets is followed by one of MaxPackets - or of a
\* single packet, if MaxPackets is 0 or so large that its double wraps.
Planned ==
  IF clientCount = 0 \/ 2 * clientCount >= U32 THEN clientCount + 2
                                              ELSE 2 * clientCount + 1

\* The measurement the server relies on: the client sends the low-entropy train,
\* then the rows, then nothing, with an event for the next packet until the last.  With
\* the two largest MaxPackets the wrapping of m_sent_l keeps the client in a train
\* for ever: in the first with the largest, in the second with the other.
SendPlan ==
  /\ Unfilled =>
       \A i \in 1 .. Len(sent) :
         sent[i].from = IF ReachesPause /\ i > clientCount + 1 THEN "row" ELSE "lowPackets"
  /\ Ends =>
       /\ Len(sent) <= Planned
       /\ application = "running" => (m_sendEvent = "pending" <=> Len(sent) < Planned)
  /\ ~Ends /\ application = "running" => m_sendEvent = "pending"

\* Every row that Send copies is a row of the array.
RowsInArray == \A i \in 1 .. Len(sent) : sent[i].row \in 0 .. Rows - 1

\* One value of MaxPackets alone, one less than there are rows, keeps both trains
\* inside the array: less, and the second train begins before it; more, and the
\* first train leaves it.
RowsFitOnce ==
  Unfilled =>
    /\ clientCount = Rows - 1 => RowsInArray
    /\ clientCount # Rows - 1 /\ Len(sent) >= clientCount + 2 => ~RowsInArray

\* Send copies a whole row into a buffer of the size SetFill chose.  Where it does
\* not fit, it does not fit for all of the first train, and only there.
CopyFits ==
  ReachesPause => \A i \in 1 .. Len(sent) :
    (sent[i].size < RowBytes) <=> (i <= clientCount + 1 /\ sent[1].size < RowBytes)

\* "m_size must have been set to agree with m_dataSize" (udp-app-client.cc, with an
\* assertion): it does, except in the second train of a client whose packet size
\* is not that of a row.
SizesAgree ==
  m_dataSize \in {0, m_size} \/ (Len(sent) > clientCount /\ m_size # RowBytes)

\* A client that is not stopped sends both trains to the end.
AllSent ==
  application = "running" ~> application = "stopped" \/ ~Ends \/ Len(sent) = Planned

\* "reads file in a line at a time ... and puts in packets array": a row that is
\* sent as a high-entropy packet has been read from the file.
RowsAreRandom ==
  \A i \in 1 .. Len(sent) : sent[i].from = "row" => sent[i].row < filled
=============================================================================
