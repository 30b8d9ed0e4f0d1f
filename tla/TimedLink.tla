------------------------------ MODULE TimedLink ------------------------------
(***************************************************************************)
(* The devices of PointToPointNetDevice under the simulator's event queue. *)
(* TransmitStart schedules the end of the transmission and, through the    *)
(* channel, the reception at the peer; Simulator::Run executes the event   *)
(* with the smallest time, and of several with that time the one that was  *)
(* scheduled first.                                                        *)
(*                                                                         *)
(* PointToPointNetDevice takes three things for granted that this module   *)
(* derives: a wire delivers in the order of transmission, one              *)
(* TransmitComplete event is pending while a device transmits, and every   *)
(* pending event happens.                                                  *)
(***************************************************************************)
EXTENDS PointToPointNetDevice, SequencesExt

CONSTANTS
  TxTimes,    \* what m_bps.CalculateBytesTxTime may return: it depends on the
              \* size of the frame and on SetDataRate, and may round to 0
  Gaps,       \* m_tInterframeGap, which SetInterframeGap may change
  Delay       \* propagation delay of the channel

ASSUME TimesAssumption ==
  /\ TxTimes \subseteq Nat /\ Gaps \subseteq Nat /\ Delay \in Nat
  /\ \A times \in {TxTimes, Gaps} : \E t \in times : \A s \in times : s <= t

VARIABLES
  events,     \* the event queue in the order of scheduling; `in' is the time
              \* from now at which the event is due
  waited      \* waited[d]: for how long each frame of wire[d] \o m_queue[d] has
              \* been under way

timedVars == <<vars, events, waited>>

TimedInit == Init /\ events = <<>> /\ waited = [d \in Devices |-> <<>>]

\* EventKey::operator<: the event at position i is the next to be executed.
IsNext_AnyOfTheTime(i) == \A j \in DOMAIN events : events[i].in <= events[j].in
IsNext(i) ==
  \A j \in DOMAIN events :
    \/ events[i].in < events[j].in
    \/ events[i].in = events[j].in /\ i <= j

\* The events that TransmitStart schedules for the frame f of d, in this order.
Scheduled_CompleteOnArrival(d, f, tx, gap) ==
  <<[in |-> tx + Delay + gap, kind |-> "complete", dev |-> d, frame |-> f, tx |-> tx],
    [in |-> tx + Delay, kind |-> "receive", dev |-> Peer(d), frame |-> f, tx |-> tx]>>
Scheduled_GapOnly(d, f, tx, gap) ==
  <<[in |-> gap, kind |-> "complete", dev |-> d, frame |-> f, tx |-> tx],
    [in |-> tx + Delay, kind |-> "receive", dev |-> Peer(d), frame |-> f, tx |-> tx]>>
Scheduled_NoReception(d, f, tx, gap) ==
  <<[in |-> tx + gap, kind |-> "complete", dev |-> d, frame |-> f, tx |-> tx]>>
Scheduled(d, f, tx, gap) ==
  <<[in |-> tx + gap, kind |-> "complete", dev |-> d, frame |-> f, tx |-> tx],
    [in |-> tx + Delay, kind |-> "receive", dev |-> Peer(d), frame |-> f, tx |-> tx]>>

\* The event queue grows by what TransmitStart schedules for d's current frame.
SchedulesFrom(queue, d) ==
  \E tx \in TxTimes, gap \in Gaps :
    events' = queue \o Scheduled(d, m_currentPkt'[d], tx, gap)

----------------------------------------------------------------------------

\* Time passes, but not beyond the next event.
Elapse ==
  /\ events # <<>>
  /\ \A i \in DOMAIN events : events[i].in > 0
  /\ events' = [i \in DOMAIN events |-> [events[i] EXCEPT !.in = @ - 1]]
  /\ waited' = [d \in Devices |-> [i \in DOMAIN waited[d] |-> waited[d][i] + 1]]
  /\ UNCHANGED vars

\* The upper layers set up the devices and call Send at any time.
SetUp ==
  /\ \E d \in Devices : Attach(d) \/ DoInitialize(d)
  /\ UNCHANGED <<events, waited>>

SendDropped ==
  /\ \E d \in Devices : SendLinkDown(d) \/ SendOverflow(d)
  /\ UNCHANGED <<events, waited>>

SendAccepted ==
  \E d \in Devices, ether \in EtherTypes :
    /\ \/ SendEnqueue(d, ether) /\ UNCHANGED events
       \/ SendStart(d, ether) /\ SchedulesFrom(events, d)
    /\ waited' = [waited EXCEPT ![d] = Append(@, 0)]

\* The simulator executes the event at position i, which is due now.
RunComplete(i) ==
  LET d == events[i].dev IN
    /\ events[i].kind = "complete"
    /\ \/ TransmitCompleteIdle(d) /\ events' = RemoveAt(events, i)
       \/ TransmitCompleteNext(d) /\ SchedulesFrom(RemoveAt(events, i), d)
    /\ UNCHANGED waited

RunReceive(i) ==
  LET d == events[i].dev IN
    /\ events[i].kind = "receive"
    /\ Receive(d)
    /\ events' = RemoveAt(events, i)
    /\ waited' = [waited EXCEPT ![Peer(d)] = Tail(@)]

RunEvent ==
  \E i \in DOMAIN events :
    /\ events[i].in = 0 /\ IsNext(i)
    /\ RunComplete(i) \/ RunReceive(i)

TimedNext == Elapse \/ SetUp \/ SendDropped \/ SendAccepted \/ RunEvent

TimedSafeSpec == TimedInit /\ [][TimedNext]_timedVars

\* Simulator::Run goes on as long as an event is pending.
TimedSpec == TimedSafeSpec /\ WF_timedVars(Elapse) /\ WF_timedVars(RunEvent)

----------------------------------------------------------------------------
(* Properties *)

\* The positions in the event queue of the receptions of d's frames at its peer,
\* and of the ends of d's transmissions.
ReceptionsOf(d) ==
  {i \in DOMAIN events : events[i].kind = "receive" /\ events[i].dev = Peer(d)}
CompletionsOf(d) ==
  {i \in DOMAIN events : events[i].kind = "complete" /\ events[i].dev = d}

\* The receptions that are pending at d's peer carry the frames of wire[d], and
\* will be executed in the order in which d transmitted them, although frames
\* may be due at the same time: PointToPointNetDevice's wire is a FIFO queue.
WireInEventOrder ==
  \A d \in Devices :
    /\ {events[i].frame : i \in ReceptionsOf(d)} = Range(wire[d])
    /\ \A i, j \in ReceptionsOf(d) : i < j =>
         /\ events[i].in <= events[j].in
         /\ events[i].frame.packet.n < events[j].frame.packet.n

\* A pending TransmitComplete event is the one of the current frame.
CompletionIsCurrent ==
  \A d \in Devices :
    /\ Cardinality(CompletionsOf(d)) = completions[d]
    /\ \A i \in CompletionsOf(d) : events[i].frame = m_currentPkt[d]

\* The peer is never receiving two frames at once: a frame that takes tx to
\* arrive is complete at least tx after the frame before it.
FramesDoNotOverlap ==
  \A d \in Devices : \A i, j \in ReceptionsOf(d) :
    i < j => events[j].in >= events[i].in + events[j].tx

\* A frame that Send accepted reaches the peer within the time that the current
\* frame and a full queue need, and its own transmission and propagation.
Longest(S) == CHOOSE t \in S : \A s \in S : s <= t
WaitLimit == QueueLimit * (Longest(TxTimes) + Longest(Gaps)) + Longest(TxTimes) + Delay
Punctual ==
  \A d \in Devices : \A i \in DOMAIN waited[d] : waited[d][i] <= WaitLimit

\* The queue disc is held back for the time of one frame at most: the TransmitComplete
\* event that takes a frame off the stopped queue, and so wakes it, is due by then.
WokenWithinAFrame ==
  \A d \in Devices : m_stoppedByDevice[d] =>
    \E i \in CompletionsOf(d) : events[i].in <= Longest(TxTimes) + Longest(Gaps)

\* Every behaviour under the event queue is one of PointToPointNetDevice, with
\* its fairness: a TransmitComplete or a reception that is pending happens.
ImplementsDevices == FairSpec
=============================================================================
