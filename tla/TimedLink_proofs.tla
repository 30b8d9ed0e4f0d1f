-------------------------- MODULE TimedLink_proofs --------------------------
(***************************************************************************)
(* Proofs about TimedLink: what the event queue holds is the wire and the  *)
(* transmission of the untimed devices, so that a wire is a FIFO queue and *)
(* a frame is under way for a bounded time, for all transmission times,    *)
(* gaps and delays.                                                        *)
(***************************************************************************)
EXTENDS TimedLink, FifoLink_proofs, FiniteSetTheorems

Events ==
  [in : Nat, kind : {"complete", "receive"}, dev : Devices, frame : Frames, tx : TxTimes]

\* The new variables have values of their types; a frame under way has waited for
\* some time.
TimedTypeOK ==
  /\ events \in Seq(Events)
  /\ waited \in [Devices -> Seq(Nat)]
  /\ \A d \in Devices : Len(waited[d]) = Len(wire[d]) + Len(m_queue[d])

\* The only completion that may be pending is that of the current frame.
Completes(d) ==
  /\ \A i \in CompletionsOf(d) :
       completions[d] = 1 /\ events[i].frame = m_currentPkt[d]
  /\ \A i, j \in CompletionsOf(d) : i = j
  /\ completions[d] = 1 => CompletionsOf(d) # {}

\* The pending receptions are those of the frames on the wire, in the order of the
\* frames' numbers, and a frame arrives at least its own length after the one before.
OnWire(d) ==
  /\ \A i \in ReceptionsOf(d) : \E k \in 1 .. Len(wire[d]) : events[i].frame = wire[d][k]
  /\ \A k \in 1 .. Len(wire[d]) : \E i \in ReceptionsOf(d) : events[i].frame = wire[d][k]
  /\ \A i, j \in ReceptionsOf(d) : i < j =>
       /\ events[i].frame.packet.n < events[j].frame.packet.n
       /\ events[j].in >= events[i].in + events[j].tx

\* A frame is still to be transmitted, or has only the way left to go.
Leaves(d) ==
  \A i \in ReceptionsOf(d) :
    events[i].in <= Delay \/ \E c \in CompletionsOf(d) : events[i].in <= events[c].in + Delay

\* How long the transmitter may take for a frame, and for a full queue.
Turn == Longest(TxTimes) + Longest(Gaps)
FullQueue == QueueLimit * Turn

\* How long the frames on the wire, the transmitter and the frames in the queue will
\* have waited at the most.
Timely(d) ==
  /\ \A k \in 1 .. Len(wire[d]), i \in ReceptionsOf(d) : events[i].frame = wire[d][k] =>
       waited[d][k] + events[i].in <= FullQueue + Longest(TxTimes) + Delay
  /\ \A c \in CompletionsOf(d) :
       /\ events[c].in <= Turn
       /\ \A q \in 1 .. Len(m_queue[d]) :
            waited[d][Len(wire[d]) + q] + events[c].in + (q - 1) * Turn <= FullQueue

EventsOK == \A d \in Devices : Completes(d) /\ OnWire(d) /\ Leaves(d) /\ Timely(d)

-----------------------------------------------------------------------------
(* The event queue *)

\* Where the k-th event was before the one at position gone was taken away.
Was(gone, k) == IF k < gone THEN k ELSE k + 1

\* The first n events are those that were there, but for the one at position gone.
Keeps(gone, n) ==
  /\ gone \in 1 .. Len(events) + 1 /\ n \in 0 .. Len(events')
  /\ \A k \in 1 .. n :
       Was(gone, k) \in 1 .. Len(events) \ {gone} /\ events'[k] = events[Was(gone, k)]
  /\ \A i \in 1 .. Len(events) \ {gone} : \E k \in 1 .. n : i = Was(gone, k)

\* queue holds the events that are there but for the one at position gone.
Remain(queue, gone) ==
  /\ gone \in 1 .. Len(events) + 1 /\ queue \in Seq(Events)
  /\ \A k \in 1 .. Len(queue) :
       Was(gone, k) \in 1 .. Len(events) \ {gone} /\ queue[k] = events[Was(gone, k)]
  /\ \A i \in 1 .. Len(events) \ {gone} : \E k \in 1 .. Len(queue) : i = Was(gone, k)

LEMMA WasGrows ==
  \A gone, k, m \in Nat : Was(gone, k) < Was(gone, m) <=> k < m
BY DEF Was

LEMMA RemoveAtType ==
  ASSUME NEW S, NEW s \in Seq(S), NEW gone \in 1 .. Len(s)
  PROVE  /\ RemoveAt(s, gone) \in Seq(S) /\ Len(RemoveAt(s, gone)) = Len(s) - 1
         /\ \A k \in 1 .. Len(s) - 1 : RemoveAt(s, gone)[k] = s[Was(gone, k)]
<1> DEFINE before == SubSeq(s, 1, gone - 1)
           after == SubSeq(s, gone + 1, Len(s))
<1>1. /\ before \in Seq(S) /\ Len(before) = gone - 1
      /\ \A k \in 1 .. gone - 1 : before[k] = s[k]
  BY SubSeqProperties
<1>2. /\ after \in Seq(S) /\ Len(after) = Len(s) - gone
      /\ \A k \in 1 .. Len(s) - gone : after[k] = s[gone + k]
  OBVIOUS
<1>3. RemoveAt(s, gone) = before \o after
  BY DEF RemoveAt
<1> HIDE DEF before, after
<1>4. /\ before \o after \in Seq(S) /\ Len(before \o after) = Len(s) - 1
      /\ \A k \in 1 .. Len(s) - 1 :
           (before \o after)[k] = IF k <= gone - 1 THEN before[k] ELSE after[k - (gone - 1)]
  BY <1>1, <1>2, ConcatProperties
<1>5. ASSUME NEW k \in 1 .. Len(s) - 1 PROVE (before \o after)[k] = s[Was(gone, k)]
  <2>1. CASE k < gone
    BY <1>1, <1>4, <2>1 DEF Was
  <2>2. CASE ~(k < gone)
    <3>1. /\ k - (gone - 1) \in 1 .. Len(s) - gone /\ gone + (k - (gone - 1)) = k + 1
          /\ ~(k <= gone - 1) /\ ~(k < gone)
      BY <2>2
    <3>2. after[k - (gone - 1)] = s[k + 1]
      BY <1>2, <3>1
    <3>3. (before \o after)[k] = after[k - (gone - 1)]
      BY <1>4, <3>1, Zenon
    <3>4. Was(gone, k) = k + 1
      BY <3>1 DEF Was
    <3> QED BY <3>2, <3>3, <3>4
  <2> QED BY <2>1, <2>2
<1> QED BY <1>3, <1>4, <1>5

LEMMA EventsType ==
  ASSUME TimedTypeOK
  PROVE  /\ DOMAIN events = 1 .. Len(events) /\ Len(events) \in Nat
         /\ \A i \in 1 .. Len(events) :
              /\ events[i] \in Events /\ events[i].in \in Nat /\ events[i].tx \in Nat
              /\ events[i].dev \in Devices /\ events[i].frame \in Frames
         /\ \A d \in Devices : CompletionsOf(d) \subseteq 1 .. Len(events)
                            /\ ReceptionsOf(d) \subseteq 1 .. Len(events)
<1>1. events \in Seq(Events)
  BY DEF TimedTypeOK
<1>2. DOMAIN events = 1 .. Len(events) /\ Len(events) \in Nat
      /\ \A i \in 1 .. Len(events) : events[i] \in Events
  BY <1>1
<1>3. \A e \in Events : e.in \in Nat /\ e.tx \in Nat /\ e.dev \in Devices /\ e.frame \in Frames
  BY TimesAssumption DEF Events
<1> QED BY <1>2, <1>3 DEF CompletionsOf, ReceptionsOf

\* An event is executed and taken away ...
LEMMA KeepsRemoved ==
  ASSUME TimedTypeOK, NEW gone \in 1 .. Len(events), NEW queue,
         queue = RemoveAt(events, gone)
  PROVE  Remain(queue, gone)
<1>1. events \in Seq(Events) /\ Len(events) \in Nat
  BY DEF TimedTypeOK
<1>2. queue \in Seq(Events) /\ Len(queue) = Len(events) - 1
      /\ \A k \in 1 .. Len(queue) : queue[k] = events[Was(gone, k)]
  BY <1>1, RemoveAtType
<1>3. ASSUME NEW k \in 1 .. Len(queue) PROVE Was(gone, k) \in 1 .. Len(events) \ {gone}
  BY <1>1, <1>2 DEF Was
<1>4. ASSUME NEW i \in 1 .. Len(events) \ {gone}
      PROVE  \E k \in 1 .. Len(queue) : i = Was(gone, k)
  <2>1. CASE i < gone
    <3>1. i \in 1 .. Len(queue) /\ i = Was(gone, i)
      BY <1>1, <1>2, <2>1 DEF Was
    <3> QED BY <3>1
  <2>2. CASE i > gone
    <3>1. i - 1 \in 1 .. Len(queue) /\ i = Was(gone, i - 1)
      BY <1>1, <1>2, <2>2 DEF Was
    <3> QED BY <3>1
  <2> QED BY <1>1, <2>1, <2>2
<1> QED BY <1>1, <1>2, <1>3, <1>4 DEF Remain

\* ... or all events stay.
LEMMA KeepsAll ==
  ASSUME TimedTypeOK, NEW queue, queue = events, NEW gone, gone = Len(events) + 1
  PROVE  Remain(queue, gone)
<1>1. events \in Seq(Events) /\ Len(events) \in Nat
  BY DEF TimedTypeOK
<1>2. \A k \in 1 .. Len(events) : Was(gone, k) = k /\ k # gone
  BY <1>1 DEF Was
<1> QED BY <1>1, <1>2 DEF Remain

\* The events that TransmitStart schedules come behind those that are kept.
LEMMA KeepsScheduled ==
  ASSUME NEW queue \in Seq(Events), NEW c \in Events, NEW r \in Events,
         events' = queue \o <<c, r>>
  PROVE  /\ events' \in Seq(Events) /\ Len(events') = Len(queue) + 2 /\ Len(queue) \in Nat
         /\ \A k \in 1 .. Len(queue) : events'[k] = queue[k]
         /\ events'[Len(queue) + 1] = c /\ events'[Len(queue) + 2] = r
<1> DEFINE new == <<c, r>>
<1>1. new \in Seq(Events) /\ Len(new) = 2 /\ new[1] = c /\ new[2] = r
  OBVIOUS
<1>2. events' = queue \o new /\ Len(queue) \in Nat
  OBVIOUS
<1> HIDE DEF new
<1>3. /\ events' \in Seq(Events) /\ Len(events') = Len(queue) + 2
      /\ \A i \in 1 .. Len(queue) + 2 :
           events'[i] = IF i <= Len(queue) THEN queue[i] ELSE new[i - Len(queue)]
  BY <1>1, <1>2, ConcatProperties
<1> DEFINE n == Len(queue)
<1>4. /\ n + 1 \in 1 .. n + 2 /\ n + 2 \in 1 .. n + 2 /\ ~(n + 1 <= n) /\ ~(n + 2 <= n)
      /\ (n + 1) - n = 1 /\ (n + 2) - n = 2
  BY <1>2
<1>5. events'[n + 1] = new[(n + 1) - n] /\ events'[n + 2] = new[(n + 2) - n]
  BY <1>3, <1>4, Zenon
<1>6. \A k \in 1 .. n : events'[k] = queue[k]
  BY <1>2, <1>3
<1> QED BY <1>1, <1>2, <1>3, <1>4, <1>5, <1>6

-----------------------------------------------------------------------------
(* What a timed step does *)

\* Nothing that the events of d speak of changes, or only the queue grows.
KeepsLink(d) ==
  /\ wire'[d] = wire[d] /\ completions'[d] = completions[d]
  /\ m_currentPkt'[d] = m_currentPkt[d]
KeepsWaiting(d) ==
  /\ wire'[d] = wire[d] /\ m_queue'[d] = m_queue[d] /\ waited'[d] = waited[d]

\* The events of d are kept: the one taken away and the new ones are others.
KeepsEventsOf(d, gone, n) ==
  /\ Keeps(gone, n) /\ gone \notin ReceptionsOf(d) \union CompletionsOf(d)
  /\ \A k \in n + 1 .. Len(events') : k \notin (ReceptionsOf(d) \union CompletionsOf(d))'

\* TransmitStart: the frame is on the wire, both its events are scheduled, and no
\* other completion is pending.
Starts(d, gone, n) ==
  /\ Keeps(gone, n) /\ Len(events') = n + 2
  /\ CompletionsOf(d) \subseteq {gone} /\ gone \notin ReceptionsOf(d)
  /\ gone \in 1 .. Len(events) => events[gone].in = 0
  /\ \E tx \in TxTimes, gap \in Gaps :
       /\ events'[n + 1] = [in |-> tx + gap, kind |-> "complete", dev |-> d,
                            frame |-> m_currentPkt'[d], tx |-> tx]
       /\ events'[n + 2] = [in |-> tx + Delay, kind |-> "receive", dev |-> Peer(d),
                            frame |-> m_currentPkt'[d], tx |-> tx]
  /\ completions'[d] = 1 /\ wire'[d] = Append(wire[d], m_currentPkt'[d])

\* The end of a transmission with an empty queue.
Idles(d, gone) ==
  /\ Keeps(gone, Len(events')) /\ CompletionsOf(d) = {gone} /\ events[gone].in = 0
  /\ gone \notin ReceptionsOf(d)
  /\ completions'[d] = 0 /\ KeepsWaiting(d) /\ m_queue[d] = <<>>

\* The reception of the first frame on d's wire.
Receives(d, gone) ==
  /\ Keeps(gone, Len(events')) /\ gone \in ReceptionsOf(d) /\ gone \notin CompletionsOf(d)
  /\ wire[d] # <<>> /\ events[gone].frame = wire[d][1]
  /\ wire'[d] = Tail(wire[d]) /\ m_queue'[d] = m_queue[d] /\ waited'[d] = Tail(waited[d])
  /\ completions'[d] = completions[d] /\ m_currentPkt'[d] = m_currentPkt[d]

\* Which events are d's afterwards.
LEMMA KeptEvents ==
  ASSUME TimedTypeOK, TimedTypeOK', NEW gone, NEW n, Keeps(gone, n), NEW d \in Devices
  PROVE  /\ gone \in Nat /\ n \in Nat
         /\ \A k \in 1 .. n : /\ k \in ReceptionsOf(d)' <=> Was(gone, k) \in ReceptionsOf(d)
                              /\ k \in CompletionsOf(d)' <=> Was(gone, k) \in CompletionsOf(d)
                              /\ events'[k] = events[Was(gone, k)]
                              /\ Was(gone, k) # gone
         /\ \A i \in ReceptionsOf(d) \ {gone} :
              \E k \in 1 .. n : i = Was(gone, k) /\ k \in ReceptionsOf(d)'
         /\ \A i \in CompletionsOf(d) \ {gone} :
              \E k \in 1 .. n : i = Was(gone, k) /\ k \in CompletionsOf(d)'
<1>1. /\ DOMAIN events = 1 .. Len(events) /\ Len(events) \in Nat
      /\ DOMAIN events' = 1 .. Len(events') /\ Len(events') \in Nat
  BY DEF TimedTypeOK
<1>2. gone \in Nat /\ n \in Nat /\ 1 .. n \subseteq 1 .. Len(events')
  BY <1>1 DEF Keeps
<1>3. ASSUME NEW k \in 1 .. n
      PROVE  /\ k \in ReceptionsOf(d)' <=> Was(gone, k) \in ReceptionsOf(d)
             /\ k \in CompletionsOf(d)' <=> Was(gone, k) \in CompletionsOf(d)
             /\ events'[k] = events[Was(gone, k)]
             /\ Was(gone, k) # gone
  <2>1. /\ Was(gone, k) \in DOMAIN events /\ events'[k] = events[Was(gone, k)]
        /\ k \in DOMAIN events' /\ Was(gone, k) # gone
    BY <1>1, <1>2 DEF Keeps
  <2>2. k \in ReceptionsOf(d)' <=> Was(gone, k) \in ReceptionsOf(d)
    BY <2>1 DEF ReceptionsOf
  <2>3. k \in CompletionsOf(d)' <=> Was(gone, k) \in CompletionsOf(d)
    BY <2>1 DEF CompletionsOf
  <2> QED BY <2>1, <2>2, <2>3
<1>4. \A i \in (ReceptionsOf(d) \union CompletionsOf(d)) \ {gone} :
        \E k \in 1 .. n : i = Was(gone, k)
  BY EventsType DEF Keeps
<1> QED BY <1>2, <1>3, <1>4

\* What is true of d's receptions stays true when its wire does.
LEMMA OnWireKept ==
  ASSUME TimedTypeOK, TimedTypeOK', NEW gone, NEW n, Keeps(gone, n), NEW d \in Devices,
         OnWire(d), gone \notin ReceptionsOf(d), wire'[d] = wire[d],
         \A k \in n + 1 .. Len(events') : k \notin ReceptionsOf(d)'
  PROVE  OnWire(d)'
<1>1. /\ gone \in Nat /\ n \in Nat
      /\ \A k \in 1 .. n : /\ k \in ReceptionsOf(d)' => Was(gone, k) \in ReceptionsOf(d)
                           /\ events'[k] = events[Was(gone, k)]
      /\ \A i \in ReceptionsOf(d) :
           \E k \in 1 .. n : i = Was(gone, k) /\ k \in ReceptionsOf(d)'
  BY KeptEvents
<1>2. \A k \in ReceptionsOf(d)' : k \in 1 .. n /\ k \in Nat
  <2>1. ReceptionsOf(d)' \subseteq 1 .. Len(events') /\ Len(events') \in Nat
    BY DEF ReceptionsOf, TimedTypeOK
  <2> QED BY <1>1, <2>1
<1>3. ASSUME NEW k \in ReceptionsOf(d)'
      PROVE  \E m \in 1 .. Len(wire'[d]) : events'[k].frame = wire'[d][m]
  <2>1. Was(gone, k) \in ReceptionsOf(d) /\ events'[k] = events[Was(gone, k)]
    BY <1>1, <1>2
  <2>2. \E m \in 1 .. Len(wire[d]) : events[Was(gone, k)].frame = wire[d][m]
    BY <2>1, Zenon DEF OnWire
  <2> QED BY <2>1, <2>2
<1>4. \A m \in 1 .. Len(wire'[d]) : \E k \in ReceptionsOf(d)' : events'[k].frame = wire'[d][m]
  <2> SUFFICES ASSUME NEW m \in 1 .. Len(wire[d])
               PROVE  \E k \in ReceptionsOf(d)' : events'[k].frame = wire[d][m]
    OBVIOUS
  <2>1. PICK i \in ReceptionsOf(d) : events[i].frame = wire[d][m]
    BY DEF OnWire
  <2>2. PICK k \in 1 .. n : i = Was(gone, k) /\ k \in ReceptionsOf(d)'
    BY <1>1
  <2> QED BY <1>1, <2>1, <2>2
<1>5. ASSUME NEW k \in ReceptionsOf(d)', NEW m \in ReceptionsOf(d)', k < m
      PROVE  /\ events'[k].frame.packet.n < events'[m].frame.packet.n
             /\ events'[m].in >= events'[k].in + events'[m].tx
  <2>1. Was(gone, k) < Was(gone, m)
    BY <1>1, <1>2, <1>5, WasGrows
  <2>2. /\ Was(gone, k) \in ReceptionsOf(d) /\ events'[k] = events[Was(gone, k)]
        /\ Was(gone, m) \in ReceptionsOf(d) /\ events'[m] = events[Was(gone, m)]
    BY <1>1, <1>2
  <2>3. /\ events[Was(gone, k)].frame.packet.n < events[Was(gone, m)].frame.packet.n
        /\ events[Was(gone, m)].in >= events[Was(gone, k)].in + events[Was(gone, m)].tx
    BY <2>1, <2>2, Zenon DEF OnWire
  <2> QED BY <2>2, <2>3
<1> QED BY <1>3, <1>4, <1>5 DEF OnWire

\* What is true of d's completion stays true when its transmitter does.
LEMMA CompletesKept ==
  ASSUME TimedTypeOK, TimedTypeOK', NEW gone, NEW n, Keeps(gone, n), NEW d \in Devices,
         Completes(d), gone \notin CompletionsOf(d),
         \A k \in n + 1 .. Len(events') : k \notin CompletionsOf(d)',
         completions'[d] = completions[d], m_currentPkt'[d] = m_currentPkt[d]
  PROVE  Completes(d)'
<1>1. /\ gone \in Nat /\ n \in Nat
      /\ \A k \in 1 .. n : /\ k \in CompletionsOf(d)' => Was(gone, k) \in CompletionsOf(d)
                           /\ events'[k] = events[Was(gone, k)]
      /\ \A i \in CompletionsOf(d) :
           \E k \in 1 .. n : i = Was(gone, k) /\ k \in CompletionsOf(d)'
  BY KeptEvents
<1>2. \A k \in CompletionsOf(d)' : k \in 1 .. n /\ k \in Nat
  <2>1. CompletionsOf(d)' \subseteq 1 .. Len(events') /\ Len(events') \in Nat
    BY DEF CompletionsOf, TimedTypeOK
  <2> QED BY <1>1, <2>1
<1>3. \A k \in CompletionsOf(d)' : completions'[d] = 1 /\ events'[k].frame = m_currentPkt'[d]
  BY <1>1, <1>2 DEF Completes
<1>4. ASSUME NEW k \in CompletionsOf(d)', NEW m \in CompletionsOf(d)' PROVE k = m
  <2>1. Was(gone, k) = Was(gone, m)
    BY <1>1, <1>2 DEF Completes
  <2> QED BY <1>1, <1>2, <2>1 DEF Was
<1>5. completions'[d] = 1 => CompletionsOf(d)' # {}
  BY <1>1 DEF Completes
<1> QED BY <1>3, <1>4, <1>5 DEF Completes

\* Nothing can be late that was not, unless a transmission ends or begins.
LEMMA LeavesKept ==
  ASSUME TimedTypeOK, TimedTypeOK', NEW gone, NEW n, Keeps(gone, n), NEW d \in Devices,
         Leaves(d), gone \notin CompletionsOf(d),
         \A k \in n + 1 .. Len(events') : k \notin ReceptionsOf(d)'
  PROVE  Leaves(d)'
<1>1. /\ gone \in Nat /\ n \in Nat
      /\ \A k \in 1 .. n : /\ k \in ReceptionsOf(d)' => Was(gone, k) \in ReceptionsOf(d)
                           /\ events'[k] = events[Was(gone, k)]
      /\ \A i \in CompletionsOf(d) :
           \E k \in 1 .. n : i = Was(gone, k) /\ k \in CompletionsOf(d)'
  BY KeptEvents
<1>2. \A k \in ReceptionsOf(d)' : k \in 1 .. n
  <2>1. ReceptionsOf(d)' \subseteq 1 .. Len(events') /\ Len(events') \in Nat
    BY DEF ReceptionsOf, TimedTypeOK
  <2> QED BY <1>1, <2>1
<1> SUFFICES ASSUME NEW k \in ReceptionsOf(d)'
             PROVE  \/ events'[k].in <= Delay
                    \/ \E c \in CompletionsOf(d)' : events'[k].in <= events'[c].in + Delay
  BY DEF Leaves
<1>3. Was(gone, k) \in ReceptionsOf(d) /\ events'[k] = events[Was(gone, k)]
  BY <1>1, <1>2
<1>4. CASE events[Was(gone, k)].in <= Delay
  BY <1>3, <1>4
<1>5. ASSUME NEW c \in CompletionsOf(d), events[Was(gone, k)].in <= events[c].in + Delay
      PROVE  \E b \in CompletionsOf(d)' : events'[k].in <= events'[b].in + Delay
  <2>1. PICK b \in 1 .. n : c = Was(gone, b) /\ b \in CompletionsOf(d)'
    BY <1>1
  <2> QED BY <1>1, <1>3, <1>5, <2>1
<1> QED BY <1>3, <1>4, <1>5 DEF Leaves

\* The same of what has waited.
LEMMA TimelyKept ==
  ASSUME TimedTypeOK, TimedTypeOK', NEW gone, NEW n, Keeps(gone, n), NEW d \in Devices,
         Timely(d), KeepsWaiting(d),
         \A k \in n + 1 .. Len(events') : k \notin (ReceptionsOf(d) \union CompletionsOf(d))'
  PROVE  Timely(d)'
<1>1. /\ gone \in Nat /\ n \in Nat
      /\ \A k \in 1 .. n : /\ k \in ReceptionsOf(d)' => Was(gone, k) \in ReceptionsOf(d)
                           /\ k \in CompletionsOf(d)' => Was(gone, k) \in CompletionsOf(d)
                           /\ events'[k] = events[Was(gone, k)]
  BY KeptEvents
<1>2. \A k \in ReceptionsOf(d)' \union CompletionsOf(d)' : k \in 1 .. n
  <2>1. /\ ReceptionsOf(d)' \subseteq 1 .. Len(events') /\ Len(events') \in Nat
        /\ CompletionsOf(d)' \subseteq 1 .. Len(events')
    BY DEF ReceptionsOf, CompletionsOf, TimedTypeOK
  <2> QED BY <1>1, <2>1
<1>3. /\ wire'[d] = wire[d] /\ m_queue'[d] = m_queue[d] /\ waited'[d] = waited[d]
      /\ Turn' = Turn /\ FullQueue' = FullQueue
  BY DEF KeepsWaiting, Turn, FullQueue, Longest
<1>4. ASSUME NEW k \in 1 .. Len(wire[d]), NEW i \in ReceptionsOf(d)',
             events'[i].frame = wire[d][k]
      PROVE  waited[d][k] + events'[i].in <= FullQueue + Longest(TxTimes) + Delay
  BY <1>1, <1>2, <1>4 DEF Timely
<1>5. ASSUME NEW c \in CompletionsOf(d)'
      PROVE  /\ events'[c].in <= Turn
             /\ \A q \in 1 .. Len(m_queue[d]) :
                  waited[d][Len(wire[d]) + q] + events'[c].in + (q - 1) * Turn <= FullQueue
  BY <1>1, <1>2 DEF Timely
<1> QED BY <1>3, <1>4, <1>5 DEF Timely

\* The transmitter's times are those of the longest frame and gap.
LEMMA TurnType ==
  /\ Turn \in Nat /\ FullQueue \in Nat /\ Longest(TxTimes) \in Nat
  /\ \A tx \in TxTimes : tx \in Nat /\ tx <= Longest(TxTimes)
  /\ \A tx \in TxTimes, gap \in Gaps : gap \in Nat /\ tx + gap <= Turn
<1>1. ASSUME NEW times \in {TxTimes, Gaps}
      PROVE  Longest(times) \in times /\ \A s \in times : s <= Longest(times)
  <2>1. \E t \in times : \A s \in times : s <= t
    BY TimesAssumption
  <2> QED BY <2>1, Zenon DEF Longest
<1>2. /\ Longest(TxTimes) \in Nat /\ \A tx \in TxTimes : tx \in Nat /\ tx <= Longest(TxTimes)
      /\ Longest(Gaps) \in Nat /\ \A gap \in Gaps : gap \in Nat /\ gap <= Longest(Gaps)
  BY <1>1, TimesAssumption
<1>3. Turn \in Nat /\ \A tx \in TxTimes, gap \in Gaps : tx + gap <= Turn
  BY <1>2 DEF Turn
<1>4. ASSUME NEW t \in Nat PROVE QueueLimit * t \in Nat
  BY BoundsAssumption
<1> QED BY <1>2, <1>3, <1>4 DEF FullQueue

LEMMA IndexIn ==
  \A m, n \in Nat : \A l : l = m + n =>
    (\A k \in 1 .. m : k \in 1 .. l) /\ (\A k \in 1 .. n : m + k \in 1 .. l)
OBVIOUS

\* Everything that is due comes nearer by as much as the frames wait longer.
LEMMA ElapseKeeps ==
  ASSUME TypeOK, TimedTypeOK, EventsOK, Elapse
  PROVE  TimedTypeOK' /\ EventsOK'
<1>1. /\ events \in Seq(Events) /\ waited \in [Devices -> Seq(Nat)]
      /\ DOMAIN events = 1 .. Len(events) /\ Len(events) \in Nat
  BY DEF TimedTypeOK
<1>2. /\ \A i \in DOMAIN events : events[i].in > 0
      /\ events' = [i \in DOMAIN events |-> [events[i] EXCEPT !.in = @ - 1]]
      /\ waited' = [d \in Devices |-> [i \in DOMAIN waited[d] |-> waited[d][i] + 1]]
      /\ UNCHANGED vars
  BY DEF Elapse
<1>3. /\ m_queue' = m_queue /\ wire' = wire /\ completions' = completions
      /\ m_currentPkt' = m_currentPkt
  BY <1>2 DEF vars, txVars
<1>4. ASSUME NEW e \in Events, e.in > 0
      PROVE  /\ [e EXCEPT !.in = @ - 1] \in Events
             /\ [e EXCEPT !.in = @ - 1].in = e.in - 1
  BY <1>4 DEF Events
<1>5. ASSUME NEW i \in 1 .. Len(events)
      PROVE  /\ events'[i] \in Events
             /\ events'[i].in = events[i].in - 1 /\ events[i].in \in Nat
             /\ events'[i].kind = events[i].kind /\ events'[i].dev = events[i].dev
             /\ events'[i].frame = events[i].frame /\ events'[i].tx = events[i].tx
             /\ events[i].tx \in Nat
  <2>1. events[i] \in Events /\ events[i].in > 0
    BY <1>1, <1>2
  <2>2. events'[i] = [events[i] EXCEPT !.in = @ - 1]
    BY <1>1, <1>2
  <2>3. events'[i] \in Events /\ events'[i].in = events[i].in - 1
    BY <1>4, <2>1, <2>2
  <2> QED BY <2>1, <2>2, <2>3, TimesAssumption DEF Events
<1>6. /\ events' \in Seq(Events) /\ Len(events') = Len(events)
      /\ DOMAIN events' = 1 .. Len(events)
  <2>1. events' = [i \in 1 .. Len(events) |-> events'[i]]
    BY <1>1, <1>2
  <2>2. \A i \in 1 .. Len(events) : events'[i] \in Events
    BY <1>5
  <2> QED BY <1>1, <2>1, <2>2
<1>7. ASSUME NEW d \in Devices
      PROVE  /\ waited'[d] \in Seq(Nat) /\ Len(waited'[d]) = Len(waited[d])
             /\ \A i \in 1 .. Len(waited[d]) :
                  waited'[d][i] = waited[d][i] + 1 /\ waited[d][i] \in Nat
  <2>1. waited[d] \in Seq(Nat) /\ waited'[d] = [i \in DOMAIN waited[d] |-> waited[d][i] + 1]
    BY <1>1, <1>2
  <2> DEFINE w == waited[d]
  <2>2. w \in Seq(Nat) /\ waited'[d] = [i \in DOMAIN w |-> w[i] + 1]
    BY <2>1
  <2> HIDE DEF w
  <2>3. /\ waited'[d] \in Seq(Nat) /\ Len(waited'[d]) = Len(w)
        /\ \A i \in 1 .. Len(w) : waited'[d][i] = w[i] + 1 /\ w[i] \in Nat
    BY <2>2
  <2> QED BY <2>3 DEF w
<1>8. TimedTypeOK'
  <2>1. waited' \in [Devices -> Seq(Nat)]
    BY <1>2, <1>7
  <2> QED BY <1>3, <1>6, <1>7, <2>1 DEF TimedTypeOK
<1>9. ASSUME NEW d \in Devices
      PROVE  /\ ReceptionsOf(d)' = ReceptionsOf(d) /\ ReceptionsOf(d) \subseteq 1 .. Len(events)
             /\ CompletionsOf(d)' = CompletionsOf(d) /\ CompletionsOf(d) \subseteq 1 .. Len(events)
  BY <1>1, <1>5, <1>6 DEF ReceptionsOf, CompletionsOf
<1> SUFFICES ASSUME NEW d \in Devices
             PROVE  Completes(d)' /\ OnWire(d)' /\ Leaves(d)' /\ Timely(d)'
  BY <1>8 DEF EventsOK
<1>10. Completes(d) /\ OnWire(d) /\ Leaves(d) /\ Timely(d)
  BY DEF EventsOK
<1>11. Completes(d)'
  BY <1>3, <1>5, <1>9, <1>10 DEF Completes
<1> PICK E, W : E = events' /\ W = waited'
  OBVIOUS
<1>12. ASSUME NEW i \in 1 .. Len(events)
       PROVE  /\ E[i].in = events[i].in - 1 /\ events[i].in \in Nat
              /\ E[i].tx = events[i].tx /\ events[i].tx \in Nat
  BY <1>5
<1>13. ASSUME NEW k \in 1 .. Len(waited[d])
       PROVE  W[d][k] = waited[d][k] + 1 /\ waited[d][k] \in Nat
  BY <1>7
<1>14. OnWire(d)'
  <2>1. ASSUME NEW i \in ReceptionsOf(d), NEW j \in ReceptionsOf(d), i < j
        PROVE  E[j].in >= E[i].in + E[j].tx
    <3>1. events[j].in >= events[i].in + events[j].tx
      BY <1>10, <2>1 DEF OnWire
    <3> QED BY <1>9, <1>12, <3>1
  <2>2. \A i, j \in ReceptionsOf(d) : i < j =>
          events'[i].frame.packet.n < events'[j].frame.packet.n
    BY <1>5, <1>9, <1>10 DEF OnWire
  <2>3. \A i, j \in ReceptionsOf(d)' : i < j =>
          events'[j].in >= events'[i].in + events'[j].tx
    BY <1>9, <2>1, Zenon
  <2> QED BY <1>3, <1>5, <1>9, <1>10, <2>2, <2>3 DEF OnWire
<1>15. Leaves(d)'
  <2>1. ASSUME NEW i \in ReceptionsOf(d)
        PROVE  E[i].in <= Delay \/ \E c \in CompletionsOf(d) : E[i].in <= E[c].in + Delay
    <3>1. CASE events[i].in <= Delay
      BY <1>9, <1>12, <3>1, TimesAssumption
    <3>2. ASSUME NEW c \in CompletionsOf(d), events[i].in <= events[c].in + Delay
          PROVE  E[i].in <= E[c].in + Delay
      <4>1. /\ E[i].in = events[i].in - 1 /\ events[i].in \in Nat
            /\ E[c].in = events[c].in - 1 /\ events[c].in \in Nat
        BY <1>9, <1>12
      <4> QED BY <3>2, <4>1, TimesAssumption
    <3> QED BY <1>10, <3>1, <3>2 DEF Leaves
  <2> QED BY <1>9, <2>1, Zenon DEF Leaves
<1>16. Timely(d)'
  <2>1. Turn' = Turn /\ FullQueue' = FullQueue
    BY DEF Turn, FullQueue, Longest
  <2>2. /\ Len(wire[d]) \in Nat /\ Len(m_queue[d]) \in Nat
        /\ Len(waited[d]) = Len(wire[d]) + Len(m_queue[d])
    <3>1. wire[d] \in Seq(Frames) /\ m_queue[d] \in Seq(Frames)
      BY DEF TypeOK
    <3>2. Len(wire[d]) \in Nat /\ Len(m_queue[d]) \in Nat
      BY <3>1
    <3>3. Len(waited[d]) = Len(wire[d]) + Len(m_queue[d])
      BY Zenon DEF TimedTypeOK
    <3> QED BY <3>2, <3>3
  <2>3. ASSUME NEW k \in 1 .. Len(wire[d]), NEW i \in ReceptionsOf(d),
               events[i].frame = wire[d][k]
        PROVE  W[d][k] + E[i].in = waited[d][k] + events[i].in
    <3>1. k \in 1 .. Len(waited[d])
      BY <2>2, IndexIn, Zenon
    <3>2. PICK x \in Nat : x = waited[d][k] /\ W[d][k] = x + 1
      BY <1>13, <3>1
    <3>3. PICK y \in Nat : y = events[i].in /\ E[i].in = y - 1
      BY <1>9, <1>12
    <3>4. (x + 1) + (y - 1) = x + y
      OBVIOUS
    <3> QED BY <3>2, <3>3, <3>4, Zenon
  <2>4. ASSUME NEW c \in CompletionsOf(d), NEW q \in 1 .. Len(m_queue[d])
        PROVE  W[d][Len(wire[d]) + q] + E[c].in
                 = waited[d][Len(wire[d]) + q] + events[c].in
    <3>1. PICK k \in 1 .. Len(waited[d]) : k = Len(wire[d]) + q
      BY <2>2, IndexIn, Zenon
    <3>2. W[d][k] + E[c].in = waited[d][k] + events[c].in
      <4>1. PICK x \in Nat : x = waited[d][k] /\ W[d][k] = x + 1
        BY <1>13
      <4>2. PICK y \in Nat : y = events[c].in /\ E[c].in = y - 1
        BY <1>9, <1>12
      <4>3. (x + 1) + (y - 1) = x + y
        OBVIOUS
      <4> QED BY <4>1, <4>2, <4>3, Zenon
    <3> QED BY <3>1, <3>2, Zenon
  <2>5. \A c \in CompletionsOf(d) : events'[c].in <= events[c].in /\ events'[c].in \in Int
    BY <1>5, <1>9
  <2>6. \A k \in 1 .. Len(wire'[d]), i \in ReceptionsOf(d)' : events'[i].frame = wire'[d][k] =>
          waited'[d][k] + events'[i].in <= FullQueue + Longest(TxTimes) + Delay
    BY <1>3, <1>5, <1>9, <1>10, <2>3 DEF Timely
  <2>7. \A c \in CompletionsOf(d)', q \in 1 .. Len(m_queue'[d]) :
          waited'[d][Len(wire'[d]) + q] + events'[c].in + (q - 1) * Turn <= FullQueue
    BY <1>3, <1>9, <1>10, <2>4 DEF Timely
  <2>8. \A c \in CompletionsOf(d)' : events'[c].in <= Turn
    <3>1. Turn \in Nat
      BY TurnType
    <3> QED BY <1>5, <1>9, <1>10, <2>5, <3>1 DEF Timely
  <2> QED BY <2>1, <2>6, <2>7, <2>8 DEF Timely
<1> QED BY <1>11, <1>14, <1>15, <1>16

\* After TransmitStart: its completion alone is pending, and one more reception.
LEMMA StartedEvents ==
  ASSUME TimedTypeOK, TimedTypeOK', NEW gone, NEW n, NEW d \in Devices, Starts(d, gone, n)
  PROVE  /\ gone \in Nat /\ n \in Nat
         /\ CompletionsOf(d)' = {n + 1} /\ n + 2 \in ReceptionsOf(d)'
         /\ \A k \in ReceptionsOf(d)' : k \in 1 .. n \/ k = n + 2
         /\ \A k \in 1 .. n : /\ k \in ReceptionsOf(d)' => Was(gone, k) \in ReceptionsOf(d)
                              /\ events'[k] = events[Was(gone, k)]
         /\ \A i \in ReceptionsOf(d) :
              \E k \in 1 .. n : i = Was(gone, k) /\ k \in ReceptionsOf(d)'
         /\ \E tx \in TxTimes, gap \in Gaps :
              /\ events'[n + 1].in = tx + gap /\ events'[n + 2].in = tx + Delay
              /\ events'[n + 2].tx = tx
         /\ \A i \in {n + 1, n + 2} : events'[i].frame = m_currentPkt'[d]
<1>1. /\ gone \in Nat /\ n \in Nat /\ Len(events') = n + 2
      /\ \A k \in 1 .. n : /\ k \in ReceptionsOf(d)' => Was(gone, k) \in ReceptionsOf(d)
                           /\ k \in CompletionsOf(d)' => Was(gone, k) \in CompletionsOf(d)
                           /\ events'[k] = events[Was(gone, k)]
                           /\ Was(gone, k) # gone
      /\ \A i \in ReceptionsOf(d) :
           \E k \in 1 .. n : i = Was(gone, k) /\ k \in ReceptionsOf(d)'
      /\ CompletionsOf(d) \subseteq {gone}
  BY KeptEvents DEF Starts
<1>2. PICK tx \in TxTimes, gap \in Gaps :
       /\ events'[n + 1] = [in |-> tx + gap, kind |-> "complete", dev |-> d,
                            frame |-> m_currentPkt'[d], tx |-> tx]
       /\ events'[n + 2] = [in |-> tx + Delay, kind |-> "receive", dev |-> Peer(d),
                            frame |-> m_currentPkt'[d], tx |-> tx]
  BY DEF Starts
<1>3. DOMAIN events' = 1 .. Len(events')
  BY DEF TimedTypeOK
<1>4. \A k \in 1 .. n + 2 : k \in 1 .. n \/ k = n + 1 \/ k = n + 2
  BY <1>1
<1>5. n + 1 \in DOMAIN events' /\ n + 2 \in DOMAIN events' /\ n + 1 # n + 2
  BY <1>1, <1>3
<1>6. /\ events'[n + 1].kind = "complete" /\ events'[n + 1].dev = d
      /\ events'[n + 2].kind = "receive" /\ events'[n + 2].dev = Peer(d)
      /\ events'[n + 1].in = tx + gap /\ events'[n + 2].in = tx + Delay
      /\ events'[n + 2].tx = tx /\ events'[n + 1].frame = m_currentPkt'[d]
      /\ events'[n + 2].frame = m_currentPkt'[d]
  BY <1>2
<1>7. /\ n + 1 \in CompletionsOf(d)' /\ n + 2 \notin CompletionsOf(d)'
      /\ n + 2 \in ReceptionsOf(d)' /\ n + 1 \notin ReceptionsOf(d)'
      /\ CompletionsOf(d)' \subseteq 1 .. n + 2 /\ ReceptionsOf(d)' \subseteq 1 .. n + 2
  BY <1>1, <1>3, <1>5, <1>6 DEF CompletionsOf, ReceptionsOf
<1>8. \A k \in 1 .. n : k \notin CompletionsOf(d)'
  BY <1>1
<1>9. CompletionsOf(d)' = {n + 1} /\ \A k \in ReceptionsOf(d)' : k \in 1 .. n \/ k = n + 2
  BY <1>4, <1>7, <1>8
<1> QED BY <1>1, <1>6, <1>7, <1>9

LEMMA StartCompletes ==
  ASSUME TimedTypeOK, TimedTypeOK', NEW gone, NEW n, NEW d \in Devices, Starts(d, gone, n)
  PROVE  Completes(d)'
BY StartedEvents DEF Starts, Completes

\* With the transmitter free again, all that is on the wire has only the way to go.
LEMMA NoneBehindDelay ==
  ASSUME TimedTypeOK, NEW gone, NEW d \in Devices, Leaves(d), CompletionsOf(d) \subseteq {gone},
         gone \in 1 .. Len(events) => events[gone].in = 0
  PROVE  \A i \in ReceptionsOf(d) : events[i].in <= Delay
<1> SUFFICES ASSUME NEW i \in ReceptionsOf(d), NEW c \in CompletionsOf(d),
                    events[i].in <= events[c].in + Delay
             PROVE  events[i].in <= Delay
  BY DEF Leaves
<1>1. events[c].in = 0
  BY EventsType
<1>2. 0 + Delay = Delay
  BY TimesAssumption
<1> QED BY <1>1, <1>2, Zenon

LEMMA StartLeaves ==
  ASSUME TimedTypeOK, TimedTypeOK', NEW gone, NEW n, NEW d \in Devices, Starts(d, gone, n),
         Leaves(d)
  PROVE  Leaves(d)'
<1>1. \A i \in ReceptionsOf(d) : events[i].in <= Delay
  BY NoneBehindDelay DEF Starts
<1>2. ASSUME NEW k \in ReceptionsOf(d)', k \in 1 .. n
      PROVE  events'[k].in <= Delay
  BY <1>1, <1>2, StartedEvents
<1>3. \E c \in CompletionsOf(d)' : events'[n + 2].in <= events'[c].in + Delay
  <2>1. PICK tx \in TxTimes, gap \in Gaps :
          events'[n + 1].in = tx + gap /\ events'[n + 2].in = tx + Delay
    BY StartedEvents
  <2>2. tx + Delay <= (tx + gap) + Delay
    BY TimesAssumption
  <2> QED BY <2>1, <2>2, StartedEvents
<1>4. \A k \in ReceptionsOf(d)' : k \in 1 .. n \/ k = n + 2
  BY StartedEvents
<1> QED BY <1>2, <1>3, <1>4, Zenon DEF Leaves

\* A frame that is transmitted has a higher number than those on the wire before it.
WireInOrder ==
  \A d \in Devices : \A k, m \in 1 .. Len(wire[d]) :
    k < m => wire[d][k].packet.n < wire[d][m].packet.n

\* The wire after TransmitStart.
LEMMA StartedWire ==
  ASSUME TypeOK, TypeOK', NEW d \in Devices, WireInOrder',
         wire'[d] = Append(wire[d], m_currentPkt'[d])
  PROVE  /\ Len(wire[d]) \in Nat /\ Len(wire'[d]) = Len(wire[d]) + 1
         /\ wire'[d][Len(wire[d]) + 1] = m_currentPkt'[d]
         /\ \A k \in 1 .. Len(wire[d]) :
              /\ k \in 1 .. Len(wire'[d]) /\ wire'[d][k] = wire[d][k]
              /\ wire[d][k].packet.n < m_currentPkt'[d].packet.n
              /\ wire[d][k] # m_currentPkt'[d]
         /\ \A k \in 1 .. Len(wire'[d]) : k \in 1 .. Len(wire[d]) \/ k = Len(wire[d]) + 1
<1> DEFINE w == wire[d]
<1>1. w \in Seq(Frames) /\ wire'[d] \in Seq(Frames)
  BY DEF TypeOK
<1> PICK f, v : f = m_currentPkt'[d] /\ v = wire'[d]
  OBVIOUS
<1>2. v = Append(w, f) /\ v \in Seq(Frames)
  BY <1>1
<1> HIDE DEF w
<1>3. /\ Len(w) \in Nat /\ Len(v) = Len(w) + 1 /\ v[Len(w) + 1] = f
      /\ \A k \in 1 .. Len(w) : k \in 1 .. Len(v) /\ v[k] = w[k]
      /\ \A k \in 1 .. Len(v) : k \in 1 .. Len(w) \/ k = Len(w) + 1
  BY <1>1, <1>2
<1>4. f \in Frames /\ \A k \in 1 .. Len(w) : w[k] \in Frames
  BY <1>1, <1>2, <1>3
<1>5. ASSUME NEW k \in 1 .. Len(w)
      PROVE  w[k].packet.n < f.packet.n /\ w[k] # f
  <2>1. k < Len(w) + 1 /\ k \in 1 .. Len(v) /\ Len(w) + 1 \in 1 .. Len(v)
    BY <1>3
  <2>2. v[k].packet.n < v[Len(w) + 1].packet.n
    BY <2>1, Zenon DEF WireInOrder
  <2>3. f.packet.n \in Nat
    BY <1>4 DEF Frames, Packets, Devices
  <2> QED BY <1>3, <2>2, <2>3
<1> QED BY <1>3, <1>5 DEF w

LEMMA StartOnWire ==
  ASSUME TypeOK, TypeOK', TimedTypeOK, TimedTypeOK', WireInOrder', NEW gone, NEW n,
         NEW d \in Devices, Starts(d, gone, n), OnWire(d), Leaves(d)
  PROVE  OnWire(d)'
<1> DEFINE f == m_currentPkt'[d]
           l == Len(wire[d])
<1>1. /\ l \in Nat /\ Len(wire'[d]) = l + 1 /\ wire'[d][l + 1] = f
      /\ \A k \in 1 .. l : /\ k \in 1 .. Len(wire'[d]) /\ wire'[d][k] = wire[d][k]
                           /\ wire[d][k].packet.n < f.packet.n
      /\ \A k \in 1 .. Len(wire'[d]) : k \in 1 .. l \/ k = l + 1
  BY StartedWire DEF Starts
<1>2. /\ gone \in Nat /\ n \in Nat /\ n + 2 \in ReceptionsOf(d)' /\ events'[n + 2].frame = f
      /\ \A k \in ReceptionsOf(d)' : k \in 1 .. n \/ k = n + 2
      /\ \A k \in 1 .. n : /\ k \in ReceptionsOf(d)' => Was(gone, k) \in ReceptionsOf(d)
                           /\ events'[k] = events[Was(gone, k)]
      /\ \A i \in ReceptionsOf(d) :
           \E k \in 1 .. n : i = Was(gone, k) /\ k \in ReceptionsOf(d)'
  BY StartedEvents
<1> HIDE DEF f, l
<1>3. l + 1 \in 1 .. Len(wire'[d])
  BY <1>1
<1>4. \A i \in ReceptionsOf(d) : \E k \in 1 .. l : events[i].frame = wire[d][k]
  BY DEF OnWire, l
<1>5. ASSUME NEW k \in ReceptionsOf(d)'
      PROVE  \E m \in 1 .. Len(wire'[d]) : events'[k].frame = wire'[d][m]
  <2>1. CASE k \in 1 .. n
    BY <1>1, <1>2, <1>4, <2>1
  <2>2. CASE k = n + 2
    BY <1>1, <1>2, <1>3, <2>2
  <2> QED BY <1>2, <2>1, <2>2
<1>6. ASSUME NEW m \in 1 .. Len(wire'[d])
      PROVE  \E k \in ReceptionsOf(d)' : events'[k].frame = wire'[d][m]
  <2>1. CASE m \in 1 .. l
    <3>1. PICK i \in ReceptionsOf(d) : events[i].frame = wire[d][m]
      BY <2>1 DEF OnWire, l
    <3>2. PICK k \in 1 .. n : i = Was(gone, k) /\ k \in ReceptionsOf(d)'
      BY <1>2
    <3> QED BY <1>1, <1>2, <2>1, <3>1, <3>2
  <2>2. CASE m = l + 1
    BY <1>1, <1>2, <2>2
  <2> QED BY <1>1, <2>1, <2>2
<1>7. ASSUME NEW k \in ReceptionsOf(d)', NEW m \in ReceptionsOf(d)', k < m
      PROVE  /\ events'[k].frame.packet.n < events'[m].frame.packet.n
             /\ events'[m].in >= events'[k].in + events'[m].tx
  <2>1. k \in 1 .. n
    BY <1>2, <1>7
  <2>2. Was(gone, k) \in ReceptionsOf(d) /\ events'[k] = events[Was(gone, k)]
    BY <1>2, <2>1
  <2>3. CASE m \in 1 .. n
    <3>1. Was(gone, m) \in ReceptionsOf(d) /\ events'[m] = events[Was(gone, m)]
      BY <1>2, <2>3
    <3>2. Was(gone, k) < Was(gone, m)
      BY <1>2, <1>7, <2>1, <2>3, WasGrows
    <3> QED BY <2>2, <3>1, <3>2 DEF OnWire
  <2>4. CASE m = n + 2
    <3>1. events'[k].frame.packet.n < f.packet.n
      BY <1>1, <1>4, <2>2
    <3>2. PICK x \in Nat : x = events'[k].in /\ x <= Delay
      <4>1. \A i \in ReceptionsOf(d) : events[i].in <= Delay /\ events[i].in \in Nat
        BY NoneBehindDelay, EventsType DEF Starts
      <4> QED BY <2>2, <4>1
    <3>3. PICK tx \in TxTimes : events'[m].in = tx + Delay /\ events'[m].tx = tx
      BY <2>4, StartedEvents
    <3>4. tx + Delay >= x + tx
      BY <3>2, TimesAssumption
    <3>5. events'[m].frame = f
      BY <1>2, <2>4
    <3> QED BY <3>1, <3>2, <3>3, <3>4, <3>5
  <2> QED BY <1>2, <2>3, <2>4
<1> QED BY <1>5, <1>6, <1>7 DEF OnWire

\* The time of a place in the queue.
LEMMA TurnGrows ==
  \A q \in Nat : /\ q * Turn \in Nat /\ (q + 1) * Turn = q * Turn + Turn
                 /\ q <= QueueLimit => q * Turn <= FullQueue
<1>1. ASSUME NEW q \in Nat, NEW t \in Nat PROVE q * t \in Nat /\ (q + 1) * t = q * t + t
  BY <1>1
<1>2. ASSUME NEW q \in Nat, NEW t \in Nat, q <= QueueLimit PROVE q * t <= QueueLimit * t
  <2>1. PICK j \in Nat : QueueLimit = q + j
    <3>1. QueueLimit - q \in Nat /\ QueueLimit = q + (QueueLimit - q)
      BY <1>2, BoundsAssumption
    <3> QED BY <3>1
  <2>2. (q + j) * t = q * t + j * t /\ j * t \in Nat /\ q * t \in Nat
    OBVIOUS
  <2> QED BY <2>1, <2>2
<1> QED BY <1>1, <1>2, TurnType DEF FullQueue

LEMMA StartTimely ==
  ASSUME TypeOK, TypeOK', TimedTypeOK, TimedTypeOK', WireInOrder', NEW gone, NEW n,
         NEW d \in Devices, Starts(d, gone, n), Timely(d), OnWire(d),
         \A k \in 1 .. Len(wire[d]) : waited'[d][k] = waited[d][k],
         waited'[d][Len(wire[d]) + 1] \in 0 .. FullQueue,
         \A q \in 1 .. Len(m_queue'[d]) :
           /\ waited'[d][Len(wire'[d]) + q] \in Nat
           /\ waited'[d][Len(wire'[d]) + q] + q * Turn <= FullQueue
  PROVE  Timely(d)'
<1> DEFINE f == m_currentPkt'[d]
           l == Len(wire[d])
<1>1. /\ l \in Nat /\ wire'[d][l + 1] = f
      /\ \A k \in 1 .. l : wire'[d][k] = wire[d][k] /\ wire[d][k] # f
      /\ \A k \in 1 .. Len(wire'[d]) : k \in 1 .. l \/ k = l + 1
  BY StartedWire DEF Starts
<1>2. /\ gone \in Nat /\ n \in Nat /\ CompletionsOf(d)' = {n + 1} /\ events'[n + 2].frame = f
      /\ \A k \in ReceptionsOf(d)' : k \in 1 .. n \/ k = n + 2
      /\ \A k \in 1 .. n : /\ k \in ReceptionsOf(d)' => Was(gone, k) \in ReceptionsOf(d)
                           /\ events'[k] = events[Was(gone, k)]
  BY StartedEvents
<1>3. PICK tx \in TxTimes, gap \in Gaps :
        events'[n + 1].in = tx + gap /\ events'[n + 2].in = tx + Delay
  BY StartedEvents
<1>4. /\ \A k \in 1 .. l : waited'[d][k] = waited[d][k]
      /\ waited'[d][l + 1] \in 0 .. FullQueue
  OBVIOUS
<1>5. \A k \in 1 .. l, i \in ReceptionsOf(d) : events[i].frame = wire[d][k] =>
        waited[d][k] + events[i].in <= FullQueue + Longest(TxTimes) + Delay
  BY DEF Timely
<1>6. \A i \in ReceptionsOf(d) : \E k \in 1 .. l : events[i].frame = wire[d][k]
  BY DEF OnWire
<1>7. Turn' = Turn /\ FullQueue' = FullQueue
  BY DEF Turn, FullQueue, Longest
<1> HIDE DEF f, l
<1>8. ASSUME NEW k \in 1 .. Len(wire'[d]), NEW i \in ReceptionsOf(d)',
             events'[i].frame = wire'[d][k]
      PROVE  waited'[d][k] + events'[i].in <= FullQueue + Longest(TxTimes) + Delay
  <2>1. CASE i \in 1 .. n
    <3>1. Was(gone, i) \in ReceptionsOf(d) /\ events'[i] = events[Was(gone, i)]
      BY <1>2, <2>1
    <3>2. events'[i].frame # f
      BY <1>1, <1>6, <3>1
    <3>3. k \in 1 .. l /\ wire'[d][k] = wire[d][k]
      BY <1>1, <1>8, <3>2
    <3>4. events[Was(gone, i)].frame = wire[d][k]
      BY <1>8, <3>1, <3>3
    <3> QED BY <1>4, <1>5, <3>1, <3>3, <3>4
  <2>2. CASE i = n + 2
    <3>1. k = l + 1
      BY <1>1, <1>2, <1>8, <2>2
    <3>2. PICK w \in 0 .. FullQueue : w = waited'[d][k]
      BY <1>4, <3>1
    <3>3. w + (tx + Delay) <= FullQueue + Longest(TxTimes) + Delay
      BY <3>2, TurnType, TimesAssumption, SMTT(30)
    <3> QED BY <1>3, <2>2, <3>2, <3>3, Zenon
  <2> QED BY <1>2, <2>1, <2>2
<1>9. tx + gap \in Nat /\ tx + gap <= Turn
  BY TurnType
<1>10. ASSUME NEW q \in 1 .. Len(m_queue'[d])
       PROVE  waited'[d][Len(wire'[d]) + q] + (tx + gap) + (q - 1) * Turn <= FullQueue
  <2>1. PICK w \in Nat : w = waited'[d][Len(wire'[d]) + q] /\ w + q * Turn <= FullQueue
    OBVIOUS
  <2>2. q - 1 \in Nat /\ (q - 1) + 1 = q /\ q \in Nat
    OBVIOUS
  <2>3. q * Turn = (q - 1) * Turn + Turn /\ (q - 1) * Turn \in Nat
    BY <2>2, TurnGrows, Zenon
  <2>4. w + (tx + gap) + (q - 1) * Turn <= FullQueue
    <3>1. PICK x \in Nat, y \in Nat, t \in Nat, all \in Nat :
            x = (q - 1) * Turn /\ y = tx + gap /\ t = Turn /\ y <= t /\ all = FullQueue
      BY <1>9, <2>3, TurnType
    <3>2. w + (x + t) <= all
      BY <2>1, <2>3, <3>1
    <3>3. w + y + x <= all
      <4>1. y <= t
        BY <3>1
      <4> QED BY <3>2, <4>1
    <3> QED BY <3>1, <3>3
  <2> QED BY <2>1, <2>4
<1> QED BY <1>2, <1>3, <1>7, <1>8, <1>9, <1>10 DEF Timely

\* After the last transmission nothing is pending but receptions.
LEMMA IdleKeeps ==
  ASSUME TimedTypeOK, TimedTypeOK', NEW gone, NEW d \in Devices, Idles(d, gone),
         Completes(d), OnWire(d), Leaves(d), Timely(d)
  PROVE  Completes(d)' /\ OnWire(d)' /\ Leaves(d)' /\ Timely(d)'
<1> DEFINE n == Len(events')
<1>1. /\ Keeps(gone, n) /\ gone \notin ReceptionsOf(d) /\ wire'[d] = wire[d]
      /\ CompletionsOf(d) = {gone} /\ events[gone].in = 0
      /\ completions'[d] = 0 /\ KeepsWaiting(d)
  BY DEF Idles, KeepsWaiting
<1>2. n \in Nat /\ \A k \in n + 1 .. Len(events') : FALSE
  BY DEF TimedTypeOK
<1>3. OnWire(d)' /\ Timely(d)'
  BY <1>1, <1>2, OnWireKept, TimelyKept
<1>4. /\ \A k \in 1 .. n : /\ k \in ReceptionsOf(d)' => Was(gone, k) \in ReceptionsOf(d)
                           /\ k \in CompletionsOf(d)' => Was(gone, k) \in CompletionsOf(d)
                           /\ events'[k] = events[Was(gone, k)] /\ Was(gone, k) # gone
      /\ ReceptionsOf(d)' \subseteq 1 .. n /\ CompletionsOf(d)' \subseteq 1 .. n
  <2>1. DOMAIN events' = 1 .. n
    BY DEF TimedTypeOK
  <2>2. ReceptionsOf(d)' \subseteq 1 .. n /\ CompletionsOf(d)' \subseteq 1 .. n
    BY <2>1 DEF ReceptionsOf, CompletionsOf
  <2> HIDE DEF n
  <2> QED BY <1>1, <2>2, KeptEvents
<1> HIDE DEF n
<1>5. CompletionsOf(d)' = {}
  BY <1>1, <1>4
<1>6. Completes(d)'
  BY <1>1, <1>5 DEF Completes
<1>7. Leaves(d)'
  <2>1. \A i \in ReceptionsOf(d) : events[i].in <= Delay
    BY <1>1, NoneBehindDelay
  <2> QED BY <1>4, <2>1 DEF Leaves
<1> QED BY <1>3, <1>6, <1>7

LEMMA TailPlaces ==
  ASSUME NEW S, NEW s \in Seq(S), s # <<>>
  PROVE  /\ Len(s) \in Nat \ {0} /\ Len(Tail(s)) = Len(s) - 1
         /\ \A k \in 1 .. Len(Tail(s)) : k + 1 \in 1 .. Len(s) /\ Tail(s)[k] = s[k + 1]
         /\ \A k \in 1 .. Len(s) : k = 1 \/ k - 1 \in 1 .. Len(Tail(s))
OBVIOUS

\* The frame that arrives is the first on the wire, with its event and its time.
LEMMA ReceiveOnWire ==
  ASSUME TypeOK, TimedTypeOK, TimedTypeOK', WireInOrder, NEW gone, NEW d \in Devices,
         Receives(d, gone), OnWire(d)
  PROVE  OnWire(d)'
<1> DEFINE n == Len(events')
           w == wire[d]
<1>1. /\ Keeps(gone, n) /\ gone \in ReceptionsOf(d) /\ events[gone].frame = w[1]
      /\ wire'[d] = Tail(w) /\ w # <<>>
  BY DEF Receives
<1>2. /\ gone \in Nat /\ n \in Nat
      /\ \A k \in 1 .. n : /\ k \in ReceptionsOf(d)' => Was(gone, k) \in ReceptionsOf(d)
                           /\ events'[k] = events[Was(gone, k)] /\ Was(gone, k) # gone
      /\ \A i \in ReceptionsOf(d) \ {gone} :
           \E k \in 1 .. n : i = Was(gone, k) /\ k \in ReceptionsOf(d)'
  BY <1>1, KeptEvents
<1>3. ReceptionsOf(d)' \subseteq 1 .. n /\ ReceptionsOf(d) \subseteq Nat
  <2>1. DOMAIN events' = 1 .. n
    BY DEF TimedTypeOK
  <2> QED BY <2>1, EventsType DEF ReceptionsOf
<1>4. /\ Len(w) \in Nat \ {0} /\ Len(Tail(w)) = Len(w) - 1
      /\ \A k \in 1 .. Len(Tail(w)) : k + 1 \in 1 .. Len(w) /\ Tail(w)[k] = w[k + 1]
      /\ \A k \in 1 .. Len(w) : k = 1 \/ k - 1 \in 1 .. Len(Tail(w))
  <2>1. w \in Seq(Frames)
    BY DEF TypeOK
  <2> HIDE DEF w
  <2> QED BY <1>1, <2>1, TailPlaces
<1>5. /\ \A i \in ReceptionsOf(d) : \E k \in 1 .. Len(w) : events[i].frame = w[k]
      /\ \A k \in 1 .. Len(w) : \E i \in ReceptionsOf(d) : events[i].frame = w[k]
      /\ \A i, j \in ReceptionsOf(d) : i < j =>
           /\ events[i].frame.packet.n < events[j].frame.packet.n
           /\ events[j].in >= events[i].in + events[j].tx
      /\ \A k \in 1 .. Len(w) : 1 < k => w[1].packet.n < w[k].packet.n
  <2>1. \A k \in 1 .. Len(w) : 1 < k => w[1].packet.n < w[k].packet.n
    BY <1>4 DEF WireInOrder
  <2> QED BY <2>1 DEF OnWire
<1>6. \A i \in ReceptionsOf(d) : events[i].frame.packet.n \in Nat
  <2>1. \A f \in Frames : f.packet.n \in Nat
    BY DEF Frames, Packets, Devices
  <2> QED BY <2>1, EventsType
<1> HIDE DEF n, w
<1>7. \A i \in ReceptionsOf(d) \ {gone} : events[i].frame # w[1]
  <2> SUFFICES ASSUME NEW i \in ReceptionsOf(d) \ {gone}, events[i].frame = events[gone].frame
               PROVE  FALSE
    BY <1>1
  <2>1. i < gone \/ gone < i
    BY <1>2, <1>3
  <2>2. \/ events[i].frame.packet.n < events[gone].frame.packet.n
        \/ events[gone].frame.packet.n < events[i].frame.packet.n
    BY <1>1, <1>5, <2>1, Zenon
  <2>3. events[i].frame.packet.n \in Nat
    BY <1>6
  <2> QED BY <2>2, <2>3
<1>8. ASSUME NEW k \in ReceptionsOf(d)'
      PROVE  \E m \in 1 .. Len(Tail(w)) : events'[k].frame = Tail(w)[m]
  <2>1. /\ Was(gone, k) \in ReceptionsOf(d) \ {gone} /\ events'[k] = events[Was(gone, k)]
    BY <1>2, <1>3
  <2>2. PICK m \in 1 .. Len(w) : events'[k].frame = w[m]
    BY <1>5, <2>1
  <2>3. m - 1 \in 1 .. Len(Tail(w)) /\ (m - 1) + 1 = m
    BY <1>4, <1>7, <2>1, <2>2
  <2> QED BY <1>4, <2>2, <2>3
<1>9. ASSUME NEW m \in 1 .. Len(Tail(w))
      PROVE  \E k \in ReceptionsOf(d)' : events'[k].frame = Tail(w)[m]
  <2>1. m + 1 \in 1 .. Len(w) /\ Tail(w)[m] = w[m + 1] /\ 1 < m + 1
    BY <1>4
  <2>2. PICK i \in ReceptionsOf(d) : events[i].frame = w[m + 1]
    BY <1>5, <2>1
  <2>3. i # gone
    <3>1. w[1].packet.n < w[m + 1].packet.n
      BY <1>5, <2>1
    <3> QED BY <1>1, <1>6, <2>2, <3>1
  <2>4. PICK k \in 1 .. n : i = Was(gone, k) /\ k \in ReceptionsOf(d)'
    BY <1>2, <2>3
  <2> QED BY <1>2, <2>1, <2>2, <2>4
<1>10. ASSUME NEW k \in ReceptionsOf(d)', NEW m \in ReceptionsOf(d)', k < m
       PROVE  /\ events'[k].frame.packet.n < events'[m].frame.packet.n
              /\ events'[m].in >= events'[k].in + events'[m].tx
  <2>1. Was(gone, k) < Was(gone, m)
    BY <1>2, <1>3, <1>10, WasGrows
  <2> QED BY <1>2, <1>3, <1>5, <2>1
<1> QED BY <1>1, <1>8, <1>9, <1>10 DEF OnWire

LEMMA ReceiveTimely ==
  ASSUME TypeOK, TimedTypeOK, TimedTypeOK', NEW gone, NEW d \in Devices,
         Receives(d, gone), Timely(d)
  PROVE  Timely(d)'
<1> DEFINE n == Len(events')
           w == wire[d]
           t == waited[d]
<1>1. /\ Keeps(gone, n) /\ wire'[d] = Tail(w) /\ w # <<>>
      /\ m_queue'[d] = m_queue[d] /\ waited'[d] = Tail(t)
  BY DEF Receives
<1>2. /\ \A k \in 1 .. n : /\ k \in ReceptionsOf(d)' => Was(gone, k) \in ReceptionsOf(d)
                           /\ k \in CompletionsOf(d)' => Was(gone, k) \in CompletionsOf(d)
                           /\ events'[k] = events[Was(gone, k)]
      /\ ReceptionsOf(d)' \subseteq 1 .. n /\ CompletionsOf(d)' \subseteq 1 .. n
  <2>1. DOMAIN events' = 1 .. n
    BY DEF TimedTypeOK
  <2> QED BY <1>1, <2>1, KeptEvents DEF ReceptionsOf, CompletionsOf
<1>3. /\ w \in Seq(Frames) /\ t \in Seq(Nat) /\ m_queue[d] \in Seq(Frames)
  BY DEF TypeOK, TimedTypeOK
<1>4. Len(t) = Len(w) + Len(m_queue[d])
  BY DEF TimedTypeOK
<1>5. /\ \A k \in 1 .. Len(w), i \in ReceptionsOf(d) : events[i].frame = w[k] =>
           t[k] + events[i].in <= FullQueue + Longest(TxTimes) + Delay
      /\ \A c \in CompletionsOf(d) :
           /\ events[c].in <= Turn
           /\ \A q \in 1 .. Len(m_queue[d]) :
                t[Len(w) + q] + events[c].in + (q - 1) * Turn <= FullQueue
  BY DEF Timely
<1> HIDE DEF n, w, t
<1>6. /\ Len(w) \in Nat \ {0} /\ Len(Tail(w)) = Len(w) - 1
      /\ \A k \in 1 .. Len(Tail(w)) : k + 1 \in 1 .. Len(w) /\ Tail(w)[k] = w[k + 1]
      /\ Len(m_queue[d]) \in Nat
  BY <1>1, <1>3, TailPlaces
<1>7. t # <<>>
  BY <1>3, <1>4, <1>6
<1>8. /\ Len(Tail(t)) = Len(t) - 1
      /\ \A k \in 1 .. Len(Tail(t)) : Tail(t)[k] = t[k + 1]
  BY <1>3, <1>7, TailPlaces
<1>9. ASSUME NEW k \in 1 .. Len(Tail(w)), NEW i \in ReceptionsOf(d)',
             events'[i].frame = Tail(w)[k]
      PROVE  Tail(t)[k] + events'[i].in <= FullQueue + Longest(TxTimes) + Delay
  <2>1. k \in 1 .. Len(Tail(t)) /\ k + 1 \in 1 .. Len(w)
    BY <1>4, <1>6, <1>8
  <2>2. Tail(t)[k] = t[k + 1] /\ Tail(w)[k] = w[k + 1]
    BY <1>6, <1>8, <2>1
  <2> QED BY <1>2, <1>5, <1>9, <2>1, <2>2
<1>10. ASSUME NEW c \in CompletionsOf(d)'
       PROVE  events'[c].in <= Turn
  BY <1>2, <1>5
<1>11. ASSUME NEW c \in CompletionsOf(d)', NEW q \in 1 .. Len(m_queue[d])
       PROVE  Tail(t)[Len(Tail(w)) + q] + events'[c].in + (q - 1) * Turn <= FullQueue
  <2>1. Len(Tail(w)) + q \in 1 .. Len(Tail(t)) /\ (Len(Tail(w)) + q) + 1 = Len(w) + q
    BY <1>4, <1>6, <1>8
  <2>2. Tail(t)[Len(Tail(w)) + q] = t[Len(w) + q]
    BY <1>8, <2>1
  <2> QED BY <1>2, <1>5, <2>2
<1>12. Turn' = Turn /\ FullQueue' = FullQueue
  BY DEF Turn, FullQueue, Longest
<1> QED BY <1>1, <1>9, <1>10, <1>11, <1>12 DEF Timely

-----------------------------------------------------------------------------
(* The steps *)

LEMMA QuietKeeps ==
  ASSUME TimedTypeOK, EventsOK,
         UNCHANGED <<events, waited, wire, m_queue, completions, m_currentPkt>>
  PROVE  TimedTypeOK' /\ EventsOK'
<1>1. \A d \in Devices : CompletionsOf(d)' = CompletionsOf(d) /\ ReceptionsOf(d)' = ReceptionsOf(d)
  BY DEF CompletionsOf, ReceptionsOf
<1>2. Turn' = Turn /\ FullQueue' = FullQueue
  BY DEF Turn, FullQueue, Longest
<1>3. \A d \in Devices : Completes(d)' <=> Completes(d)
  BY <1>1, Zenon DEF Completes
<1>4. \A d \in Devices : OnWire(d)' <=> OnWire(d)
  BY <1>1, ZenonT(60) DEF OnWire
<1>5. \A d \in Devices : Leaves(d)' <=> Leaves(d)
  BY <1>1, Zenon DEF Leaves
<1>6. \A d \in Devices : Timely(d)' <=> Timely(d)
  BY <1>1, <1>2, ZenonT(60) DEF Timely
<1>7. TimedTypeOK'
  BY DEF TimedTypeOK
<1> QED BY <1>3, <1>4, <1>5, <1>6, <1>7 DEF EventsOK

\* A frame that is queued has the frames before it to wait for, and no more.
LEMMA EnqueueKeeps ==
  ASSUME TypeOK, TypeOK', TimedTypeOK, EventsOK, NEW d \in Devices, NEW f,
         m_queue' = [m_queue EXCEPT ![d] = Append(m_queue[d], f)],
         waited' = [waited EXCEPT ![d] = Append(waited[d], 0)],
         UNCHANGED <<events, wire, completions, m_currentPkt>>
  PROVE  TimedTypeOK' /\ EventsOK'
<1> DEFINE q == m_queue[d]
           t == waited[d]
           l == Len(wire[d])
<1>1. /\ q \in Seq(Frames) /\ t \in Seq(Nat) /\ wire[d] \in Seq(Frames)
      /\ m_queue'[d] \in Seq(Frames)
  BY DEF TypeOK, TimedTypeOK
<1>2. m_queue'[d] = Append(q, f) /\ waited'[d] = Append(t, 0)
  BY DEF TypeOK, TimedTypeOK
<1>3. Len(t) = l + Len(q) /\ Len(m_queue'[d]) <= QueueLimit
  BY DEF TimedTypeOK, TypeOK
<1>4. \A e \in Devices \ {d} : m_queue'[e] = m_queue[e] /\ waited'[e] = waited[e]
  BY DEF TypeOK, TimedTypeOK
<1>5. \A c \in CompletionsOf(d) :
        /\ events[c].in <= Turn /\ events[c].in \in Nat
        /\ \A p \in 1 .. Len(q) : t[l + p] + events[c].in + (p - 1) * Turn <= FullQueue
  BY EventsType DEF EventsOK, Timely
<1>6. \A k \in 1 .. l, i \in ReceptionsOf(d) : events[i].frame = wire[d][k] =>
        t[k] + events[i].in <= FullQueue + Longest(TxTimes) + Delay
  BY DEF EventsOK, Timely
<1>7. l \in Nat /\ Len(q) \in Nat
  BY <1>1
<1> HIDE DEF q, t, l
<1>8. /\ Append(t, 0) \in Seq(Nat) /\ Len(Append(t, 0)) = Len(t) + 1
      /\ Append(t, 0)[Len(t) + 1] = 0 /\ \A k \in 1 .. Len(t) : Append(t, 0)[k] = t[k]
      /\ Len(Append(q, f)) = Len(q) + 1
  BY <1>1, <1>2
<1>9. TimedTypeOK'
  <2>1. waited' \in [Devices -> Seq(Nat)]
    BY <1>2, <1>4, <1>8 DEF TimedTypeOK
  <2>2. ASSUME NEW e \in Devices
        PROVE  Len(waited'[e]) = Len(wire'[e]) + Len(m_queue'[e])
    <3>1. CASE e = d
      <4>1. Len(t) + 1 = l + (Len(q) + 1)
        BY <1>3, <1>7
      <4> QED BY <1>2, <1>8, <3>1, <4>1, Zenon DEF l
    <3>2. CASE e # d
      BY <1>4, <3>2, Zenon DEF TimedTypeOK
    <3> QED BY <3>1, <3>2
  <2> QED BY <2>1, <2>2 DEF TimedTypeOK
<1>10. \A e \in Devices : CompletionsOf(e)' = CompletionsOf(e) /\ ReceptionsOf(e)' = ReceptionsOf(e)
  BY DEF CompletionsOf, ReceptionsOf
<1>11. \A e \in Devices : Completes(e)' /\ OnWire(e)' /\ Leaves(e)'
  BY <1>10 DEF EventsOK, Completes, OnWire, Leaves
<1>12. Turn' = Turn /\ FullQueue' = FullQueue
  BY DEF Turn, FullQueue, Longest
<1>13. \A e \in Devices \ {d} : Timely(e)'
  BY <1>4, <1>10, <1>12 DEF EventsOK, Timely
<1>14. Timely(d)'
  <2>1. ASSUME NEW k \in 1 .. l, NEW i \in ReceptionsOf(d), events[i].frame = wire[d][k]
        PROVE  Append(t, 0)[k] + events[i].in <= FullQueue + Longest(TxTimes) + Delay
    <3>1. k \in 1 .. Len(t)
      BY <1>3, <1>7
    <3>2. Append(t, 0)[k] = t[k]
      BY <1>8, <3>1
    <3> QED BY <1>6, <2>1, <3>2
  <2>2. ASSUME NEW c \in CompletionsOf(d), NEW p \in 1 .. Len(q) + 1
        PROVE  Append(t, 0)[l + p] + events[c].in + (p - 1) * Turn <= FullQueue
    <3>1. CASE p \in 1 .. Len(q)
      <4>1. l + p \in 1 .. Len(t)
        BY <1>3, <1>7, <3>1
      <4>2. Append(t, 0)[l + p] = t[l + p]
        BY <1>8, <4>1
      <4>3. t[l + p] + events[c].in + (p - 1) * Turn <= FullQueue
        BY <1>5, <3>1, Zenon
      <4> QED BY <4>2, <4>3, Zenon
    <3>2. CASE p = Len(q) + 1
      <4>1. l + p = Len(t) + 1 /\ p - 1 = Len(q) /\ Len(q) + 1 <= QueueLimit
        BY <1>2, <1>3, <1>7, <1>8, <3>2
      <4>2. Append(t, 0)[l + p] = 0
        BY <1>8, <4>1
      <4>3. PICK x \in Nat, y \in Nat, z \in Nat, all \in Nat :
              x = events[c].in /\ y = Turn /\ z = Len(q) * Turn /\ all = FullQueue
        BY <1>5, <1>7, TurnType, TurnGrows
      <4>4. x <= y /\ z + y <= all
        <5>1. (Len(q) + 1) * Turn <= FullQueue /\ (Len(q) + 1) * Turn = Len(q) * Turn + Turn
          <6>1. Len(q) + 1 \in Nat
            BY <1>7
          <6> QED BY <1>7, <4>1, <6>1, TurnGrows, Zenon
        <5> QED BY <1>5, <4>3, <5>1
      <4>5. 0 + x + z <= all
        BY <4>4
      <4>6. (p - 1) * Turn = z
        BY <4>1, <4>3, Zenon
      <4>7. Append(t, 0)[l + p] + events[c].in + (p - 1) * Turn = 0 + x + z
        BY <4>2, <4>3, <4>6
      <4> QED BY <4>3, <4>5, <4>7
    <3>3. p \in 1 .. Len(q) \/ p = Len(q) + 1
      BY <1>7
    <3> QED BY <3>1, <3>2, <3>3, Zenon
  <2> QED BY <1>2, <1>5, <1>8, <1>10, <1>12, <2>1, <2>2 DEF Timely, l
<1> QED BY <1>9, <1>11, <1>13, <1>14 DEF EventsOK

\* A device whose events, wire and transmitter are left alone.
LEMMA OthersKeep ==
  ASSUME TimedTypeOK, TimedTypeOK', EventsOK, NEW gone, NEW n, NEW e \in Devices,
         KeepsEventsOf(e, gone, n), KeepsLink(e), KeepsWaiting(e)
  PROVE  Completes(e)' /\ OnWire(e)' /\ Leaves(e)' /\ Timely(e)'
<1>1. /\ Keeps(gone, n) /\ gone \notin ReceptionsOf(e) /\ gone \notin CompletionsOf(e)
      /\ \A k \in n + 1 .. Len(events') :
           /\ k \notin (ReceptionsOf(e) \union CompletionsOf(e))'
           /\ k \notin ReceptionsOf(e)' /\ k \notin CompletionsOf(e)'
  BY DEF KeepsEventsOf
<1>2. /\ wire'[e] = wire[e] /\ completions'[e] = completions[e]
      /\ m_currentPkt'[e] = m_currentPkt[e]
  BY DEF KeepsLink
<1>3. Completes(e) /\ OnWire(e) /\ Leaves(e) /\ Timely(e)
  BY DEF EventsOK
<1>4. Completes(e)'
  BY <1>1, <1>2, <1>3, CompletesKept
<1>5. OnWire(e)'
  BY <1>1, <1>2, <1>3, OnWireKept
<1>6. Leaves(e)'
  BY <1>1, <1>3, LeavesKept
<1>7. Timely(e)'
  BY <1>1, <1>3, TimelyKept
<1> QED BY <1>4, <1>5, <1>6, <1>7

\* TransmitStart, whether or not an event was executed to get there.
LEMMA ScheduledKeeps ==
  ASSUME TypeOK, TypeOK', TimedTypeOK, EventsOK, WireInOrder', NEW d \in Devices,
         NEW gone, NEW queue, Remain(queue, gone),
         SchedulesFrom(queue, d), m_currentPkt'[d] \in Frames,
         CompletionsOf(d) \subseteq {gone},
         gone \in 1 .. Len(events) => events[gone].in = 0,
         \A e \in Devices : gone \notin ReceptionsOf(e) /\ (e # d => gone \notin CompletionsOf(e)),
         completions'[d] = 1, wire'[d] = Append(wire[d], m_currentPkt'[d]),
         \A e \in Devices \ {d} : KeepsLink(e) /\ KeepsWaiting(e),
         waited' \in [Devices -> Seq(Nat)], Len(waited'[d]) = Len(wire'[d]) + Len(m_queue'[d]),
         \A k \in 1 .. Len(wire[d]) : waited'[d][k] = waited[d][k],
         waited'[d][Len(wire[d]) + 1] \in 0 .. FullQueue,
         \A q \in 1 .. Len(m_queue'[d]) :
           /\ waited'[d][Len(wire'[d]) + q] \in Nat
           /\ waited'[d][Len(wire'[d]) + q] + q * Turn <= FullQueue
  PROVE  TimedTypeOK' /\ EventsOK'
<1> DEFINE n == Len(queue)
           f == m_currentPkt'[d]
<1>1. PICK tx \in TxTimes, gap \in Gaps : events' = queue \o Scheduled(d, f, tx, gap)
  BY Zenon DEF SchedulesFrom
<1> DEFINE c == [in |-> tx + gap, kind |-> "complete", dev |-> d, frame |-> f, tx |-> tx]
           r == [in |-> tx + Delay, kind |-> "receive", dev |-> Peer(d), frame |-> f, tx |-> tx]
<1>2. /\ c \in Events /\ r \in Events /\ events' = queue \o <<c, r>>
      /\ c.kind = "complete" /\ c.dev = d /\ r.kind = "receive" /\ r.dev = Peer(d)
  <2>1. tx + gap \in Nat /\ tx + Delay \in Nat /\ Peer(d) \in Devices
    BY TimesAssumption, PeerType
  <2>2. events' = queue \o <<c, r>>
    BY <1>1, Zenon DEF Scheduled
  <2> QED BY <2>1, <2>2 DEF Events
<1>3. /\ events' \in Seq(Events) /\ Len(events') = n + 2 /\ n \in Nat
      /\ \A k \in 1 .. n : events'[k] = queue[k]
      /\ events'[n + 1] = c /\ events'[n + 2] = r
  <2>1. queue \in Seq(Events)
    BY DEF Remain
  <2> HIDE DEF c, r
  <2> QED BY <1>2, <2>1, KeepsScheduled
<1>4. TimedTypeOK'
  <2>1. ASSUME NEW e \in Devices
        PROVE  Len(waited'[e]) = Len(wire'[e]) + Len(m_queue'[e])
    <3>1. CASE e = d
      BY <3>1
    <3>2. CASE e # d
      BY <3>2, Zenon DEF KeepsWaiting, TimedTypeOK
    <3> QED BY <3>1, <3>2
  <2> QED BY <1>3, <2>1 DEF TimedTypeOK
<1>5. Keeps(gone, n)
  <2>1. n \in 0 .. Len(events')
    BY <1>3
  <2>2. \A k \in 1 .. n :
          Was(gone, k) \in 1 .. Len(events) \ {gone} /\ events'[k] = events[Was(gone, k)]
    BY <1>3 DEF Remain
  <2>3. /\ gone \in 1 .. Len(events) + 1
        /\ \A i \in 1 .. Len(events) \ {gone} : \E k \in 1 .. n : i = Was(gone, k)
    BY DEF Remain
  <2> QED BY <2>1, <2>2, <2>3, Zenon DEF Keeps
<1>6. Starts(d, gone, n)
  BY <1>3, <1>5 DEF Starts
<1>7. Completes(d)' /\ OnWire(d)' /\ Leaves(d)' /\ Timely(d)'
  <2>1. Completes(d) /\ OnWire(d) /\ Leaves(d) /\ Timely(d)
    BY DEF EventsOK
  <2>2. Completes(d)'
    BY <1>4, <1>6, StartCompletes
  <2>3. OnWire(d)' /\ Leaves(d)'
    BY <1>4, <1>6, <2>1, StartOnWire, StartLeaves
  <2>4. Timely(d)'
    BY <1>4, <1>6, <2>1, StartTimely
  <2> QED BY <2>2, <2>3, <2>4
<1>8. ASSUME NEW e \in Devices, e # d
      PROVE  Completes(e)' /\ OnWire(e)' /\ Leaves(e)' /\ Timely(e)'
  <2>1. ASSUME NEW k \in n + 1 .. Len(events')
        PROVE  k \notin (ReceptionsOf(e) \union CompletionsOf(e))'
    <3>1. k = n + 1 \/ k = n + 2
      BY <1>3
    <3>2. Peer(d) # Peer(e)
      BY <1>8, PeerType
    <3>3. events'[k] = c \/ events'[k] = r
      BY <1>3, <3>1
    <3> QED BY <1>2, <1>8, <3>2, <3>3 DEF ReceptionsOf, CompletionsOf
  <2>2. KeepsEventsOf(e, gone, n)
    BY <1>5, <1>8, <2>1 DEF KeepsEventsOf
  <2> QED BY <1>4, <1>8, <2>2, OthersKeep
<1> QED BY <1>4, <1>7, <1>8 DEF EventsOK

\* An event is executed that schedules none.
LEMMA RemovedKeeps ==
  ASSUME TimedTypeOK, NEW gone \in 1 .. Len(events), events' = RemoveAt(events, gone),
         waited' \in [Devices -> Seq(Nat)],
         \A d \in Devices : Len(waited'[d]) = Len(wire'[d]) + Len(m_queue'[d])
  PROVE  TimedTypeOK' /\ Keeps(gone, Len(events'))
<1> PICK queue : queue = events' /\ queue = RemoveAt(events, gone)
  OBVIOUS
<1>1. Remain(queue, gone)
  BY KeepsRemoved
<1>2. TimedTypeOK'
  BY <1>1 DEF TimedTypeOK, Remain
<1>3. Keeps(gone, Len(events'))
  <2>1. Len(events') \in 0 .. Len(events')
    BY <1>1 DEF Remain
  <2> QED BY <1>1, <2>1, Zenon DEF Keeps, Remain
<1> QED BY <1>2, <1>3

LEMMA RemovedOthers ==
  ASSUME TimedTypeOK, TimedTypeOK', EventsOK, NEW gone, Keeps(gone, Len(events')),
         NEW e \in Devices, gone \notin ReceptionsOf(e), gone \notin CompletionsOf(e),
         KeepsLink(e), KeepsWaiting(e)
  PROVE  Completes(e)' /\ OnWire(e)' /\ Leaves(e)' /\ Timely(e)'
<1>1. \A k \in Len(events') + 1 .. Len(events') : FALSE
  BY DEF TimedTypeOK
<1>2. KeepsEventsOf(e, gone, Len(events'))
  BY <1>1 DEF KeepsEventsOf
<1> QED BY <1>2, OthersKeep

\* The device that transmits next is the one whose completion or reception it is.
LEMMA WhoseEvent ==
  ASSUME TimedTypeOK, NEW i \in 1 .. Len(events), NEW d, d = events[i].dev
  PROVE  /\ d \in Devices /\ Peer(d) \in Devices /\ Peer(Peer(d)) = d
         /\ events[i].kind = "complete" =>
              /\ i \in CompletionsOf(d) /\ \A e \in Devices : i \notin ReceptionsOf(e)
              /\ \A e \in Devices \ {d} : i \notin CompletionsOf(e)
         /\ events[i].kind = "receive" =>
              /\ i \in ReceptionsOf(Peer(d)) /\ \A e \in Devices : i \notin CompletionsOf(e)
              /\ \A e \in Devices \ {Peer(d)} : i \notin ReceptionsOf(e)
<1>1. d \in Devices /\ i \in DOMAIN events
  BY EventsType
<1>2. /\ Peer(d) \in Devices /\ Peer(Peer(d)) = d
      /\ \A e \in Devices : Peer(e) = d => e = Peer(d)
  BY <1>1, PeerType
<1> QED BY <1>1, <1>2 DEF CompletionsOf, ReceptionsOf

\* The end of a transmission with an empty queue.
LEMMA RunIdleKeeps ==
  ASSUME TypeOK, TimedTypeOK, TransmitterOK, EventsOK, NEW i \in 1 .. Len(events),
         events[i].in = 0, events[i].kind = "complete", TransmitCompleteIdle(events[i].dev),
         events' = RemoveAt(events, i), UNCHANGED waited
  PROVE  TimedTypeOK' /\ EventsOK'
<1> PICK d : d = events[i].dev
  OBVIOUS
<1>1. /\ d \in Devices /\ i \in CompletionsOf(d) /\ \A e \in Devices : i \notin ReceptionsOf(e)
      /\ \A e \in Devices \ {d} : i \notin CompletionsOf(e)
  BY WhoseEvent
<1>2. /\ completions[d] = 1 /\ CompletionsOf(d) = {i}
  <2>1. Completes(d)
    BY <1>1, Zenon DEF EventsOK
  <2> QED BY <1>1, <2>1, Zenon DEF Completes
<1>3. /\ m_queue[d] = <<>> /\ UNCHANGED <<m_queue, wire>>
      /\ completions' = [completions EXCEPT ![d] = 0]
      /\ m_currentPkt' = [m_currentPkt EXCEPT ![d] = NoPacket]
  BY <1>2 DEF TransmitCompleteIdle
<1>4. TimedTypeOK' /\ Keeps(i, Len(events'))
  <2>1. \A e \in Devices : Len(waited'[e]) = Len(wire'[e]) + Len(m_queue'[e])
    BY <1>3 DEF TimedTypeOK
  <2>2. waited' \in [Devices -> Seq(Nat)]
    BY DEF TimedTypeOK
  <2> QED BY <2>1, <2>2, RemovedKeeps
<1>5. Completes(d)' /\ OnWire(d)' /\ Leaves(d)' /\ Timely(d)'
  <2>1. completions'[d] = 0
    BY <1>1, <1>3 DEF TypeOK
  <2>2. Idles(d, i)
    BY <1>1, <1>2, <1>3, <1>4, <2>1 DEF Idles, KeepsWaiting
  <2>3. Completes(d) /\ OnWire(d) /\ Leaves(d) /\ Timely(d)
    BY <1>1 DEF EventsOK
  <2> QED BY <1>1, <1>4, <2>2, <2>3, IdleKeeps
<1>6. ASSUME NEW e \in Devices, e # d
      PROVE  Completes(e)' /\ OnWire(e)' /\ Leaves(e)' /\ Timely(e)'
  <2>1. KeepsLink(e) /\ KeepsWaiting(e)
    BY <1>3, <1>6 DEF KeepsLink, KeepsWaiting, TypeOK
  <2> QED BY <1>1, <1>4, <1>6, <2>1, RemovedOthers
<1>7. \A e \in Devices : Completes(e)' /\ OnWire(e)' /\ Leaves(e)' /\ Timely(e)'
  BY <1>5, <1>6, Zenon
<1> QED BY <1>4, <1>7 DEF EventsOK

\* The reception that is executed is that of the first frame on the wire.
LEMMA FirstArrives ==
  ASSUME TypeOK, TimedTypeOK, WireInOrder, NEW d \in Devices, OnWire(d), wire[d] # <<>>,
         NEW i \in ReceptionsOf(d), events[i].in = 0, IsNext(i)
  PROVE  events[i].frame = wire[d][1]
<1> DEFINE w == wire[d]
<1>1. w \in Seq(Frames) /\ w # <<>>
  BY DEF TypeOK
<1>2. PICK k \in 1 .. Len(w) : events[i].frame = w[k]
  BY DEF OnWire
<1>3. \A m \in 1 .. Len(w) : 1 < m => w[1].packet.n < w[m].packet.n
  <2>1. 1 \in 1 .. Len(w)
    BY <1>1, <1>2
  <2> QED BY <2>1 DEF WireInOrder
<1>4. /\ \A j \in ReceptionsOf(d) : i < j => events[i].frame.packet.n < events[j].frame.packet.n
      /\ \A j \in ReceptionsOf(d) : j < i => events[i].in >= events[j].in + events[i].tx
      /\ \A m \in 1 .. Len(w) : \E j \in ReceptionsOf(d) : events[j].frame = w[m]
  BY DEF OnWire
<1> HIDE DEF w
<1>5. 1 \in 1 .. Len(w) /\ (k = 1 \/ 1 < k) /\ w[1].packet.n \in Nat /\ w[k].packet.n \in Nat
  <2>1. 1 \in 1 .. Len(w) /\ (k = 1 \/ 1 < k)
    BY <1>1, <1>2
  <2>2. \A f \in Frames : f.packet.n \in Nat
    BY DEF Frames, Packets, Devices
  <2> QED BY <1>1, <2>1, <2>2
<1>6. PICK j \in ReceptionsOf(d) : events[j].frame = w[1]
  BY <1>4, <1>5
<1>7. i \in Nat /\ j \in Nat /\ events[j].in \in Nat /\ events[i].tx \in Nat /\ j \in DOMAIN events
  BY EventsType
<1>8. CASE i = j
  BY <1>6, <1>8 DEF w
<1>9. CASE j < i
  <2>1. events[j].in <= 0
    <3>1. PICK x \in Nat, y \in Nat : x = events[j].in /\ y = events[i].tx
      BY <1>7
    <3>2. 0 >= x + y
      BY <1>4, <1>9, <3>1
    <3> QED BY <3>1, <3>2
  <2>2. events[i].in < events[j].in \/ i <= j
    BY <1>7 DEF IsNext
  <2> QED BY <1>7, <1>9, <2>1, <2>2
<1>10. CASE i < j
  <2>1. w[k].packet.n < w[1].packet.n
    BY <1>2, <1>4, <1>6, <1>10
  <2>2. k = 1 => FALSE
    BY <1>5, <2>1
  <2>3. 1 < k => FALSE
    BY <1>3, <1>5, <2>1
  <2> QED BY <1>5, <2>2, <2>3
<1> QED BY <1>7, <1>8, <1>9, <1>10

\* The frame due now is taken off the wire.
LEMMA RunReceiveKeeps ==
  ASSUME TypeOK, TimedTypeOK, WireInOrder, EventsOK, NEW i \in 1 .. Len(events),
         events[i].in = 0, IsNext(i), RunReceive(i)
  PROVE  TimedTypeOK' /\ EventsOK'
<1> PICK r, d : r = events[i].dev /\ d = Peer(r)
  OBVIOUS
<1>1. /\ events[i].kind = "receive" /\ Receive(r) /\ events' = RemoveAt(events, i)
      /\ waited' = [waited EXCEPT ![d] = Tail(waited[d])]
  BY DEF RunReceive
<1>2. /\ r \in Devices /\ d \in Devices /\ i \in ReceptionsOf(d)
      /\ \A e \in Devices : i \notin CompletionsOf(e)
      /\ \A e \in Devices \ {d} : i \notin ReceptionsOf(e)
  BY <1>1, WhoseEvent
<1>3. /\ wire[d] # <<>> /\ wire' = [wire EXCEPT ![d] = Tail(wire[d])]
      /\ UNCHANGED <<m_currentPkt, m_queue, completions>>
  BY <1>1 DEF Receive, ReceiveUp, ReceiveCorrupt
<1>4. /\ wire[d] \in Seq(Frames) /\ waited[d] \in Seq(Nat) /\ Len(m_queue[d]) \in Nat
  <2>1. m_queue[d] \in Seq(Frames)
    BY <1>2 DEF TypeOK
  <2> QED BY <1>2, <2>1 DEF TypeOK, TimedTypeOK
<1>5. Len(waited[d]) = Len(wire[d]) + Len(m_queue[d])
  BY <1>2 DEF TimedTypeOK
<1>6. /\ wire'[d] = Tail(wire[d]) /\ waited'[d] = Tail(waited[d])
      /\ \A e \in Devices \ {d} : wire'[e] = wire[e] /\ waited'[e] = waited[e]
  BY <1>1, <1>2, <1>3 DEF TypeOK, TimedTypeOK
<1>7. /\ Tail(waited[d]) \in Seq(Nat)
      /\ Len(Tail(waited[d])) = Len(Tail(wire[d])) + Len(m_queue[d])
  <2> DEFINE w == wire[d]  t == waited[d]  q == Len(m_queue[d])
  <2>1. w \in Seq(Frames) /\ t \in Seq(Nat) /\ w # <<>> /\ Len(t) = Len(w) + q /\ q \in Nat
    BY <1>3, <1>4, <1>5
  <2> HIDE DEF w, t, q
  <2>2. Len(w) \in Nat \ {0} /\ Len(Tail(w)) = Len(w) - 1
    BY <2>1
  <2>3. t # <<>>
    BY <2>1, <2>2
  <2>4. Tail(t) \in Seq(Nat) /\ Len(Tail(t)) = Len(t) - 1
    BY <2>1, <2>3
  <2>5. Len(Tail(t)) = Len(Tail(w)) + q
    BY <2>1, <2>2, <2>4
  <2> QED BY <2>4, <2>5 DEF w, t, q
<1>8. TimedTypeOK' /\ Keeps(i, Len(events'))
  <2>1. waited' \in [Devices -> Seq(Nat)]
    BY <1>1, <1>7 DEF TimedTypeOK
  <2>2. ASSUME NEW e \in Devices
        PROVE  Len(waited'[e]) = Len(wire'[e]) + Len(m_queue'[e])
    <3>1. CASE e = d
      BY <1>3, <1>6, <1>7, <3>1, Zenon
    <3>2. CASE e # d
      BY <1>3, <1>6, <3>2, Zenon DEF TimedTypeOK
    <3> QED BY <3>1, <3>2
  <2> QED BY <1>1, <2>1, <2>2, RemovedKeeps
<1>9. Completes(d)' /\ OnWire(d)' /\ Leaves(d)' /\ Timely(d)'
  <2>1. Completes(d) /\ OnWire(d) /\ Leaves(d) /\ Timely(d)
    BY <1>2, Zenon DEF EventsOK
  <2>2. events[i].frame = wire[d][1]
    BY <1>2, <1>3, <2>1, FirstArrives
  <2>3. Receives(d, i)
    BY <1>2, <1>3, <1>6, <1>8, <2>2 DEF Receives
  <2>4. OnWire(d)' /\ Timely(d)'
    BY <1>2, <1>8, <2>1, <2>3, ReceiveOnWire, ReceiveTimely
  <2>5. \A k \in Len(events') + 1 .. Len(events') : FALSE
    BY <1>8 DEF TimedTypeOK
  <2>6. Completes(d)' /\ Leaves(d)'
    BY <1>2, <1>3, <1>8, <2>1, <2>5, CompletesKept, LeavesKept
  <2> QED BY <2>4, <2>6
<1>10. ASSUME NEW e \in Devices, e # d
       PROVE  Completes(e)' /\ OnWire(e)' /\ Leaves(e)' /\ Timely(e)'
  <2>1. KeepsLink(e) /\ KeepsWaiting(e)
    BY <1>3, <1>6, <1>10 DEF KeepsLink, KeepsWaiting
  <2> QED BY <1>2, <1>8, <1>10, <2>1, RemovedOthers
<1>11. \A e \in Devices : Completes(e)' /\ OnWire(e)' /\ Leaves(e)' /\ Timely(e)'
  BY <1>9, <1>10, Zenon
<1> QED BY <1>8, <1>11 DEF EventsOK

\* The end of a transmission, with another frame in the queue.
LEMMA RunNextKeeps ==
  ASSUME TypeOK, TypeOK', TimedTypeOK, WireInOrder', EventsOK, NEW i \in 1 .. Len(events),
         events[i].in = 0, events[i].kind = "complete", TransmitCompleteNext(events[i].dev),
         SchedulesFrom(RemoveAt(events, i), events[i].dev), UNCHANGED waited
  PROVE  TimedTypeOK' /\ EventsOK'
<1> PICK d : d = events[i].dev
  OBVIOUS
<1> PICK queue : queue = RemoveAt(events, i)
  OBVIOUS
<1>1. /\ d \in Devices /\ i \in CompletionsOf(d) /\ \A e \in Devices : i \notin ReceptionsOf(e)
      /\ \A e \in Devices \ {d} : i \notin CompletionsOf(e)
  BY WhoseEvent
<1>2. completions[d] = 1 /\ CompletionsOf(d) = {i} /\ Timely(d)
  <2>1. Completes(d) /\ Timely(d)
    BY <1>1, Zenon DEF EventsOK
  <2> QED BY <1>1, <2>1, Zenon DEF Completes
<1> DEFINE q == m_queue[d]
           l == Len(wire[d])
           t == waited[d]
<1>3. /\ q # <<>> /\ m_queue' = [m_queue EXCEPT ![d] = Tail(q)]
      /\ wire' = [wire EXCEPT ![d] = Append(wire[d], Head(q))]
      /\ m_currentPkt' = [m_currentPkt EXCEPT ![d] = Head(q)]
      /\ completions' = [completions EXCEPT ![d] = (completions[d] - 1) + 1]
  BY DEF TransmitCompleteNext, TransmitStart, Dequeue
<1>4. q \in Seq(Frames) /\ wire[d] \in Seq(Frames) /\ t \in Seq(Nat)
  BY <1>1 DEF TypeOK, TimedTypeOK
<1>5. Len(t) = l + Len(q)
  BY <1>1 DEF TimedTypeOK
<1>6. /\ m_queue'[d] = Tail(q) /\ m_currentPkt'[d] = Head(q) /\ completions'[d] = 1
      /\ wire'[d] = Append(wire[d], Head(q)) /\ waited'[d] = t
      /\ \A e \in Devices \ {d} : KeepsLink(e) /\ KeepsWaiting(e)
  <2>1. (1 - 1) + 1 = 1
    OBVIOUS
  <2>2. /\ m_queue \in [Devices -> Seq(Frames)] /\ wire \in [Devices -> Seq(Frames)]
        /\ completions \in [Devices -> Nat] /\ DOMAIN m_currentPkt = Devices
    BY DEF TypeOK
  <2> HIDE DEF q, t
  <2>3. /\ m_queue'[d] = Tail(q) /\ m_currentPkt'[d] = Head(q) /\ completions'[d] = 1
        /\ wire'[d] = Append(wire[d], Head(q)) /\ waited' = waited
    BY <1>1, <1>2, <1>3, <2>1, <2>2
  <2>4. \A e \in Devices \ {d} : KeepsLink(e) /\ KeepsWaiting(e)
    BY <1>3, <2>2, <2>3 DEF KeepsLink, KeepsWaiting
  <2> QED BY <2>3, <2>4 DEF t
<1>7. \A p \in 1 .. Len(q) : t[l + p] + events[i].in + (p - 1) * Turn <= FullQueue
  BY <1>2 DEF Timely
<1>8. l \in Nat /\ Len(wire'[d]) = l + 1
  <2> DEFINE w == wire[d]
  <2>1. w \in Seq(Frames) /\ wire'[d] = Append(w, Head(q))
    BY <1>4, <1>6
  <2> HIDE DEF w
  <2>2. Len(w) \in Nat /\ Len(wire'[d]) = Len(w) + 1
    BY <2>1
  <2> QED BY <2>2 DEF w
<1> HIDE DEF q, l, t
<1>9. /\ Head(q) \in Frames /\ Tail(q) \in Seq(Frames) /\ Len(q) \in Nat \ {0}
      /\ Len(Tail(q)) = Len(q) - 1
  BY <1>3, <1>4
<1>10. \A p \in 1 .. Len(q) : t[l + p] \in Nat
  <2> TAKE p \in 1 .. Len(q)
  <2>1. l + p \in 1 .. Len(t)
    BY <1>5, <1>8, <1>9
  <2> QED BY <1>4, <2>1
<1>11. t[l + 1] \in 0 .. FullQueue
  <2>1. 1 \in 1 .. Len(q) /\ 1 - 1 = 0
    BY <1>9
  <2>2. t[l + 1] + events[i].in + (1 - 1) * Turn <= FullQueue /\ t[l + 1] \in Nat
    BY <1>7, <1>10, <2>1
  <2>3. 0 * Turn = 0
    BY TurnType
  <2>4. t[l + 1] + 0 + 0 <= FullQueue
    BY <2>1, <2>2, <2>3, Zenon
  <2> QED BY <2>2, <2>4, TurnType
<1>12. ASSUME NEW p \in 1 .. Len(Tail(q))
       PROVE  t[(l + 1) + p] \in Nat /\ t[(l + 1) + p] + p * Turn <= FullQueue
  <2>1. p + 1 \in 1 .. Len(q) /\ (p + 1) - 1 = p /\ l + (p + 1) = (l + 1) + p /\ p \in Nat
    BY <1>8, <1>9
  <2>2. /\ t[l + (p + 1)] + events[i].in + ((p + 1) - 1) * Turn <= FullQueue
        /\ t[l + (p + 1)] \in Nat
    BY <1>7, <1>10, <2>1, Zenon
  <2>3. t[(l + 1) + p] \in Nat /\ t[(l + 1) + p] + 0 + p * Turn <= FullQueue
    BY <2>1, <2>2, Zenon
  <2>4. p * Turn \in Nat
    BY <2>1, TurnGrows
  <2>5. t[(l + 1) + p] + 0 = t[(l + 1) + p]
    BY <2>3
  <2> QED BY <2>3, <2>5, Zenon
<1>13. Remain(queue, i)
  BY KeepsRemoved
<1>14. \A k \in 1 .. l : waited'[d][k] = t[k]
  BY <1>6
<1>15. Len(waited'[d]) = Len(wire'[d]) + Len(m_queue'[d])
  <2>1. Len(t) = (l + 1) + Len(Tail(q))
    BY <1>5, <1>8, <1>9
  <2> QED BY <1>6, <1>8, <2>1, Zenon
<1>16. SchedulesFrom(queue, d)
  BY DEF SchedulesFrom
<1>17. waited' \in [Devices -> Seq(Nat)]
  BY DEF TimedTypeOK
<1>18. /\ \A k \in 1 .. Len(wire[d]) : waited'[d][k] = waited[d][k]
       /\ waited'[d][Len(wire[d]) + 1] \in 0 .. FullQueue
       /\ \A p \in 1 .. Len(m_queue'[d]) :
            /\ waited'[d][Len(wire'[d]) + p] \in Nat
            /\ waited'[d][Len(wire'[d]) + p] + p * Turn <= FullQueue
  <2>1. waited'[d][l + 1] \in 0 .. FullQueue
    BY <1>6, <1>11, Zenon
  <2>2. \A p \in 1 .. Len(m_queue'[d]) :
          /\ waited'[d][Len(wire'[d]) + p] \in Nat
          /\ waited'[d][Len(wire'[d]) + p] + p * Turn <= FullQueue
    BY <1>6, <1>8, <1>12, Zenon
  <2> QED BY <1>14, <2>1, <2>2, Zenon DEF l, t
<1> QED BY <1>1, <1>2, <1>6, <1>9, <1>13, <1>15, <1>16, <1>17, <1>18, ScheduledKeeps, ZenonT(60)

\* Send on an idle transmitter, whose queue is empty.
LEMMA SendStartKeeps ==
  ASSUME TypeOK, TypeOK', TimedTypeOK, TransmitterOK, WireInOrder', EventsOK,
         NEW d \in Devices, NEW ether \in EtherTypes, SendStart(d, ether),
         SchedulesFrom(events, d), waited' = [waited EXCEPT ![d] = Append(waited[d], 0)]
  PROVE  TimedTypeOK' /\ EventsOK'
<1> DEFINE f == Framed(d, NewPacket(d, ether))
           l == Len(wire[d])
           t == waited[d]
<1> PICK gone : gone = Len(events) + 1
  OBVIOUS
<1> PICK queue : queue = events
  OBVIOUS
<1>1. f \in Frames
  BY FramedType DEF SendStart
<1>2. m_queue[d] = <<>> /\ completions[d] = 0
  BY DEF SendStart, Idle, TransmitterOK, DeviceOK
<1>3. Append(m_queue[d], f) = <<f>> /\ Head(<<f>>) = f /\ Tail(<<f>>) = <<>>
  BY <1>2
<1>4. /\ m_queue' = [m_queue EXCEPT ![d] = <<>>] /\ completions' = [completions EXCEPT ![d] = 0 + 1]
      /\ wire' = [wire EXCEPT ![d] = Append(wire[d], f)]
      /\ m_currentPkt' = [m_currentPkt EXCEPT ![d] = f]
  <2> HIDE DEF f
  <2> QED BY <1>2, <1>3 DEF SendStart, TransmitStart, Enqueue, Dequeue, f
<1>5. wire[d] \in Seq(Frames) /\ t \in Seq(Nat) /\ Len(t) = l + Len(m_queue[d])
  BY DEF TypeOK, TimedTypeOK
<1>6. l \in Nat /\ Len(t) = l
  <2>1. l \in Nat
    BY <1>5
  <2> QED BY <1>2, <1>5, <2>1
<1>7. /\ m_queue'[d] = <<>> /\ m_currentPkt'[d] = f /\ completions'[d] = 1
      /\ wire'[d] = Append(wire[d], f) /\ waited'[d] = Append(t, 0)
      /\ \A e \in Devices \ {d} : KeepsLink(e) /\ KeepsWaiting(e)
  <2>1. /\ m_queue \in [Devices -> Seq(Frames)] /\ wire \in [Devices -> Seq(Frames)]
        /\ completions \in [Devices -> Nat] /\ DOMAIN m_currentPkt = Devices
        /\ waited \in [Devices -> Seq(Nat)]
    BY DEF TypeOK, TimedTypeOK
  <2> HIDE DEF f
  <2>2. /\ m_queue'[d] = <<>> /\ m_currentPkt'[d] = f /\ completions'[d] = 1
        /\ wire'[d] = Append(wire[d], f) /\ waited'[d] = Append(t, 0)
    BY <1>4, <2>1
  <2>3. \A e \in Devices \ {d} : KeepsLink(e) /\ KeepsWaiting(e)
    BY <1>4, <2>1 DEF KeepsLink, KeepsWaiting
  <2> QED BY <2>2, <2>3
<1>8. Len(wire'[d]) = l + 1
  <2> DEFINE w == wire[d]
  <2>1. w \in Seq(Frames) /\ wire'[d] = Append(w, f)
    BY <1>5, <1>7
  <2> HIDE DEF w, f
  <2>2. Len(wire'[d]) = Len(w) + 1
    BY <2>1
  <2> QED BY <2>2 DEF w
<1> HIDE DEF l, t, f
<1>9. /\ Append(t, 0) \in Seq(Nat) /\ Len(Append(t, 0)) = l + 1 /\ Append(t, 0)[l + 1] = 0
      /\ \A k \in 1 .. l : Append(t, 0)[k] = t[k]
  BY <1>5, <1>6
<1>10. waited' \in [Devices -> Seq(Nat)]
  BY <1>9 DEF TimedTypeOK, t
<1>11. Len(waited'[d]) = Len(wire'[d]) + Len(m_queue'[d])
  <2>1. Len(<<>>) = 0 /\ l + 1 = (l + 1) + 0
    BY <1>6
  <2> QED BY <1>7, <1>8, <1>9, <2>1, Zenon
<1>12. CompletionsOf(d) \subseteq {gone}
  <2>1. Completes(d)
    BY Zenon DEF EventsOK
  <2> QED BY <1>2, <2>1 DEF Completes
<1>13. gone \notin 1 .. Len(events) /\ Remain(queue, gone)
  <2>1. gone \notin 1 .. Len(events)
    BY EventsType
  <2> QED BY <2>1, KeepsAll
<1>14. \A e \in Devices : gone \notin ReceptionsOf(e) /\ gone \notin CompletionsOf(e)
  BY <1>13, EventsType
<1>15. SchedulesFrom(queue, d)
  BY DEF SchedulesFrom
<1>16. /\ \A k \in 1 .. Len(wire[d]) : waited'[d][k] = waited[d][k]
       /\ waited'[d][Len(wire[d]) + 1] \in 0 .. FullQueue
       /\ \A p \in 1 .. Len(m_queue'[d]) :
            /\ waited'[d][Len(wire'[d]) + p] \in Nat
            /\ waited'[d][Len(wire'[d]) + p] + p * Turn <= FullQueue
  <2>1. 0 \in 0 .. FullQueue
    BY TurnType
  <2>2. \A p \in 1 .. Len(<<>>) : FALSE
    OBVIOUS
  <2> QED BY <1>7, <1>9, <2>1, <2>2, Zenon DEF l, t
<1> QED BY <1>1, <1>7, <1>10, <1>11, <1>12, <1>13, <1>14, <1>15, <1>16, ScheduledKeeps

LEMMA TimedInitOK == TimedInit => TimedTypeOK /\ EventsOK
<1> SUFFICES ASSUME TimedInit PROVE TimedTypeOK /\ EventsOK
  OBVIOUS
<1>1. /\ events = <<>> /\ waited = [d \in Devices |-> <<>>] /\ wire = [d \in Devices |-> <<>>]
      /\ m_queue = [d \in Devices |-> <<>>] /\ completions = [d \in Devices |-> 0]
  BY DEF TimedInit, Init
<1>2. TimedTypeOK
  BY <1>1 DEF TimedTypeOK
<1>3. \A d \in Devices : CompletionsOf(d) = {} /\ ReceptionsOf(d) = {}
  BY <1>1 DEF CompletionsOf, ReceptionsOf
<1>4. \A d \in Devices : Completes(d) /\ OnWire(d) /\ Leaves(d) /\ Timely(d)
  BY <1>1, <1>3 DEF Completes, OnWire, Leaves, Timely
<1> QED BY <1>2, <1>4 DEF EventsOK

LEMMA TimedStep ==
  ASSUME TypeOK, TypeOK', TransmitterOK, WireInOrder, WireInOrder', TimedTypeOK, EventsOK,
         [TimedNext]_timedVars
  PROVE  TimedTypeOK' /\ EventsOK'
<1>1. CASE UNCHANGED timedVars
  <2>1. UNCHANGED <<events, waited, wire, m_queue, completions, m_currentPkt>>
    BY <1>1 DEF timedVars, vars, txVars
  <2> QED BY <2>1, QuietKeeps
<1>2. CASE Elapse
  BY <1>2, ElapseKeeps
<1>3. CASE SetUp \/ SendDropped
  <2>1. UNCHANGED <<events, waited, wire, m_queue, completions, m_currentPkt>>
    BY <1>3 DEF SetUp, SendDropped, Attach, DoInitialize, SendLinkDown, SendOverflow, txVars
  <2> QED BY <2>1, QuietKeeps
<1>4. ASSUME NEW d \in Devices, NEW ether \in EtherTypes,
             SendEnqueue(d, ether), UNCHANGED events,
             waited' = [waited EXCEPT ![d] = Append(@, 0)]
      PROVE  TimedTypeOK' /\ EventsOK'
  <2> PICK f : f = Framed(d, NewPacket(d, ether))
    OBVIOUS
  <2>1. /\ m_queue' = [m_queue EXCEPT ![d] = Append(m_queue[d], f)]
        /\ UNCHANGED <<events, wire, completions, m_currentPkt>>
    BY <1>4 DEF SendEnqueue, Enqueue
  <2> QED BY <1>4, <2>1, EnqueueKeeps
<1>5. ASSUME NEW d \in Devices, NEW ether \in EtherTypes,
             SendStart(d, ether), SchedulesFrom(events, d),
             waited' = [waited EXCEPT ![d] = Append(@, 0)]
      PROVE  TimedTypeOK' /\ EventsOK'
  BY <1>5, SendStartKeeps
<1>6. ASSUME NEW i \in 1 .. Len(events), events[i].in = 0, IsNext(i), RunComplete(i)
      PROVE  TimedTypeOK' /\ EventsOK'
  BY <1>6, RunIdleKeeps, RunNextKeeps DEF RunComplete
<1>7. ASSUME NEW i \in 1 .. Len(events), events[i].in = 0, IsNext(i), RunReceive(i)
      PROVE  TimedTypeOK' /\ EventsOK'
  BY <1>7, RunReceiveKeeps
<1>8. DOMAIN events = 1 .. Len(events)
  BY EventsType
<1>9. CASE SendAccepted
  BY <1>4, <1>5, <1>9, Zenon DEF SendAccepted
<1>10. CASE RunEvent
  BY <1>6, <1>7, <1>8, <1>10, Zenon DEF RunEvent
<1> QED BY <1>1, <1>2, <1>3, <1>9, <1>10 DEF TimedNext

-----------------------------------------------------------------------------
(* The theorems *)

\* Every timed step is a step of the devices, or moves nothing but time.
LEMMA TimedStepIsStep ==
  ASSUME TimedTypeOK, [TimedNext]_timedVars
  PROVE  [Next]_vars
<1>1. UNCHANGED timedVars \/ Elapse => UNCHANGED vars
  BY DEF timedVars, Elapse
<1>2. SetUp => Next
  BY Zenon DEF SetUp, Next
<1>3. SendDropped => Next
  BY Zenon DEF SendDropped, Next, Send
<1>4. SendAccepted => Next
  BY Zenon DEF SendAccepted, Next, Send
<1>5. ASSUME NEW i \in DOMAIN events, RunComplete(i) \/ RunReceive(i)
      PROVE  Next
  <2>1. events[i].dev \in Devices
    BY EventsType
  <2>2. CASE RunComplete(i)
    BY <2>1, <2>2, Zenon DEF RunComplete, Next, TransmitComplete
  <2>3. CASE RunReceive(i)
    BY <2>1, <2>3, Zenon DEF RunReceive, Next
  <2> QED BY <1>5, <2>2, <2>3
<1>6. RunEvent => Next
  BY <1>5, Zenon DEF RunEvent
<1> QED BY <1>1, <1>2, <1>3, <1>4, <1>6 DEF TimedNext

LEMMA WireFromJourney == TypeOK /\ InOrder => WireInOrder
<1> SUFFICES ASSUME TypeOK, InOrder,
                    NEW d \in Devices, NEW k \in 1 .. Len(wire[d]), NEW m \in 1 .. Len(wire[d]),
                    k < m
             PROVE  wire[d][k].packet.n < wire[d][m].packet.n
  BY DEF WireInOrder
<1> DEFINE S == Deliveries \union Frames
           p == passedUp[Peer(d)]
           w == wire[d]
           q == m_queue[d]
           j == Journey(d)
<1>1. p \in Seq(Deliveries) /\ w \in Seq(Frames) /\ q \in Seq(Frames)
  BY PeerType DEF TypeOK
<1>2. p \in Seq(S) /\ w \in Seq(S) /\ q \in Seq(S) /\ j = (p \o w) \o q
  BY <1>1 DEF Journey
<1>3. \A i \in 1 .. Len(j) : \A h \in 1 .. i - 1 : j[h].packet.n < j[i].packet.n
  BY DEF InOrder
<1> HIDE DEF S, p, w, q, j
<1>4. /\ p \o w \in Seq(S) /\ Len(p \o w) = Len(p) + Len(w)
      /\ \A i \in 1 .. Len(p) + Len(w) :
           (p \o w)[i] = IF i <= Len(p) THEN p[i] ELSE w[i - Len(p)]
      /\ Len(p) \in Nat /\ Len(w) \in Nat /\ Len(q) \in Nat
  BY <1>2, ConcatProperties
<1>5. /\ Len(j) = (Len(p) + Len(w)) + Len(q)
      /\ \A i \in 1 .. Len(p) + Len(w) : j[i] = (p \o w)[i]
  <2> DEFINE b == p \o w
  <2>1. b \in Seq(S) /\ Len(b) = Len(p) + Len(w) /\ j = b \o q
    BY <1>2, <1>4
  <2> HIDE DEF b
  <2>2. /\ Len(b \o q) = Len(b) + Len(q)
        /\ \A i \in 1 .. Len(b) + Len(q) :
             (b \o q)[i] = IF i <= Len(b) THEN b[i] ELSE q[i - Len(b)]
    <3>1. b \in Seq(S) /\ q \in Seq(S)
      BY <1>2, <2>1
    <3> QED BY ONLY <3>1, ConcatProperties
  <2>3. \A i \in 1 .. Len(b) : j[i] = b[i]
    <3> TAKE i \in 1 .. Len(b)
    <3>1. i \in 1 .. Len(b) + Len(q) /\ i <= Len(b)
      BY <1>4, <2>1
    <3> QED BY <2>1, <2>2, <3>1
  <2> QED BY <2>1, <2>2, <2>3 DEF b
<1>6. ASSUME NEW i \in 1 .. Len(w)
      PROVE  Len(p) + i \in 1 .. Len(j) /\ j[Len(p) + i] = w[i]
  <2>1. /\ Len(p) + i \in 1 .. Len(p) + Len(w) /\ Len(p) + i \in 1 .. Len(j)
        /\ ~(Len(p) + i <= Len(p)) /\ (Len(p) + i) - Len(p) = i
    BY <1>4, <1>5
  <2> QED BY <1>4, <1>5, <2>1
<1>7. k \in 1 .. Len(w) /\ m \in 1 .. Len(w)
  BY DEF w
<1>8. Len(p) + k \in 1 .. (Len(p) + m) - 1
  BY <1>4, <1>7
<1>9. w[k].packet.n < w[m].packet.n
  BY <1>3, <1>6, <1>7, <1>8
<1> QED BY <1>9 DEF w

\* The inductive invariant of the timed devices.
TimedOK == TypeOK /\ TransmitterOK /\ LinkOK /\ TimedTypeOK /\ EventsOK

LEMMA WireOrdered == TimedOK => WireInOrder
BY JourneyInOrder, WireFromJourney DEF TimedOK

LEMMA TimedOKInit == TimedInit => TimedOK
BY TypeInit, TransmitterInit, LinkInit, TimedInitOK DEF TimedInit, TimedOK

LEMMA TimedOKStep == TimedOK /\ [TimedNext]_timedVars => TimedOK'
<1>1. TimedOK /\ [TimedNext]_timedVars => [Next]_vars
  BY TimedStepIsStep DEF TimedOK
<1>2. TimedOK /\ [Next]_vars => TypeOK' /\ TransmitterOK' /\ LinkOK'
  BY TypeStep, TransmitterStep, TrailsStep DEF TimedOK
<1>3. (TypeOK /\ LinkOK)' => WireInOrder'
  <2>1. TypeOK /\ LinkOK => WireInOrder
    BY JourneyInOrder, WireFromJourney
  <2> QED BY <2>1, PTL
<1>4. TimedOK /\ TypeOK' /\ WireInOrder' /\ [TimedNext]_timedVars => TimedTypeOK' /\ EventsOK'
  BY WireOrdered, TimedStep DEF TimedOK
<1> QED BY <1>1, <1>2, <1>3, <1>4 DEF TimedOK

LEMMA TimedInvariant == TimedSafeSpec => []TimedOK
BY TimedOKInit, TimedOKStep, PTL DEF TimedSafeSpec

\* Every behaviour under the event queue is one of the devices: the queue executes
\* a reception only for the first frame of a wire that is not empty, and the end of
\* a transmission only while one is going on.
THEOREM EventsRunDevices == TimedSafeSpec => Spec
<1>1. TimedInit => Init
  BY DEF TimedInit
<1>2. TimedOK /\ [TimedNext]_timedVars => [Next]_vars
  BY TimedStepIsStep DEF TimedOK
<1> QED BY <1>1, <1>2, TimedInvariant, PTL DEF TimedSafeSpec, Spec

\* From the event queue to the abstract channel: under the simulator's scheduling, what
\* Send accepts is passed up at the other end at most once and in order.
THEOREM EventsRunLink == TimedSafeSpec => Link!LSafeSpec
BY EventsRunDevices, DevicesAreLink, PTL

\* The receptions that are pending carry the frames of the wire, and will be executed
\* in the order of transmission, although frames may be due at the same time.
THEOREM WireIsQueue == TimedSafeSpec => []WireInEventOrder
<1>1. TimedOK => WireInEventOrder
  <2> SUFFICES ASSUME TimedOK, NEW d \in Devices
               PROVE  /\ {events[i].frame : i \in ReceptionsOf(d)} = Range(wire[d])
                      /\ \A i, j \in ReceptionsOf(d) : i < j =>
                           /\ events[i].in <= events[j].in
                           /\ events[i].frame.packet.n < events[j].frame.packet.n
    BY DEF WireInEventOrder
  <2>1. TypeOK /\ TimedTypeOK /\ OnWire(d)
    BY DEF TimedOK, EventsOK
  <2>2. {events[i].frame : i \in ReceptionsOf(d)} = Range(wire[d])
    <3> DEFINE w == wire[d]
    <3>1. w \in Seq(Frames)
      BY <2>1 DEF TypeOK
    <3>2. /\ \A i \in ReceptionsOf(d) : \E k \in 1 .. Len(w) : events[i].frame = w[k]
          /\ \A k \in 1 .. Len(w) : \E i \in ReceptionsOf(d) : events[i].frame = w[k]
      BY <2>1 DEF OnWire
    <3> HIDE DEF w
    <3>3. Range(w) = {w[k] : k \in 1 .. Len(w)}
      BY <3>1 DEF Range
    <3>4. {events[i].frame : i \in ReceptionsOf(d)} = Range(w)
      BY <3>2, <3>3
    <3> QED BY <3>4 DEF w
  <2>3. ASSUME NEW i \in ReceptionsOf(d), NEW j \in ReceptionsOf(d), i < j
        PROVE  /\ events[i].in <= events[j].in
               /\ events[i].frame.packet.n < events[j].frame.packet.n
    <3>1. /\ events[i].frame.packet.n < events[j].frame.packet.n
          /\ events[j].in >= events[i].in + events[j].tx
      BY <2>1, <2>3 DEF OnWire
    <3>2. PICK x \in Nat, y \in Nat, t \in Nat :
            x = events[i].in /\ y = events[j].in /\ t = events[j].tx /\ y >= x + t
      BY <2>1, <3>1, EventsType
    <3>3. x <= y
      BY <3>2
    <3> QED BY <3>1, <3>2, <3>3
  <2> QED BY <2>2, <2>3
<1> QED BY <1>1, TimedInvariant, PTL

\* A TransmitComplete event that is pending is the one of the current frame, and one
\* is pending exactly while the device transmits.
THEOREM OneCompletion == TimedSafeSpec => []CompletionIsCurrent
<1>1. TimedOK => CompletionIsCurrent
  <2> SUFFICES ASSUME TimedOK, NEW d \in Devices
               PROVE  /\ Cardinality(CompletionsOf(d)) = completions[d]
                      /\ \A i \in CompletionsOf(d) : events[i].frame = m_currentPkt[d]
    BY DEF CompletionIsCurrent
  <2>1. Completes(d) /\ DeviceOK(d)
    BY DEF TimedOK, EventsOK, TransmitterOK
  <2>2. completions[d] \in {0, 1}
    BY <2>1 DEF DeviceOK
  <2>3. CASE completions[d] = 0
    <3>1. CompletionsOf(d) = {}
      BY <2>1, <2>3 DEF Completes
    <3> QED BY <2>1, <2>3, <3>1, FS_EmptySet DEF Completes
  <2>4. CASE completions[d] = 1
    <3>1. PICK c : c \in CompletionsOf(d)
      BY <2>1, <2>4 DEF Completes
    <3>2. CompletionsOf(d) = {c}
      BY <2>1, <3>1 DEF Completes
    <3>3. Cardinality({c}) = 1
      BY FS_Singleton
    <3> QED BY <2>1, <2>4, <3>2, <3>3 DEF Completes
  <2> QED BY <2>2, <2>3, <2>4
<1> QED BY <1>1, TimedInvariant, PTL

\* The peer is never receiving two frames at once.
THEOREM ReceptionsApart == TimedSafeSpec => []FramesDoNotOverlap
<1>1. TimedOK => FramesDoNotOverlap
  BY DEF TimedOK, EventsOK, OnWire, FramesDoNotOverlap
<1> QED BY <1>1, TimedInvariant, PTL

\* A frame that Send accepted reaches the peer within the time that the current frame
\* and a full queue need, its own transmission and the propagation.
THEOREM FramesArriveInTime == TimedSafeSpec => []Punctual
<1>1. TimedOK => Punctual
  <2> SUFFICES ASSUME TimedOK, NEW d \in Devices, NEW k \in DOMAIN waited[d]
               PROVE  waited[d][k] <= FullQueue + Longest(TxTimes) + Delay
    BY DEF Punctual, WaitLimit, FullQueue, Turn
  <2>1. /\ TypeOK /\ TimedTypeOK /\ DeviceOK(d)
        /\ Completes(d) /\ OnWire(d) /\ Timely(d)
    BY DEF TimedOK, EventsOK, TransmitterOK
  <2> DEFINE w == wire[d]  q == m_queue[d]  t == waited[d]
  <2>2. w \in Seq(Frames) /\ q \in Seq(Frames) /\ t \in Seq(Nat)
    BY <2>1 DEF TypeOK, TimedTypeOK
  <2>3. Len(t) = Len(w) + Len(q)
    BY <2>1 DEF TimedTypeOK
  <2>4. k \in DOMAIN t
    OBVIOUS
  <2> HIDE DEF w, q, t
  <2>5. Len(w) \in Nat /\ Len(q) \in Nat /\ t[k] \in Nat
    BY <2>2, <2>4
  <2>6. k \in 1 .. Len(w) \/ \E p \in 1 .. Len(q) : k = Len(w) + p
    <3>1. k \in 1 .. Len(w) + Len(q)
      BY <2>2, <2>3, <2>4
    <3>2. k \in 1 .. Len(w) \/ (k - Len(w) \in 1 .. Len(q) /\ k = Len(w) + (k - Len(w)))
      BY <2>5, <3>1
    <3> QED BY <3>2
  <2>7. CASE k \in 1 .. Len(w)
    <3>1. PICK i \in ReceptionsOf(d) : events[i].frame = wire[d][k]
      BY <2>1, <2>7 DEF OnWire, w
    <3>2. t[k] + events[i].in <= FullQueue + Longest(TxTimes) + Delay
      BY <2>1, <2>7, <3>1 DEF Timely, w, t
    <3>3. events[i].in \in Nat
      BY <2>1, EventsType
    <3>4. t[k] <= FullQueue + Longest(TxTimes) + Delay
      BY <2>5, <3>2, <3>3, TurnType, TimesAssumption
    <3> QED BY <3>4 DEF t
  <2>8. ASSUME NEW p \in 1 .. Len(q), k = Len(w) + p
        PROVE  t[k] <= FullQueue + Longest(TxTimes) + Delay
    <3>1. completions[d] = 1
      <4>1. m_queue[d] # <<>>
        BY <2>2, <2>8 DEF q
      <4> QED BY <2>1, <4>1 DEF DeviceOK, TypeOK
    <3>2. PICK c \in CompletionsOf(d) : events[c].in \in Nat
      BY <2>1, <3>1, EventsType DEF Completes
    <3>3. t[Len(w) + p] + events[c].in + (p - 1) * Turn <= FullQueue
      BY <2>1 DEF Timely, w, q, t
    <3>4. p - 1 \in Nat /\ (p - 1) * Turn \in Nat
      <4>1. p - 1 \in Nat
        BY <2>5
      <4> QED BY <4>1, TurnGrows
    <3>5. PICK x \in Nat, y \in Nat : x = events[c].in /\ y = (p - 1) * Turn
      BY <3>2, <3>4
    <3>6. t[k] + x + y <= FullQueue
      BY <2>8, <3>3, <3>5
    <3>7. PICK full \in Nat, long \in Nat, z \in Nat :
            full = FullQueue /\ long = Longest(TxTimes) /\ z = t[k]
      BY <2>5, TurnType
    <3>8. z + x + y <= full /\ Delay \in Nat
      BY <3>6, <3>7, TimesAssumption
    <3>9. z <= full + long + Delay
      BY <3>8
    <3> QED BY <3>7, <3>9
  <2> QED BY <2>6, <2>7, <2>8 DEF t
<1> QED BY <1>1, TimedInvariant, PTL

\* While the queue disc is held back, the event that will wake it is due within the
\* longest time that a frame and the gap behind it may take.
THEOREM HeldBackForAFrame == TimedSafeSpec => []WokenWithinAFrame
<1>1. TimedOK => WokenWithinAFrame
  <2> SUFFICES ASSUME TimedOK, NEW d \in Devices, m_stoppedByDevice[d]
               PROVE  \E i \in CompletionsOf(d) : events[i].in <= Turn
    BY DEF WokenWithinAFrame, Turn
  <2>1. completions[d] = 1
    BY DEF TimedOK, TransmitterOK, DeviceOK
  <2>2. Completes(d) /\ Timely(d)
    BY DEF TimedOK, EventsOK
  <2> QED BY <2>1, <2>2 DEF Completes, Timely
<1> QED BY <1>1, TimedInvariant, PTL

\* ... and it wakes the queue: what is proved of the devices holds under the event
\* queue too.
THEOREM HeldBackUntilDequeue == TimedSafeSpec => FirstDequeueWakes
BY EventsRunDevices, WokenByFirstDequeue, PTL
=============================================================================
