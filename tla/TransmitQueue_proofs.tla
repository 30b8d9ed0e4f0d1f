------------------------ MODULE TransmitQueue_proofs ------------------------
(***************************************************************************)
(* Proofs about TransmitQueue, for every MaxSize, MTU, set of packet sizes *)
(* and of overheads.                                                       *)
(***************************************************************************)
EXTENDS TransmitQueue, WellFoundedInduction, SequenceTheorems, TLAPS

----------------------------------------------------------------------------
(* The sum of a queue's frames.  Induction is by a least counterexample.   *)

LEMMA LeastNumber ==
  ASSUME NEW T \in SUBSET Nat, T # {}
  PROVE  \E n \in T : \A m \in T : n <= m
<1> DEFINE R == OpToRel(<, Nat)
<1>1. IsWellFoundedOn(R, Nat)
  BY NatLessThanWellFounded, Zenon
<1>2. PICK n \in T : \A m \in T : ~ (<<m, n>> \in R)
  <2> HIDE DEF R
  <2> QED BY <1>1, WFMin
<1>3. \A m \in T : ~ (m < n)
  BY <1>2 DEF OpToRel
<1> QED BY <1>3

\* Induction over the numbers up to n, for a set.
LEMMA UpTo ==
  ASSUME NEW n \in Nat, NEW S, 0 \in S, \A k \in 0 .. n - 1 : k \in S => k + 1 \in S
  PROVE  \A k \in 0 .. n : k \in S
<1> DEFINE Missing == {k \in 0 .. n : k \notin S}
<1> SUFFICES ASSUME Missing # {} PROVE FALSE
  OBVIOUS
<1>1. Missing \in SUBSET Nat
  OBVIOUS
<1>2. PICK k \in Missing : \A m \in Missing : k <= m
  <2> HIDE DEF Missing
  <2> QED BY <1>1, LeastNumber
<1>3. k \in 1 .. n /\ k - 1 \notin Missing
  BY <1>2
<1>4. k - 1 \in 0 .. n - 1 /\ (k - 1) + 1 = k /\ k - 1 \in S
  BY <1>3
<1> QED BY <1>2, <1>4

\* c[k] is the sum of the first k frames, for k up to n.
Sums(frames, n, c) ==
  /\ c \in [0 .. n -> Nat]
  /\ c[0] = 0 /\ \A k \in 1 .. n : c[k] = c[k - 1] + frames[k]

LEMMA SumsOneMore ==
  ASSUME NEW frames, NEW n \in Nat, NEW c, Sums(frames, n, c), frames[n + 1] \in Nat
  PROVE  \E e : Sums(frames, n + 1, e) /\ e[n + 1] = c[n] + frames[n + 1]
<1> DEFINE e == [k \in 0 .. n + 1 |-> IF k <= n THEN c[k] ELSE c[n] + frames[n + 1]]
<1>1. e \in [0 .. n + 1 -> Nat] /\ e[0] = 0 /\ e[n + 1] = c[n] + frames[n + 1]
  BY DEF Sums
<1>2. ASSUME NEW k \in 1 .. n + 1 PROVE e[k] = e[k - 1] + frames[k]
  <2>1. CASE k \in 1 .. n
    BY <2>1 DEF Sums
  <2>2. CASE k = n + 1
    BY <2>2 DEF Sums
  <2> QED BY <2>1, <2>2
<1> HIDE DEF e
<1>3. Sums(frames, n + 1, e)
  BY <1>1, <1>2 DEF Sums
<1> QED BY <1>1, <1>3

LEMMA SumsExist ==
  ASSUME NEW frames, NEW n \in Nat, \A k \in 1 .. n : frames[k] \in Nat
  PROVE  \E c : Sums(frames, n, c)
<1> DEFINE S == {k \in 0 .. n : \E c : Sums(frames, k, c)}
<1>1. 0 \in S
  <2>1. Sums(frames, 0, [k \in 0 .. 0 |-> 0])
    BY DEF Sums
  <2> QED BY <2>1
<1>2. ASSUME NEW k \in 0 .. n - 1, k \in S PROVE k + 1 \in S
  <2>1. PICK c : Sums(frames, k, c)
    BY <1>2
  <2>2. k \in Nat /\ k + 1 \in 0 .. n /\ frames[k + 1] \in Nat
    OBVIOUS
  <2>3. \E e : Sums(frames, k + 1, e)
    BY <2>1, <2>2, SumsOneMore
  <2> QED BY <2>2, <2>3
<1> HIDE DEF S
<1>3. \A k \in 0 .. n : k \in S
  BY <1>1, <1>2, UpTo
<1>4. n \in S
  BY <1>3
<1> QED BY <1>4 DEF S

LEMMA SumsUnique ==
  ASSUME NEW frames, NEW n \in Nat, NEW c, Sums(frames, n, c),
         NEW g, g[0] = 0, \A k \in 1 .. n : g[k] = g[k - 1] + frames[k]
  PROVE  g[n] = c[n]
<1> DEFINE S == {k \in 0 .. n : g[k] = c[k]}
<1>1. 0 \in S
  BY DEF Sums
<1>2. ASSUME NEW k \in 0 .. n - 1, k \in S PROVE k + 1 \in S
  <2>1. k + 1 \in 1 .. n /\ k + 1 \in 0 .. n /\ (k + 1) - 1 = k
    OBVIOUS
  <2>2. g[k + 1] = g[k] + frames[k + 1] /\ c[k + 1] = c[k] + frames[k + 1]
    BY <2>1 DEF Sums
  <2>3. g[k] = c[k]
    BY <1>2
  <2> QED BY <2>1, <2>2, <2>3
<1> HIDE DEF S
<1>3. \A k \in 0 .. n : k \in S
  BY <1>1, <1>2, UpTo
<1>4. n \in S
  BY <1>3
<1> QED BY <1>4 DEF S

\* What the recursive definition computes.
LEMMA BytesAre ==
  ASSUME NEW frames \in Seq(Nat), NEW c, Sums(frames, Len(frames), c)
  PROVE  Bytes(frames) = c[Len(frames)]
<1> DEFINE n == Len(frames)
           Equation(f) == f = [k \in 0 .. n |-> IF k = 0 THEN 0 ELSE f[k - 1] + frames[k]]
           g == CHOOSE f : Equation(f)
<1>1. n \in Nat
  OBVIOUS
<1>2. Bytes(frames) = g[n]
  BY DEF Bytes
<1> HIDE DEF n
<1>3. Equation(c)
  <2>1. c \in [0 .. n -> Nat] /\ c[0] = 0 /\ \A k \in 1 .. n : c[k] = c[k - 1] + frames[k]
    BY DEF Sums, n
  <2>2. \A k \in 0 .. n : c[k] = IF k = 0 THEN 0 ELSE c[k - 1] + frames[k]
    BY <1>1, <2>1
  <2>3. c = [k \in 0 .. n |-> c[k]]
    BY <2>1
  <2> QED BY <2>2, <2>3
<1>4. Equation(g)
  <2> HIDE DEF Equation
  <2> QED BY <1>3
<1> HIDE DEF g
<1>5. g[0] = 0 /\ \A k \in 1 .. n : g[k] = g[k - 1] + frames[k]
  BY <1>1, <1>4
<1>6. g[n] = c[n]
  BY <1>1, <1>5, SumsUnique DEF n
<1> QED BY <1>2, <1>6 DEF n

LEMMA BytesType ==
  ASSUME NEW frames \in Seq(Nat)
  PROVE  Bytes(frames) \in Nat
<1>1. PICK c : Sums(frames, Len(frames), c)
  BY SumsExist
<1>2. c[Len(frames)] \in Nat
  BY <1>1 DEF Sums
<1> QED BY <1>1, <1>2, BytesAre

LEMMA BytesEmpty == Bytes(<<>>) = 0
<1>1. <<>> \in Seq(Nat) /\ Len(<<>>) = 0
  OBVIOUS
<1>2. PICK c : Sums(<<>>, 0, c)
  BY SumsExist
<1> QED BY <1>1, <1>2, BytesAre DEF Sums

LEMMA BytesAppend ==
  ASSUME NEW frames \in Seq(Nat), NEW size \in Nat
  PROVE  Bytes(Append(frames, size)) = Bytes(frames) + size
<1> DEFINE longer == Append(frames, size)
           n == Len(frames)
<1>1. n \in Nat /\ longer \in Seq(Nat) /\ Len(longer) = n + 1 /\ longer[n + 1] = size
  BY AppendProperties, LenProperties
<1>2. \A k \in 1 .. n : longer[k] = frames[k]
  BY AppendProperties
<1>3. PICK c : Sums(frames, n, c)
  BY SumsExist
<1> HIDE DEF longer, n
<1>4. Sums(longer, n, c)
  BY <1>2, <1>3 DEF Sums
<1>5. PICK e : Sums(longer, n + 1, e) /\ e[n + 1] = c[n] + longer[n + 1]
  BY <1>1, <1>4, SumsOneMore
<1>6. Bytes(frames) = c[n]
  BY <1>3, BytesAre DEF n
<1>7. Bytes(longer) = e[n + 1]
  BY <1>1, <1>5, BytesAre
<1> QED BY <1>1, <1>5, <1>6, <1>7 DEF longer

LEMMA BytesTail ==
  ASSUME NEW frames \in Seq(Nat), frames # <<>>
  PROVE  Bytes(frames) = Head(frames) + Bytes(Tail(frames))
<1> DEFINE rest == Tail(frames)
           n == Len(rest)
<1>1. n \in Nat /\ rest \in Seq(Nat) /\ Len(frames) = n + 1
  BY HeadTailProperties
<1>2. frames[1] \in Nat /\ frames[1] = Head(frames) /\ \A k \in 1 .. n : rest[k] = frames[k + 1]
  BY HeadTailProperties
<1>3. PICK c : Sums(rest, n, c)
  <2>1. \A k \in 1 .. n : rest[k] \in Nat
    BY <1>1, ElementOfSeq
  <2> QED BY <1>1, <2>1, SumsExist
<1> HIDE DEF rest, n
<1> DEFINE e == [k \in 0 .. n + 1 |-> IF k = 0 THEN 0 ELSE c[k - 1] + frames[1]]
<1>4. e \in [0 .. n + 1 -> Nat] /\ e[0] = 0 /\ e[n + 1] = c[n] + frames[1]
  BY <1>1, <1>2, <1>3 DEF Sums
<1>5. ASSUME NEW k \in 1 .. n + 1 PROVE e[k] = e[k - 1] + frames[k]
  <2>1. CASE k = 1
    BY <2>1, <1>1, <1>2, <1>3 DEF Sums
  <2>2. CASE k \in 2 .. n + 1
    <3>1. k - 1 \in 1 .. n /\ (k - 1) + 1 = k
      BY <2>2, <1>1
    <3>2. c[k - 1] = c[(k - 1) - 1] + frames[k]
      BY <3>1, <1>2, <1>3 DEF Sums
    <3>3. c[(k - 1) - 1] \in Nat /\ frames[k] \in Nat
      <4>1. (k - 1) - 1 \in 0 .. n /\ k \in 1 .. Len(frames)
        BY <2>2, <1>1
      <4> QED BY <4>1, <1>3, ElementOfSeq DEF Sums
    <3>4. e[k] = c[k - 1] + frames[1] /\ e[k - 1] = c[(k - 1) - 1] + frames[1]
      BY <2>2, <1>1
    <3> QED BY <3>2, <3>3, <3>4, <1>2
  <2> QED BY <2>1, <2>2, <1>1
<1> HIDE DEF e
<1>6. Sums(frames, Len(frames), e)
  BY <1>1, <1>4, <1>5 DEF Sums
<1>7. Bytes(frames) = e[n + 1]
  BY <1>1, <1>6, BytesAre
<1>8. Bytes(rest) = c[n]
  BY <1>1, <1>3, BytesAre DEF n
<1>9. c[n] \in Nat
  BY <1>1, <1>3 DEF Sums
<1> QED BY <1>2, <1>4, <1>7, <1>8, <1>9 DEF rest

----------------------------------------------------------------------------
(* The invariant: types, and the counters. *)

QueueTypeOK ==
  /\ m_maxSize \in QueueSizes
  /\ connected \in BOOLEAN /\ m_stoppedByDevice \in BOOLEAN /\ busy \in BOOLEAN
  /\ m_packets \in Seq(Nat)
  /\ m_nPackets \in Nat /\ m_nBytes \in Nat /\ transmittedBytes \in Nat
  /\ m_nTotalReceivedBytes \in Nat
  /\ m_nTotalDroppedBytesBeforeEnqueue \in Nat /\ m_nTotalDroppedBytesAfterDequeue \in Nat

IInv == QueueTypeOK /\ CountersAgree

\* The sizes of packets and of frames.
LEMMA SizesAreNaturals == Mtu \in Nat /\ FrameSizes \subseteq Nat /\ Limits \subseteq QueueSizes
<1>1. ASSUME NEW p \in PacketSizes, NEW h \in Overheads PROVE p + h \in Nat
  <2>1. p \in Nat /\ h \in Nat
    BY QueueAssumption
  <2> QED BY <2>1
<1> QED BY <1>1, QueueAssumption DEF FrameSizes

LEMMA InitIInv == Init => IInv
<1> SUFFICES ASSUME Init PROVE IInv
  OBVIOUS
<1>1. m_maxSize \in QueueSizes /\ m_maxSize.value \in Nat
  BY SizesAreNaturals DEF Init, QueueSizes
<1>2. m_packets = <<>> /\ <<>> \in Seq(Nat) /\ Len(<<>>) = 0
  BY DEF Init
<1>3. QueueTypeOK
  BY <1>1, <1>2 DEF Init, QueueTypeOK
<1>4. CountersAgree
  BY <1>1, <1>2, BytesEmpty DEF Init, CountersAgree
<1> QED BY <1>3, <1>4 DEF IInv

\* What is left of a queue without its head.
LEMMA WithoutHead ==
  ASSUME NEW frames \in Seq(Nat), frames # <<>>
  PROVE  /\ Head(frames) \in Nat /\ Tail(frames) \in Seq(Nat)
         /\ Len(Tail(frames)) = Len(frames) - 1 /\ Len(frames) \in Nat \ {0}
         /\ Bytes(Tail(frames)) \in Nat /\ Bytes(Tail(frames)) = Bytes(frames) - Head(frames)
<1>1. Head(frames) \in Nat /\ Tail(frames) \in Seq(Nat) /\ Len(Tail(frames)) = Len(frames) - 1
  BY HeadTailProperties
<1>2. Len(frames) \in Nat \ {0}
  BY EmptySeq
<1>3. Bytes(Tail(frames)) \in Nat /\ Bytes(frames) = Head(frames) + Bytes(Tail(frames))
  BY <1>1, BytesType, BytesTail
<1>4. Bytes(Tail(frames)) = Bytes(frames) - Head(frames)
  BY <1>1, <1>3
<1> QED BY <1>1, <1>2, <1>3, <1>4

\* A queue with one more frame.
LEMMA WithTail ==
  ASSUME NEW frames \in Seq(Nat), NEW size \in Nat
  PROVE  /\ Append(frames, size) \in Seq(Nat) /\ Append(frames, size) # <<>>
         /\ Len(Append(frames, size)) = Len(frames) + 1
         /\ Bytes(Append(frames, size)) = Bytes(frames) + size
BY AppendProperties, BytesAppend

\* The traces leave a state of the NetDeviceQueue.
LEMMA TracesType ==
  ASSUME NEW stopped \in BOOLEAN, NEW n, NEW b
  PROVE  /\ StoppedAfterEnqueue(stopped, n, b) \in BOOLEAN
         /\ StoppedAfterDequeue(stopped, n, b) \in BOOLEAN
         /\ StoppedAfterDiscard(stopped) \in BOOLEAN
BY DEF StoppedAfterEnqueue, StoppedAfterDequeue, StoppedAfterDiscard

\* The counters of a queue p: n for m_nPackets, b for m_nBytes, and the totals of
\* what was received, transmitted, and dropped after its dequeue.
Agree(p, n, b, received, transmitted, dropped) ==
  /\ p \in Seq(Nat) /\ n \in Nat /\ b \in Nat
  /\ received \in Nat /\ transmitted \in Nat /\ dropped \in Nat
  /\ n = Len(p) /\ b = Bytes(p)
  /\ received = b + transmitted + dropped
  /\ (IF m_maxSize.unit = "packets" THEN n ELSE b) <= m_maxSize.value

LEMMA Enqueued ==
  ASSUME m_maxSize \in QueueSizes, NEW p, NEW n, NEW b, NEW r, NEW t, NEW d,
         Agree(p, n, b, r, t, d), NEW size \in Nat, Fits(n, b, size)
  PROVE  Agree(Append(p, size), n + 1, b + size, r + size, t, d)
<1>1. /\ Append(p, size) \in Seq(Nat) /\ Len(Append(p, size)) = Len(p) + 1
      /\ Bytes(Append(p, size)) = Bytes(p) + size
  BY WithTail DEF Agree
<1>2. n \in Nat /\ b \in Nat /\ r \in Nat /\ t \in Nat /\ d \in Nat /\ r = b + t + d
      /\ n = Len(p) /\ b = Bytes(p)
  BY DEF Agree
<1>3. (IF m_maxSize.unit = "packets" THEN n + 1 ELSE b + size) <= m_maxSize.value
  BY DEF Fits
<1>4. r + size = (b + size) + t + d /\ n + 1 \in Nat /\ b + size \in Nat /\ r + size \in Nat
  BY <1>2, SMTT(30)
<1>5. n + 1 = Len(Append(p, size)) /\ b + size = Bytes(Append(p, size))
  BY <1>1, <1>2, Zenon
<1> QED BY <1>1, <1>2, <1>3, <1>4, <1>5, Zenon DEF Agree

\* A dequeue, for transmission or to be dropped.
LEMMA Dequeued ==
  ASSUME m_maxSize \in QueueSizes, NEW p, NEW n, NEW b, NEW r, NEW t, NEW d,
         Agree(p, n, b, r, t, d), p # <<>>
  PROVE  /\ Agree(Tail(p), n - 1, b - Head(p), r, t + Head(p), d)
         /\ Agree(Tail(p), n - 1, b - Head(p), r, t, d + Head(p))
         /\ Head(p) \in Nat
<1>1. n \in Nat /\ b \in Nat /\ r \in Nat /\ t \in Nat /\ d \in Nat /\ r = b + t + d
      /\ n = Len(p) /\ b = Bytes(p) /\ p \in Seq(Nat)
  BY DEF Agree
<1>2. /\ Head(p) \in Nat /\ Tail(p) \in Seq(Nat)
      /\ Len(Tail(p)) = n - 1 /\ n \in Nat \ {0}
      /\ Bytes(Tail(p)) \in Nat /\ Bytes(Tail(p)) = b - Head(p)
  BY <1>1, WithoutHead
<1>3. n - 1 \in Nat /\ b - Head(p) \in Nat
  BY <1>2
<1>4. (IF m_maxSize.unit = "packets" THEN n ELSE b) <= m_maxSize.value /\ m_maxSize.value \in Nat
  BY DEF Agree, QueueSizes
<1>5. (IF m_maxSize.unit = "packets" THEN n - 1 ELSE b - Head(p)) <= m_maxSize.value
  BY <1>1, <1>2, <1>4, SMTT(30)
<1>6. r = (b - Head(p)) + (t + Head(p)) + d /\ r = (b - Head(p)) + t + (d + Head(p))
  BY <1>1, <1>2, SMTT(30)
<1>7. t + Head(p) \in Nat /\ d + Head(p) \in Nat
  BY <1>1, <1>2, SMTT(30)
<1>8. n - 1 = Len(Tail(p)) /\ b - Head(p) = Bytes(Tail(p))
  BY <1>2, Zenon
<1> QED BY <1>1, <1>2, <1>3, <1>5, <1>6, <1>7, <1>8, Zenon DEF Agree

LEMMA Flushed ==
  ASSUME m_maxSize \in QueueSizes, NEW p, NEW n, NEW b, NEW r, NEW t, NEW d,
         Agree(p, n, b, r, t, d)
  PROVE  Agree(<<>>, n - Len(p), b - Bytes(p), r, t, d + Bytes(p))
<1>1. n \in Nat /\ b \in Nat /\ r \in Nat /\ t \in Nat /\ d \in Nat /\ r = b + t + d
      /\ n = Len(p) /\ b = Bytes(p)
  BY DEF Agree
<1>2. n - Len(p) = 0 /\ b - Bytes(p) = 0 /\ r = 0 + t + (d + Bytes(p)) /\ d + Bytes(p) \in Nat
  BY <1>1
<1>3. m_maxSize.value \in Nat /\ <<>> \in Seq(Nat) /\ Len(<<>>) = 0
  BY DEF QueueSizes
<1>4. 0 \in Nat /\ 0 <= m_maxSize.value /\ 0 = Len(<<>>) /\ 0 = Bytes(<<>>)
  BY <1>3, BytesEmpty
<1>5. Agree(<<>>, 0, 0, r, t, d + Bytes(p))
  BY <1>1, <1>2, <1>3, <1>4 DEF Agree
<1> QED BY <1>2, <1>5

\* IInv as a fact about the counters.
Others ==
  /\ m_maxSize \in QueueSizes /\ m_nTotalDroppedBytesBeforeEnqueue \in Nat
  /\ connected \in BOOLEAN /\ m_stoppedByDevice \in BOOLEAN /\ busy \in BOOLEAN
Counters == Agree(m_packets, m_nPackets, m_nBytes, m_nTotalReceivedBytes, transmittedBytes,
                  m_nTotalDroppedBytesAfterDequeue)

LEMMA IInvParts == IInv <=> Others /\ Counters
BY DEF IInv, QueueTypeOK, CountersAgree, Others, Counters, Agree

LEMMA StepIInv == IInv /\ [Next]_vars => IInv'
<1> SUFFICES ASSUME Others, Counters, [Next]_vars PROVE Others' /\ Counters'
  BY IInvParts, PTL
<1>0. m_maxSize \in QueueSizes
  BY DEF Others
<1>1. CASE DoInitialize
  BY <1>1 DEF DoInitialize, queueVars, Others, Counters, Agree
<1>2. ASSUME NEW size \in FrameSizes, SendDiscarded(size) PROVE Others' /\ Counters'
  <2>1. m_nTotalDroppedBytesBeforeEnqueue' \in Nat
    BY <1>2, SizesAreNaturals DEF SendDiscarded, Others
  <2>2. m_stoppedByDevice' \in BOOLEAN
    BY <1>2, TracesType DEF SendDiscarded, Others
  <2> QED BY <1>2, <2>1, <2>2 DEF SendDiscarded, Others, Counters, Agree
<1>3. ASSUME NEW size \in FrameSizes, SendQueued(size) PROVE Others' /\ Counters'
  <2>1. size \in Nat
    BY SizesAreNaturals
  <2>2. Agree(Append(m_packets, size), m_nPackets + 1, m_nBytes + size,
              m_nTotalReceivedBytes + size, transmittedBytes, m_nTotalDroppedBytesAfterDequeue)
    BY <1>0, <1>3, <2>1, Enqueued DEF SendQueued, Counters
  <2>3. m_stoppedByDevice' \in BOOLEAN
    BY <1>3, TracesType DEF SendQueued, Others
  <2> QED BY <1>3, <2>2, <2>3 DEF SendQueued, DoEnqueue, Others, Counters, Agree
<1>4. ASSUME NEW size \in FrameSizes, SendStarted(size) PROVE Others' /\ Counters'
  <2> DEFINE queued == Append(m_packets, size)
             n == m_nPackets + 1
             b == m_nBytes + size
             r == m_nTotalReceivedBytes + size
  <2>1. size \in Nat
    BY SizesAreNaturals
  <2>2. Agree(queued, n, b, r, transmittedBytes, m_nTotalDroppedBytesAfterDequeue)
    BY <1>0, <1>4, <2>1, Enqueued DEF SendStarted, Counters
  <2>3. queued # <<>> /\ n - 1 = m_nPackets
    <3>1. m_nPackets \in Nat /\ m_packets \in Seq(Nat)
      BY DEF Counters, Agree
    <3>2. queued # <<>>
      BY <2>1, <3>1, WithTail
    <3> QED BY <3>1, <3>2
  <2>4. /\ m_packets' = Tail(queued) /\ m_nPackets' = m_nPackets
        /\ m_nBytes' = b - Head(queued) /\ m_nTotalReceivedBytes' = r
        /\ transmittedBytes' = transmittedBytes + Head(queued)
        /\ busy' = TRUE /\ m_maxSize' = m_maxSize /\ connected' = connected
        /\ m_nTotalDroppedBytesBeforeEnqueue' = m_nTotalDroppedBytesBeforeEnqueue
        /\ m_nTotalDroppedBytesAfterDequeue' = m_nTotalDroppedBytesAfterDequeue
    BY <1>4 DEF SendStarted
  <2>5. m_stoppedByDevice' \in BOOLEAN
    BY <1>4 DEF SendStarted, Others, StoppedAfterEnqueue, StoppedAfterDequeue
  <2> HIDE DEF queued, n, b, r
  <2>6. Agree(Tail(queued), n - 1, b - Head(queued), r, transmittedBytes + Head(queued),
              m_nTotalDroppedBytesAfterDequeue)
    BY <1>0, <2>2, <2>3, Dequeued
  <2> QED BY <2>3, <2>4, <2>5, <2>6 DEF Others, Counters, Agree
<1>5. CASE CompleteIdle
  BY <1>5 DEF CompleteIdle, queueVars, Others, Counters, Agree
<1>6. CASE CompleteNext
  <2>1. Agree(Tail(m_packets), m_nPackets - 1, m_nBytes - Head(m_packets), m_nTotalReceivedBytes,
              transmittedBytes + Head(m_packets), m_nTotalDroppedBytesAfterDequeue)
    BY <1>0, <1>6, Dequeued DEF CompleteNext, Counters
  <2>2. m_stoppedByDevice' \in BOOLEAN
    BY <1>6, TracesType DEF CompleteNext, Others
  <2> QED BY <1>6, <2>1, <2>2 DEF CompleteNext, Others, Counters, Agree
<1>7. CASE Remove
  <2>1. Agree(Tail(m_packets), m_nPackets - 1, m_nBytes - Head(m_packets), m_nTotalReceivedBytes,
              transmittedBytes, m_nTotalDroppedBytesAfterDequeue + Head(m_packets))
    BY <1>0, <1>7, Dequeued DEF Remove, Counters
  <2>2. m_stoppedByDevice' \in BOOLEAN
    BY <1>7, TracesType DEF Remove, Others
  <2> QED BY <1>7, <2>1, <2>2 DEF Remove, Others, Counters, Agree
<1>8. CASE Flush
  <2>1. Agree(<<>>, m_nPackets - Len(m_packets), m_nBytes - Bytes(m_packets), m_nTotalReceivedBytes,
              transmittedBytes, m_nTotalDroppedBytesAfterDequeue + Bytes(m_packets))
    BY <1>0, Flushed DEF Counters
  <2>2. m_stoppedByDevice' \in BOOLEAN
    BY <1>8, TracesType DEF Flush, Others
  <2> QED BY <1>8, <2>1, <2>2 DEF Flush, Others, Counters, Agree
<1>9. CASE UNCHANGED vars
  BY <1>9 DEF vars, queueVars, Others, Counters, Agree
<1> QED BY <1>1, <1>2, <1>3, <1>4, <1>5, <1>6, <1>7, <1>8, <1>9 DEF Next, Complete

\* DropTailQueue: m_nPackets and m_nBytes are what is in the queue, every byte
\* received is accounted for, and MaxSize is kept, in its unit.
THEOREM CountersCorrect == Spec => []CountersAgree
<1>1. IInv => CountersAgree
  BY DEF IInv
<1> QED BY <1>1, InitIInv, StepIInv, PTL DEF Spec

----------------------------------------------------------------------------
(* The flow-control traces. *)

\* Less in the queue leaves room where there was room.
LEMMA RoomRemains ==
  ASSUME m_maxSize \in QueueSizes, NEW n \in Nat, NEW b \in Nat, NEW m \in Nat, NEW a \in Nat,
         m <= n, a <= b, Fits(n, b, Mtu)
  PROVE  Fits(m, a, Mtu)
BY SizesAreNaturals DEF Fits, QueueSizes

\* After the trace of a dequeue the queue is stopped or has room, if it was so
\* before with no less in it.
LEMMA GuardedAfterDequeue ==
  ASSUME m_maxSize \in QueueSizes, NEW stopped \in BOOLEAN, connected,
         NEW n \in Nat, NEW b \in Nat, NEW m \in Nat, NEW a \in Nat, m <= n, a <= b,
         stopped \/ Fits(n, b, Mtu)
  PROVE  StoppedAfterDequeue(stopped, m, a) \/ Fits(m, a, Mtu)
BY RoomRemains DEF StoppedAfterDequeue


LEMMA GuardStep ==
  IInv /\ [Next]_vars => (connected /\ Guarded => Guarded' /\ DiscardedTooLong)
<1> SUFFICES ASSUME Others, Counters, [Next]_vars, connected, Guarded
             PROVE  Guarded' /\ DiscardedTooLong
  BY IInvParts
<1>0. /\ m_maxSize \in QueueSizes /\ m_stoppedByDevice \in BOOLEAN
      /\ m_packets \in Seq(Nat)
      /\ m_nPackets \in Nat /\ m_nBytes \in Nat /\ m_nTotalDroppedBytesBeforeEnqueue \in Nat
  BY DEF Others, Counters, Agree
<1>1. CASE DoInitialize
  BY <1>1 DEF DoInitialize
<1>2. ASSUME NEW size \in FrameSizes, SendDiscarded(size) PROVE Guarded' /\ DiscardedTooLong
  <2>1. Fits(m_nPackets, m_nBytes, Mtu) /\ ~ Fits(m_nPackets, m_nBytes, size)
    BY <1>2 DEF SendDiscarded, MaySend, Guarded
  <2>2. m_maxSize.unit = "bytes" /\ size > Mtu
    BY <1>0, <2>1, SizesAreNaturals DEF Fits, QueueSizes
  <2>3. (m_nTotalDroppedBytesBeforeEnqueue + size) - m_nTotalDroppedBytesBeforeEnqueue = size
    BY <1>0, SizesAreNaturals
  <2>4. DiscardedTooLong
    <3>1. m_nTotalDroppedBytesBeforeEnqueue' = m_nTotalDroppedBytesBeforeEnqueue + size
      BY <1>2 DEF SendDiscarded
    <3>2. m_nTotalDroppedBytesBeforeEnqueue' - m_nTotalDroppedBytesBeforeEnqueue = size
      BY <2>3, <3>1, Zenon
    <3> QED BY <2>2, <3>2, Zenon DEF DiscardedTooLong
  <2>5. m_stoppedByDevice' = TRUE
    BY <1>2 DEF SendDiscarded, StoppedAfterDiscard
  <2> QED BY <2>4, <2>5 DEF Guarded
<1>3. ASSUME m_nTotalDroppedBytesBeforeEnqueue' = m_nTotalDroppedBytesBeforeEnqueue
      PROVE  DiscardedTooLong
  BY <1>3 DEF DiscardedTooLong
<1>4. ASSUME NEW m \in Nat, NEW a \in Nat, m_maxSize' = m_maxSize,
             m_nPackets' = m, m_nBytes' = a, m_stoppedByDevice' \/ Fits(m, a, Mtu)
      PROVE  Guarded'
  BY <1>4 DEF Guarded, Fits
<1>5. ASSUME NEW size \in FrameSizes, SendQueued(size) PROVE Guarded' /\ DiscardedTooLong
  <2>1. m_nPackets + 1 \in Nat /\ m_nBytes + size \in Nat
    BY <1>0, SizesAreNaturals
  <2>2. m_stoppedByDevice' \/ Fits(m_nPackets + 1, m_nBytes + size, Mtu)
    BY <1>5 DEF SendQueued, DoEnqueue, StoppedAfterEnqueue
  <2>3. Guarded'
    BY <1>4, <1>5, <2>1, <2>2 DEF SendQueued, DoEnqueue
  <2> QED BY <1>3, <1>5, <2>3 DEF SendQueued
<1>6. ASSUME NEW size \in FrameSizes, SendStarted(size) PROVE Guarded' /\ DiscardedTooLong
  <2> DEFINE queued == Append(m_packets, size)
             n == m_nPackets + 1
             b == m_nBytes + size
             r == m_nTotalReceivedBytes + size
             stopped == StoppedAfterEnqueue(m_stoppedByDevice, n, b)
  <2>1. size \in Nat
    BY SizesAreNaturals
  <2>2. Agree(queued, n, b, r, transmittedBytes, m_nTotalDroppedBytesAfterDequeue)
    BY <1>0, <1>6, <2>1, Enqueued DEF SendStarted, Counters
  <2>3. queued # <<>> /\ n - 1 = m_nPackets /\ n \in Nat /\ b \in Nat
    BY <1>0, <2>1, WithTail
  <2>4. stopped \in BOOLEAN /\ (stopped \/ Fits(n, b, Mtu))
    BY <1>0 DEF StoppedAfterEnqueue
  <2>5. m_stoppedByDevice' = StoppedAfterDequeue(stopped, m_nPackets, b - Head(queued))
        /\ m_nBytes' = b - Head(queued)
    BY <1>6 DEF SendStarted
  <2> HIDE DEF queued, n, b, r, stopped
  <2>6. Agree(Tail(queued), n - 1, b - Head(queued), r, transmittedBytes + Head(queued),
              m_nTotalDroppedBytesAfterDequeue) /\ Head(queued) \in Nat
    BY <1>0, <2>2, <2>3, Dequeued
  <2>7. b - Head(queued) \in Nat /\ b - Head(queued) <= b /\ m_nPackets <= n
    BY <1>0, <2>3, <2>6 DEF Agree
  <2>8. m_stoppedByDevice' \/ Fits(m_nPackets, b - Head(queued), Mtu)
    BY <1>0, <2>3, <2>4, <2>5, <2>7, GuardedAfterDequeue
  <2>9. Guarded'
    BY <1>0, <1>4, <1>6, <2>5, <2>7, <2>8 DEF SendStarted
  <2> QED BY <1>3, <1>6, <2>9 DEF SendStarted
<1>7. CASE CompleteIdle
  BY <1>0, <1>3, <1>4, <1>7 DEF CompleteIdle, queueVars, Guarded
<1>8. ASSUME NEW m \in Nat, NEW a \in Nat, m <= m_nPackets, a <= m_nBytes, m_maxSize' = m_maxSize,
             m_nPackets' = m, m_nBytes' = a,
             m_stoppedByDevice' = StoppedAfterDequeue(m_stoppedByDevice, m, a)
      PROVE  Guarded'
  <2>1. m_stoppedByDevice' \/ Fits(m, a, Mtu)
    BY <1>0, <1>8, GuardedAfterDequeue DEF Guarded
  <2> QED BY <1>4, <1>8, <2>1
<1>9. ASSUME m_packets # <<>>
      PROVE  /\ m_nPackets - 1 \in Nat /\ m_nPackets - 1 <= m_nPackets
             /\ m_nBytes - Head(m_packets) \in Nat /\ m_nBytes - Head(m_packets) <= m_nBytes
  <2>1. Agree(Tail(m_packets), m_nPackets - 1, m_nBytes - Head(m_packets), m_nTotalReceivedBytes,
              transmittedBytes + Head(m_packets), m_nTotalDroppedBytesAfterDequeue)
        /\ Head(m_packets) \in Nat
    BY <1>0, <1>9, Dequeued DEF Counters
  <2> QED BY <1>0, <2>1 DEF Agree
<1>10. CASE CompleteNext
  <2>1. Guarded'
    BY <1>8, <1>9, <1>10 DEF CompleteNext
  <2> QED BY <1>3, <1>10, <2>1 DEF CompleteNext
<1>11. CASE Remove
  <2>1. Guarded'
    BY <1>8, <1>9, <1>11 DEF Remove
  <2> QED BY <1>3, <1>11, <2>1 DEF Remove
<1>12. CASE Flush
  <2>1. /\ m_nPackets - Len(m_packets) = 0 /\ 0 <= m_nPackets
        /\ m_nBytes - Bytes(m_packets) = 0 /\ 0 <= m_nBytes
    BY <1>0 DEF Counters, Agree
  <2>2. Guarded'
    BY <1>8, <1>12, <2>1 DEF Flush
  <2> QED BY <1>3, <1>12, <2>2 DEF Flush
<1>13. CASE UNCHANGED vars
  BY <1>0, <1>3, <1>4, <1>13 DEF vars, queueVars, Guarded
<1> QED
  BY <1>1, <1>2, <1>5, <1>6, <1>7, <1>10, <1>11, <1>12, <1>13 DEF Next, Complete

\* PacketDiscarded: "This should not happen if the device correctly stops the
\* queue".  It does not, for a MaxSize in packets; in bytes, only to a frame that
\* is longer than the MTU.
THEOREM DiscardsOnlyLongFrames == Spec => OnlyLongFramesDiscarded
<1>1. IInv /\ [Next]_vars => [connected /\ Guarded => Guarded' /\ DiscardedTooLong]_vars
  BY GuardStep
<1> QED BY <1>1, InitIInv, StepIInv, PTL DEF Spec, OnlyLongFramesDiscarded

----------------------------------------------------------------------------
(* What a stopped queue waits for. *)

\* Only the traces stop the queue, and an idle transmitter has taken all there was.
Serving ==
  /\ m_stoppedByDevice => connected
  /\ ~busy => m_packets = <<>>
  /\ StoppedIsServed

\* A dequeue that leaves nothing wakes the queue.
LEMMA EmptyIsWoken ==
  ASSUME AdmitsEveryFrame, NEW stopped \in BOOLEAN, stopped => connected
  PROVE  ~StoppedAfterDequeue(stopped, 0, 0)
<1>1. Fits(0, 0, Mtu)
  BY DEF AdmitsEveryFrame
<1> QED BY <1>1 DEF StoppedAfterDequeue

\* The head leaves the queue, or all of it does: counted as n frames and b bytes.
LEMMA ServedAfterDequeue ==
  ASSUME Others, Serving, busy' = busy, busy, connected' = connected, m_maxSize' = m_maxSize,
         m_packets' = <<>> => m_nPackets' = 0 /\ m_nBytes' = 0,
         m_stoppedByDevice' = StoppedAfterDequeue(m_stoppedByDevice, m_nPackets', m_nBytes')
  PROVE  Serving'
<1>1. m_stoppedByDevice' => m_stoppedByDevice
  BY DEF StoppedAfterDequeue, Others
<1>2. AdmitsEveryFrame' <=> AdmitsEveryFrame
  BY DEF AdmitsEveryFrame, Fits
<1>3. AdmitsEveryFrame /\ m_packets' = <<>> => ~m_stoppedByDevice'
  BY EmptyIsWoken DEF Serving, Others
<1> QED BY <1>1, <1>2, <1>3 DEF Serving, StoppedIsServed

LEMMA ServingStep == IInv /\ Serving /\ [Next]_vars => Serving'
<1> SUFFICES ASSUME Others, Counters, Counters', Serving, [Next]_vars
             PROVE  Serving'
  BY IInvParts, StepIInv, PTL
<1>1. /\ m_stoppedByDevice \in BOOLEAN /\ m_packets \in Seq(Nat)
      /\ m_packets = <<>> => m_nPackets = 0 /\ m_nBytes = 0
  BY BytesEmpty DEF Others, Counters, Agree
<1>2. m_packets' = <<>> => m_nPackets' = 0 /\ m_nBytes' = 0
  BY BytesEmpty DEF Counters, Agree
<1>3. m_maxSize' = m_maxSize => (AdmitsEveryFrame' <=> AdmitsEveryFrame)
  BY DEF AdmitsEveryFrame, Fits
<1>4. CASE DoInitialize
  <2>1. /\ connected' = TRUE /\ m_maxSize' = m_maxSize
        /\ UNCHANGED <<m_packets, m_stoppedByDevice, busy>>
    BY <1>4 DEF DoInitialize, queueVars
  <2> QED BY <1>3, <2>1 DEF Serving, StoppedIsServed
<1>5. ASSUME NEW size \in FrameSizes, SendDiscarded(size) PROVE Serving'
  <2>1. /\ UNCHANGED <<m_maxSize, connected, m_packets, busy>>
        /\ ~m_stoppedByDevice /\ ~Fits(m_nPackets, m_nBytes, size)
        /\ m_stoppedByDevice' = IF connected THEN TRUE ELSE m_stoppedByDevice
    BY <1>5 DEF SendDiscarded, MaySend, StoppedAfterDiscard
  <2>2. AdmitsEveryFrame => m_packets # <<>>
    BY <1>1, <2>1 DEF AdmitsEveryFrame
  <2> QED BY <1>3, <2>1, <2>2 DEF Serving, StoppedIsServed
<1>6. ASSUME NEW size \in FrameSizes, SendQueued(size) PROVE Serving'
  <2>1. /\ UNCHANGED <<m_maxSize, connected, busy>> /\ busy
        /\ ~m_stoppedByDevice /\ m_packets' = Append(m_packets, size)
        /\ m_stoppedByDevice' => connected
    BY <1>6 DEF SendQueued, DoEnqueue, MaySend, StoppedAfterEnqueue
  <2>2. size \in Nat
    BY SizesAreNaturals
  <2>3. m_packets' # <<>>
    BY <1>1, <2>1, <2>2, WithTail
  <2> QED BY <2>1, <2>3 DEF Serving, StoppedIsServed
<1>7. ASSUME NEW size \in FrameSizes, SendStarted(size) PROVE Serving'
  <2> DEFINE stopped == StoppedAfterEnqueue(m_stoppedByDevice, m_nPackets + 1, m_nBytes + size)
  <2>1. /\ UNCHANGED <<m_maxSize, connected>> /\ ~busy /\ busy' = TRUE
        /\ ~m_stoppedByDevice
        /\ m_packets' = Tail(Append(m_packets, size)) /\ m_nPackets' = m_nPackets
    BY <1>7 DEF SendStarted, MaySend
  <2>2. m_packets = <<>>
    BY <2>1 DEF Serving
  <2>3. m_packets' = <<>>
    BY <2>1, <2>2
  <2>4. m_stoppedByDevice' = StoppedAfterDequeue(stopped, 0, 0)
    <3>1. /\ m_stoppedByDevice' = StoppedAfterDequeue(stopped, m_nPackets,
                                    (m_nBytes + size) - Head(Append(m_packets, size)))
          /\ m_nBytes' = (m_nBytes + size) - Head(Append(m_packets, size))
      BY <1>7 DEF SendStarted
    <3>2. m_nPackets = 0 /\ m_nBytes' = 0
      BY <1>1, <1>2, <2>2, <2>3
    <3> QED BY <3>1, <3>2, Zenon
  <2>5. stopped \in BOOLEAN /\ (stopped => connected)
    BY <1>1, <2>1 DEF StoppedAfterEnqueue
  <2> HIDE DEF stopped
  <2>6. AdmitsEveryFrame => ~m_stoppedByDevice'
    BY <2>4, <2>5, EmptyIsWoken
  <2>7. m_stoppedByDevice' => connected
    BY <2>4, <2>5 DEF StoppedAfterDequeue
  <2> QED BY <1>3, <2>1, <2>3, <2>6, <2>7 DEF Serving, StoppedIsServed
<1>8. CASE CompleteIdle
  <2>1. UNCHANGED <<m_maxSize, connected, m_packets, m_stoppedByDevice>> /\ m_packets = <<>>
    BY <1>8 DEF CompleteIdle, queueVars
  <2> QED BY <1>3, <2>1 DEF Serving, StoppedIsServed
<1>9. CASE CompleteNext
  BY <1>2, <1>9, ServedAfterDequeue DEF CompleteNext
<1>10. CASE Remove
  <2>1. busy
    BY <1>10 DEF Remove, Serving, Others
  <2> QED BY <1>2, <1>10, <2>1, ServedAfterDequeue DEF Remove
<1>11. CASE Flush
  <2>1. busy
    BY <1>11 DEF Flush, Serving, Others
  <2> QED BY <1>2, <1>11, <2>1, ServedAfterDequeue DEF Flush
<1>12. CASE UNCHANGED vars
  <2>1. UNCHANGED <<m_maxSize, connected, m_packets, m_stoppedByDevice, busy>>
    BY <1>12 DEF vars, queueVars
  <2> QED BY <1>3, <2>1 DEF Serving, StoppedIsServed
<1> QED
  BY <1>4, <1>5, <1>6, <1>7, <1>8, <1>9, <1>10, <1>11, <1>12 DEF Next, Complete

\* The dequeue trace is the only one that wakes the queue disc: while it is stopped, a
\* transmission is under way whose end will dequeue a frame, for every MaxSize that
\* admits every frame and an MTU.
THEOREM StoppedWaitsForFrame == Spec => []StoppedIsServed
<1>1. Init => Serving
  BY DEF Init, Serving, StoppedIsServed
<1>2. Serving => StoppedIsServed
  BY DEF Serving
<1> QED BY <1>1, <1>2, InitIInv, StepIInv, ServingStep, PTL DEF Spec
=============================================================================
