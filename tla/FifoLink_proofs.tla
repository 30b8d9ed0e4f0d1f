--------------------------- MODULE FifoLink_proofs ---------------------------
(***************************************************************************)
(* The devices of PointToPointNetDevice and their channel are a FifoLink:  *)
(* every handler accepts, delivers or loses one packet, or does nothing    *)
(* that the users of the link could tell.  The order of the packets and    *)
(* what compression does to them follow from that.                         *)
(***************************************************************************)
EXTENDS PointToPointNetDevice_proofs, SequenceTheorems

\* The frames that d has accepted and its peer has not received.
UnderWay(d) == wire[d] \o m_queue[d]

\* What a handler of d does to the link.
NothingMoves ==
  \A e \in Devices : UnderWay(e)' = UnderWay(e) /\ passedUp'[e] = passedUp[e]

Accepts(d, ether) ==
  /\ sends[d] + 1 <= MaxSends[d] /\ sends'[d] = sends[d] + 1
  /\ UnderWay(d)' = Append(UnderWay(d), Framed(d, NewPacket(d, ether)))
  /\ \A e \in Devices \ {d} : UnderWay(e)' = UnderWay(e)
  /\ \A e \in Devices : passedUp'[e] = passedUp[e]

Delivers(d) ==
  /\ UnderWay(d) # <<>>
  /\ UnderWay(d)' = Tail(UnderWay(d))
  /\ passedUp'[Peer(d)] = Append(passedUp[Peer(d)], Unframed(Peer(d), Head(UnderWay(d))))
  /\ \A e \in Devices \ {d} :
       UnderWay(e)' = UnderWay(e) /\ passedUp'[Peer(e)] = passedUp[Peer(e)]

Loses(d) ==
  /\ ReceiveErrors
  /\ UnderWay(d) # <<>>
  /\ UnderWay(d)' = Tail(UnderWay(d))
  /\ \A e \in Devices \ {d} : UnderWay(e)' = UnderWay(e)
  /\ \A e \in Devices : passedUp'[e] = passedUp[e]

-----------------------------------------------------------------------------

\* The first of two queues in a row loses its head, and the second gets it.
LEMMA HeadMovesOn ==
  ASSUME NEW S, NEW s \in Seq(S), NEW q \in Seq(S), q # <<>>
  PROVE  Append(s, Head(q)) \o Tail(q) = s \o q
<1>1. Head(q) \in S /\ Tail(q) \in Seq(S) /\ q = <<Head(q)>> \o Tail(q)
  BY HeadTailAppend
<1>2. Append(s, Head(q)) = s \o <<Head(q)>>
  BY <1>1, AppendIsConcat
<1> QED BY <1>1, <1>2, ConcatAssociative

\* An enqueued frame is the last of those under way.
LEMMA LastOfAll ==
  ASSUME NEW S, NEW s \in Seq(S), NEW q \in Seq(S), NEW f \in S
  PROVE  s \o Append(q, f) = Append(s \o q, f)
<1>1. Append(q, f) = q \o <<f>> /\ <<f>> \in Seq(S) /\ s \o q \in Seq(S)
  BY AppendIsConcat
<1>2. Append(s \o q, f) = (s \o q) \o <<f>>
  BY <1>1, AppendIsConcat
<1> QED BY <1>1, <1>2, ConcatAssociative

\* What is received first was at the head of all that was under way.
LEMMA HeadOfAll ==
  ASSUME NEW S, NEW s \in Seq(S), NEW q \in Seq(S), s # <<>>
  PROVE  s \o q # <<>> /\ Head(s \o q) = Head(s) /\ Tail(s \o q) = Tail(s) \o q
<1>1. /\ Head(s) \in S /\ Tail(s) \in Seq(S) /\ Len(Tail(s)) = Len(s) - 1
      /\ \A i \in 1 .. Len(Tail(s)) : Tail(s)[i] = s[i + 1]
  BY HeadTailProperties
<1>2. /\ Len(s) \in Nat /\ Len(s) > 0 /\ Len(q) \in Nat
  OBVIOUS
<1>3. /\ s \o q \in Seq(S) /\ Len(s \o q) = Len(s) + Len(q)
      /\ \A i \in 1 .. Len(s) + Len(q) : (s \o q)[i] = IF i <= Len(s) THEN s[i]
                                                              ELSE q[i - Len(s)]
  BY ConcatProperties
<1>4. s \o q # <<>>
  <2>1. Len(s \o q) # 0
    BY <1>2, <1>3
  <2> QED BY <2>1
<1>5. /\ Head(s \o q) = (s \o q)[1] /\ Tail(s \o q) \in Seq(S)
      /\ Len(Tail(s \o q)) = Len(s) + Len(q) - 1
      /\ \A i \in 1 .. Len(Tail(s \o q)) : Tail(s \o q)[i] = (s \o q)[i + 1]
  BY <1>3, <1>4, HeadTailProperties
<1>6. Head(s \o q) = Head(s)
  BY <1>2, <1>3, <1>5
<1>7. /\ Tail(s) \o q \in Seq(S) /\ Len(Tail(s) \o q) = Len(s) + Len(q) - 1
      /\ \A i \in 1 .. Len(s) + Len(q) - 1 :
           (Tail(s) \o q)[i] = IF i <= Len(s) - 1 THEN Tail(s)[i] ELSE q[i - (Len(s) - 1)]
  <2>1. Len(Tail(s)) + Len(q) = Len(s) + Len(q) - 1
    BY <1>1, <1>2
  <2> QED BY <1>1, <2>1, ConcatProperties
<1>8. \A i \in 1 .. Len(s) + Len(q) - 1 : Tail(s \o q)[i] = (Tail(s) \o q)[i]
  <2> TAKE i \in 1 .. Len(s) + Len(q) - 1
  <2>1. Tail(s \o q)[i] = (s \o q)[i + 1] /\ i + 1 \in 1 .. Len(s) + Len(q)
    BY <1>2, <1>5
  <2>2. (s \o q)[i + 1] = IF i + 1 <= Len(s) THEN s[i + 1] ELSE q[i + 1 - Len(s)]
    BY <1>3, <2>1
  <2>3. CASE i <= Len(s) - 1
    <3>1. i \in 1 .. Len(Tail(s))
      BY <1>1, <1>2, <2>3
    <3> QED BY <1>1, <1>2, <1>7, <2>1, <2>2, <2>3, <3>1
  <2>4. CASE ~(i <= Len(s) - 1)
    <3>1. i + 1 - Len(s) = i - (Len(s) - 1) /\ ~(i + 1 <= Len(s))
      BY <1>2, <2>4
    <3> QED BY <1>7, <2>1, <2>2, <2>4, <3>1
  <2> QED BY <2>3, <2>4
<1>9. Tail(s \o q) = Tail(s) \o q
  BY <1>5, <1>7, <1>8, SeqEqual
<1> QED BY <1>4, <1>6, <1>9

-----------------------------------------------------------------------------

\* The frames under way are frames.
LEMMA UnderWayType ==
  ASSUME TypeOK, NEW d \in Devices
  PROVE  /\ UnderWay(d) \in Seq(Frames) /\ passedUp[d] \in Seq(Deliveries)
         /\ wire[d] \in Seq(Frames) /\ m_queue[d] \in Seq(Frames)
<1>1. wire[d] \in Seq(Frames) /\ m_queue[d] \in Seq(Frames) /\ passedUp[d] \in Seq(Deliveries)
  BY DEF TypeOK
<1> QED BY <1>1, ConcatProperties DEF UnderWay

LEMMA SetUpOnLink ==
  ASSUME TypeOK, NEW d \in Devices,
         Attach(d) \/ DoInitialize(d) \/ SendLinkDown(d) \/ SendOverflow(d) \/ TransmitCompleteIdle(d)
  PROVE  NothingMoves
<1>1. UNCHANGED <<wire, m_queue, passedUp>>
  BY DEF Attach, DoInitialize, SendLinkDown, SendOverflow, TransmitCompleteIdle,
         txVars, rxVars
<1> QED BY <1>1 DEF NothingMoves, UnderWay

LEMMA SendOnLink ==
  ASSUME TypeOK, NEW d \in Devices, NEW ether \in EtherTypes,
         SendEnqueue(d, ether) \/ SendStart(d, ether)
  PROVE  Accepts(d, ether)
<1> DEFINE f == Framed(d, NewPacket(d, ether))
           q == Append(m_queue[d], f)
<1>1. f \in Frames
  BY FramedType DEF SendEnqueue, SendStart
<1>2. wire[d] \in Seq(Frames) /\ m_queue[d] \in Seq(Frames)
  BY UnderWayType
<1>3. sends[d] + 1 <= MaxSends[d] /\ sends'[d] = sends[d] + 1
  <2>1. sends \in [Devices -> Nat] /\ MaxSends \in [Devices -> Nat]
    BY BoundsAssumption DEF TypeOK
  <2>2. sends[d] < MaxSends[d] /\ sends' = [sends EXCEPT ![d] = @ + 1]
    BY DEF SendEnqueue, SendStart, MaySend
  <2> QED BY <2>1, <2>2
<1>4. /\ UnderWay(d)' = wire[d] \o q
      /\ \A e \in Devices \ {d} : UnderWay(e)' = UnderWay(e)
  <2>1. m_queue \in [Devices -> Seq(Frames)] /\ wire \in [Devices -> Seq(Frames)]
    BY DEF TypeOK
  <2>2. CASE SendEnqueue(d, ether)
    <3>1. m_queue' = [m_queue EXCEPT ![d] = q] /\ wire' = wire
      BY <2>2 DEF SendEnqueue, Enqueue
    <3> QED BY <2>1, <3>1 DEF UnderWay
  <2>3. CASE SendStart(d, ether)
    <3>1. /\ m_queue' = [m_queue EXCEPT ![d] = Tail(q)]
          /\ wire' = [wire EXCEPT ![d] = Append(wire[d], Head(q))]
      BY <2>3 DEF SendStart, TransmitStart, Enqueue, Dequeue
    <3>2. q \in Seq(Frames) /\ q # <<>>
      BY <1>1, <1>2, AppendProperties
    <3> HIDE DEF q
    <3>3. Append(wire[d], Head(q)) \o Tail(q) = wire[d] \o q
      BY <1>2, <3>2, HeadMovesOn
    <3> QED BY <2>1, <3>1, <3>3 DEF UnderWay
  <2> QED BY <2>2, <2>3
<1>5. \A e \in Devices : passedUp'[e] = passedUp[e]
  BY DEF SendEnqueue, SendStart, rxVars
<1>6. wire[d] \o q = Append(UnderWay(d), f)
  <2> DEFINE w == wire[d]  m == m_queue[d]
  <2>1. f \in Frames /\ w \in Seq(Frames) /\ m \in Seq(Frames)
    BY <1>1, <1>2
  <2> HIDE DEF f, w, m
  <2>2. w \o Append(m, f) = Append(w \o m, f)
    BY <2>1, LastOfAll
  <2> QED BY <2>2 DEF UnderWay, w, m
<1> QED BY <1>3, <1>4, <1>5, <1>6 DEF Accepts

LEMMA CompleteOnLink ==
  ASSUME TypeOK, NEW d \in Devices, TransmitCompleteNext(d)
  PROVE  NothingMoves
<1> DEFINE q == m_queue[d]
<1>1. m_queue \in [Devices -> Seq(Frames)] /\ wire \in [Devices -> Seq(Frames)]
  BY DEF TypeOK
<1>2. /\ m_queue' = [m_queue EXCEPT ![d] = Tail(q)]
      /\ wire' = [wire EXCEPT ![d] = Append(wire[d], Head(q))]
      /\ q # <<>> /\ passedUp' = passedUp
  BY DEF TransmitCompleteNext, TransmitStart, Dequeue, rxVars
<1>3. Append(wire[d], Head(q)) \o Tail(q) = wire[d] \o q
  <2>1. wire[d] \in Seq(Frames) /\ q \in Seq(Frames)
    BY <1>1
  <2> HIDE DEF q
  <2> QED BY <1>2, <2>1, HeadMovesOn
<1>4. UnderWay(d)' = wire[d] \o q
  <2>1. wire'[d] = Append(wire[d], Head(q)) /\ m_queue'[d] = Tail(q)
    BY <1>1, <1>2
  <2> HIDE DEF q
  <2> QED BY <1>3, <2>1 DEF UnderWay
<1>5. \A e \in Devices \ {d} : UnderWay(e)' = UnderWay(e)
  <2>1. \A e \in Devices \ {d} : wire'[e] = wire[e] /\ m_queue'[e] = m_queue[e]
    BY <1>1, <1>2
  <2> QED BY <2>1 DEF UnderWay
<1> QED BY <1>2, <1>4, <1>5 DEF NothingMoves, UnderWay

LEMMA ReceiveOnLink ==
  ASSUME TypeOK, NEW d \in Devices, Receive(d)
  PROVE  Delivers(Peer(d)) \/ Loses(Peer(d))
<1> DEFINE p == Peer(d)
<1>1. /\ p \in Devices /\ Peer(p) = d
      /\ \A e \in Devices \ {p} : Peer(e) # d /\ Peer(e) \in Devices
  BY PeerType
<1>2. wire \in [Devices -> Seq(Frames)] /\ passedUp \in [Devices -> Seq(Deliveries)]
  BY DEF TypeOK
<1>3. wire' = [wire EXCEPT ![p] = Tail(wire[p])] /\ wire[p] # <<>> /\ m_queue' = m_queue
  BY DEF Receive, ReceiveUp, ReceiveCorrupt
<1>4. wire[p] \in Seq(Frames) /\ m_queue[p] \in Seq(Frames)
  BY <1>1, UnderWayType
<1> HIDE DEF p
<1>5. /\ UnderWay(p) # <<>> /\ Head(UnderWay(p)) = Head(wire[p])
      /\ Tail(UnderWay(p)) = Tail(wire[p]) \o m_queue[p]
  BY <1>3, <1>4, HeadOfAll DEF UnderWay
<1>6. /\ UnderWay(p)' = Tail(UnderWay(p))
      /\ \A e \in Devices \ {p} : UnderWay(e)' = UnderWay(e)
  BY <1>1, <1>2, <1>3, <1>5 DEF UnderWay
<1>7. CASE ReceiveUp(d)
  <2>1. passedUp' = [passedUp EXCEPT ![d] = Append(passedUp[d], Unframed(d, Head(wire[p])))]
    BY <1>7 DEF ReceiveUp, p
  <2>2. passedUp'[d] = Append(passedUp[d], Unframed(d, Head(wire[p])))
    BY <1>2, <2>1
  <2>3. \A e \in Devices \ {p} : passedUp'[Peer(e)] = passedUp[Peer(e)]
    BY <1>1, <1>2, <2>1
  <2>4. Delivers(p)
    BY <1>1, <1>5, <1>6, <2>2, <2>3 DEF Delivers
  <2> QED BY <2>4 DEF p
<1>8. CASE ReceiveCorrupt(d)
  <2>1. ReceiveErrors /\ passedUp' = passedUp
    BY <1>8 DEF ReceiveCorrupt
  <2>2. Loses(p)
    BY <1>5, <1>6, <2>1 DEF Loses
  <2> QED BY <2>2 DEF p
<1> QED BY <1>7, <1>8 DEF Receive

\* Every step of the devices is a step of their link, or moves nothing on it.
LEMMA StepOnLink ==
  ASSUME TypeOK, [Next]_vars
  PROVE  \/ NothingMoves
         \/ \E d \in Devices : \/ \E ether \in EtherTypes : MaySend(d) /\ Accepts(d, ether)
                               \/ Delivers(d)
                               \/ Loses(d)
<1>1. CASE UNCHANGED vars
  BY <1>1 DEF vars, txVars, rxVars, NothingMoves, UnderWay
<1>2. ASSUME NEW d \in Devices,
             Attach(d) \/ DoInitialize(d) \/ SendLinkDown(d) \/ SendOverflow(d)
               \/ TransmitComplete(d)
      PROVE  NothingMoves
  BY <1>2, SetUpOnLink, CompleteOnLink DEF TransmitComplete
<1>3. ASSUME NEW d \in Devices, NEW ether \in EtherTypes,
             SendEnqueue(d, ether) \/ SendStart(d, ether)
      PROVE  MaySend(d) /\ Accepts(d, ether)
  BY <1>3, SendOnLink DEF SendEnqueue, SendStart
<1>4. ASSUME NEW d \in Devices, Receive(d)
      PROVE  Peer(d) \in Devices /\ (Delivers(Peer(d)) \/ Loses(Peer(d)))
  BY <1>4, ReceiveOnLink, PeerType
<1> QED BY <1>1, <1>2, <1>3, <1>4 DEF Next, Send

-----------------------------------------------------------------------------
(* A function applied to every element of a sequence *)

Things == Frames \union Deliveries

Maps(g, S, T) == \A x \in S : g[x] \in T

MapBy(g, s) == [i \in 1 .. Len(s) |-> g[s[i]]]

LEMMA MapType ==
  ASSUME NEW S, NEW T, NEW g, Maps(g, S, T), NEW s \in Seq(S)
  PROVE  MapBy(g, s) \in Seq(T) /\ Len(MapBy(g, s)) = Len(s)
<1>1. Len(s) \in Nat /\ \A i \in 1 .. Len(s) : s[i] \in S
  OBVIOUS
<1>2. MapBy(g, s) \in [1 .. Len(s) -> T]
  BY <1>1 DEF MapBy, Maps
<1> QED BY <1>1, <1>2

LEMMA MapAppend ==
  ASSUME NEW S, NEW T, NEW g, Maps(g, S, T), NEW s \in Seq(S), NEW x \in S
  PROVE  MapBy(g, Append(s, x)) = Append(MapBy(g, s), g[x])
<1> DEFINE m == MapBy(g, s)  a == Append(s, x)
<1>0. m \in Seq(T) /\ Len(m) = Len(s)
  BY MapType
<1>1. m \in Seq(T) /\ Len(m) = Len(s) /\ g[x] \in T /\ Len(s) \in Nat
  BY <1>0 DEF Maps
<1>2. /\ a \in Seq(S) /\ Len(a) = Len(s) + 1
      /\ \A i \in 1 .. Len(s) : a[i] = s[i]
      /\ a[Len(s) + 1] = x
  BY AppendProperties
<1>3. \A i \in 1 .. Len(s) : m[i] = g[s[i]]
  BY DEF MapBy
<1> HIDE DEF m, a
<1>4. /\ Append(m, g[x]) \in Seq(T) /\ Len(Append(m, g[x])) = Len(s) + 1
      /\ \A i \in 1 .. Len(s) : Append(m, g[x])[i] = g[s[i]]
      /\ Append(m, g[x])[Len(s) + 1] = g[x]
  BY <1>1, <1>3, AppendProperties
<1>5. MapBy(g, a) \in Seq(T) /\ Len(MapBy(g, a)) = Len(s) + 1
  <2>1. MapBy(g, a) \in Seq(T) /\ Len(MapBy(g, a)) = Len(a)
    BY <1>2, MapType
  <2> QED BY <1>2, <2>1
<1>6. \A i \in 1 .. Len(s) + 1 : MapBy(g, a)[i] = Append(m, g[x])[i]
  <2> TAKE i \in 1 .. Len(s) + 1
  <2>1. MapBy(g, a)[i] = g[a[i]]
    BY <1>2 DEF MapBy
  <2>2. i \in 1 .. Len(s) \/ i = Len(s) + 1
    BY <1>1
  <2> QED BY <1>2, <1>4, <2>1, <2>2
<1>7. MapBy(g, a) = Append(m, g[x])
  BY <1>4, <1>5, <1>6, SeqEqual
<1> QED BY <1>7 DEF a, m

LEMMA MapTail ==
  ASSUME NEW S, NEW T, NEW g, Maps(g, S, T), NEW s \in Seq(S), s # <<>>
  PROVE  /\ MapBy(g, s) # <<>> /\ Head(MapBy(g, s)) = g[Head(s)]
         /\ MapBy(g, Tail(s)) = Tail(MapBy(g, s))
<1> DEFINE m == MapBy(g, s)
<1>0. m \in Seq(T) /\ Len(m) = Len(s)
  BY MapType
<1>1. m \in Seq(T) /\ Len(m) = Len(s) /\ Len(s) \in Nat /\ Len(s) > 0
  BY <1>0
<1>2. \A i \in 1 .. Len(s) : m[i] = g[s[i]]
  BY DEF MapBy
<1>3. /\ Tail(s) \in Seq(S) /\ Len(Tail(s)) = Len(s) - 1 /\ Head(s) = s[1]
      /\ \A i \in 1 .. Len(Tail(s)) : Tail(s)[i] = s[i + 1]
  BY HeadTailProperties
<1> HIDE DEF m
<1>4. m # <<>>
  BY <1>1
<1>5. /\ Tail(m) \in Seq(T) /\ Len(Tail(m)) = Len(s) - 1 /\ Head(m) = m[1]
      /\ \A i \in 1 .. Len(Tail(m)) : Tail(m)[i] = m[i + 1]
  <2>1. /\ Tail(m) \in Seq(T) /\ Len(Tail(m)) = Len(m) - 1 /\ Head(m) = m[1]
        /\ \A i \in 1 .. Len(Tail(m)) : Tail(m)[i] = m[i + 1]
    BY <1>0, <1>4, HeadTailProperties
  <2> QED BY <1>0, <2>1
<1>6. Head(m) = g[Head(s)]
  BY <1>1, <1>2, <1>3, <1>5
<1>7. MapBy(g, Tail(s)) \in Seq(T) /\ Len(MapBy(g, Tail(s))) = Len(s) - 1
  <2> DEFINE t == Tail(s)
  <2>0. t \in Seq(S)
    BY <1>3
  <2> HIDE DEF t
  <2>1. MapBy(g, t) \in Seq(T) /\ Len(MapBy(g, t)) = Len(t)
    BY <2>0, MapType
  <2>2. Len(t) = Len(s) - 1
    BY <1>3 DEF t
  <2>3. MapBy(g, t) \in Seq(T) /\ Len(MapBy(g, t)) = Len(s) - 1
    BY <2>1, <2>2
  <2> QED BY <2>3, Zenon DEF t
<1>8. \A i \in 1 .. Len(s) - 1 : MapBy(g, Tail(s))[i] = Tail(m)[i]
  <2> TAKE i \in 1 .. Len(s) - 1
  <2>1. MapBy(g, Tail(s))[i] = g[Tail(s)[i]]
    BY <1>3 DEF MapBy
  <2>2. i + 1 \in 1 .. Len(s) /\ i \in 1 .. Len(Tail(s)) /\ i \in 1 .. Len(Tail(m))
    BY <1>1, <1>3, <1>5
  <2> QED BY <1>2, <1>3, <1>5, <2>1, <2>2
<1>9. MapBy(g, Tail(s)) = Tail(m)
  BY <1>5, <1>7, <1>8, SeqEqual
<1> QED BY <1>4, <1>6, <1>9 DEF m

LEMMA MapConcat ==
  ASSUME NEW S, NEW T, NEW g, Maps(g, S, T), NEW p \in Seq(S), NEW q \in Seq(S)
  PROVE  MapBy(g, p \o q) = MapBy(g, p) \o MapBy(g, q)
<1> DEFINE c == p \o q  mp == MapBy(g, p)  mq == MapBy(g, q)
<1>1. /\ c \in Seq(S) /\ Len(c) = Len(p) + Len(q) /\ Len(p) \in Nat /\ Len(q) \in Nat
      /\ \A i \in 1 .. Len(p) + Len(q) : c[i] = IF i <= Len(p) THEN p[i] ELSE q[i - Len(p)]
  BY ConcatProperties
<1>2. /\ mp \in Seq(T) /\ Len(mp) = Len(p) /\ mq \in Seq(T) /\ Len(mq) = Len(q)
  BY MapType
<1>3. (\A i \in 1 .. Len(p) : mp[i] = g[p[i]]) /\ (\A i \in 1 .. Len(q) : mq[i] = g[q[i]])
  BY DEF MapBy
<1> HIDE DEF c, mp, mq
<1>4. MapBy(g, c) \in Seq(T) /\ Len(MapBy(g, c)) = Len(c)
  BY <1>1, MapType
<1>5. /\ mp \o mq \in Seq(T) /\ Len(mp \o mq) = Len(mp) + Len(mq)
      /\ \A i \in 1 .. Len(mp) + Len(mq) :
           (mp \o mq)[i] = IF i <= Len(mp) THEN mp[i] ELSE mq[i - Len(mp)]
  BY <1>2, ConcatProperties
<1> DEFINE m == mp \o mq
<1>m. /\ m \in Seq(T) /\ Len(m) = Len(p) + Len(q)
      /\ \A i \in 1 .. Len(p) + Len(q) : m[i] = IF i <= Len(p) THEN mp[i] ELSE mq[i - Len(p)]
  BY <1>2, <1>5
<1> HIDE DEF m
<1>6. \A i \in 1 .. Len(c) : MapBy(g, c)[i] = m[i]
  <2> TAKE i \in 1 .. Len(c)
  <2>1. MapBy(g, c)[i] = g[c[i]]
    BY DEF MapBy
  <2>0. i \in 1 .. Len(p) + Len(q)
    BY <1>1
  <2>2. CASE i <= Len(p)
    <3>1. i \in 1 .. Len(p) /\ c[i] = p[i] /\ m[i] = mp[i]
      BY <1>1, <1>m, <2>0, <2>2
    <3> QED BY <1>3, <2>1, <3>1
  <2>3. CASE ~(i <= Len(p))
    <3>1. i - Len(p) \in 1 .. Len(q)
      BY <1>1, <2>3
    <3>2. c[i] = q[i - Len(p)] /\ m[i] = mq[i - Len(p)]
      BY <1>1, <1>m, <2>0, <2>3
    <3> QED BY <1>3, <2>1, <3>1, <3>2
  <2> QED BY <2>2, <2>3
<1>7. MapBy(g, c) = m
  BY <1>1, <1>4, <1>m, <1>6, SeqEqual
<1> QED BY <1>7 DEF c, m, mp, mq

-----------------------------------------------------------------------------
(* The devices implement FifoLink *)

\* The packet of a frame or of a delivery.
PacketOf == [x \in Things |-> x.packet]

LEMMA PacketOfType == Maps(PacketOf, Things, Packets)
BY DEF Maps, PacketOf, Things, Frames, Deliveries

LEMMA PacketsOfMap ==
  ASSUME NEW s \in Seq(Things)
  PROVE  PacketsOf(s) = MapBy(PacketOf, s)
<1>1. \A i \in 1 .. Len(s) : s[i] \in Things
  OBVIOUS
<1> QED BY <1>1 DEF PacketsOf, MapBy, PacketOf

\* Adding to a sequence adds to its packets, and so does taking from it.
LEMMA PacketsAppend ==
  ASSUME NEW s \in Seq(Things), NEW x \in Things
  PROVE  PacketsOf(Append(s, x)) = Append(PacketsOf(s), x.packet)
<1> DEFINE a == Append(s, x)
<1>1. a \in Seq(Things)
  BY AppendProperties
<1>2. MapBy(PacketOf, a) = Append(MapBy(PacketOf, s), PacketOf[x])
  BY PacketOfType, MapAppend
<1> HIDE DEF a
<1>3. PacketsOf(a) = MapBy(PacketOf, a) /\ PacketsOf(s) = MapBy(PacketOf, s)
  BY <1>1, PacketsOfMap
<1>4. PacketOf[x] = x.packet
  BY DEF PacketOf
<1>5. PacketsOf(a) = Append(PacketsOf(s), x.packet)
  BY <1>2, <1>3, <1>4
<1> QED BY <1>5 DEF a

LEMMA PacketsTail ==
  ASSUME NEW s \in Seq(Things), s # <<>>
  PROVE  /\ PacketsOf(s) # <<>> /\ Head(PacketsOf(s)) = Head(s).packet
         /\ PacketsOf(Tail(s)) = Tail(PacketsOf(s))
         /\ Head(s) \in Things
<1> DEFINE t == Tail(s)  h == Head(s)
<1>1. t \in Seq(Things) /\ h \in Things
  BY HeadTailProperties
<1>2. /\ MapBy(PacketOf, s) # <<>> /\ Head(MapBy(PacketOf, s)) = PacketOf[h]
      /\ MapBy(PacketOf, t) = Tail(MapBy(PacketOf, s))
  BY PacketOfType, MapTail
<1> HIDE DEF t, h
<1>3. PacketsOf(t) = MapBy(PacketOf, t) /\ PacketsOf(s) = MapBy(PacketOf, s)
  BY <1>1, PacketsOfMap
<1>4. PacketOf[h] = h.packet
  BY <1>1 DEF PacketOf
<1>5. /\ PacketsOf(s) # <<>> /\ Head(PacketsOf(s)) = h.packet
      /\ PacketsOf(t) = Tail(PacketsOf(s))
  BY <1>2, <1>3, <1>4
<1> QED BY <1>1, <1>5 DEF t, h

\* The frames under way and what was passed up are sequences of things.
LEMMA ThingsType ==
  ASSUME TypeOK, NEW d \in Devices
  PROVE  /\ UnderWay(d) \in Seq(Things) /\ passedUp[d] \in Seq(Things)
         /\ \A f \in Frames : f \in Things
         /\ \A x \in Deliveries : x \in Things
<1>1. UnderWay(d) \in Seq(Frames) /\ passedUp[d] \in Seq(Deliveries)
  BY UnderWayType
<1>2. Frames \subseteq Things /\ Deliveries \subseteq Things
  BY DEF Things
<1> HIDE DEF Things
<1> QED BY <1>1, <1>2

\* Whatever a handler does to the frames, FifoLink does to the packets.
LEMMA LinkStep ==
  ASSUME TypeOK, [Next]_vars
  PROVE  [Link!LNext]_(Link!linkvars)
<1> DEFINE chan == [e \in Devices |-> PacketsOf(UnderWay(e))]
           deliv == [e \in Devices |-> PacketsOf(passedUp[e])]
<1>0. \A e \in Devices : Peer(e) \in Devices /\ Peer(Peer(e)) = e
  BY PeerType
<1>1. CASE NothingMoves
  <2>1. chan' = chan /\ deliv' = deliv
    BY <1>1 DEF NothingMoves
  <2> QED BY <2>1 DEF Link!linkvars, UnderWay
<1>2. ASSUME NEW d \in Devices, NEW ether \in EtherTypes, MaySend(d), Accepts(d, ether)
      PROVE  Link!Accept(d)
  <2> DEFINE f == Framed(d, NewPacket(d, ether))
  <2>1. f \in Frames /\ f.packet \in Packets
    BY <1>2, FramedType DEF Frames
  <2>2. /\ UnderWay(d)' = Append(UnderWay(d), f)
        /\ \A e \in Devices \ {d} : UnderWay(e)' = UnderWay(e)
        /\ \A e \in Devices : passedUp'[e] = passedUp[e]
    BY <1>2 DEF Accepts
  <2> HIDE DEF f
  <2>3. UnderWay(d) \in Seq(Things) /\ f \in Things
    BY <2>1, ThingsType
  <2>4. PacketsOf(UnderWay(d))' = Append(PacketsOf(UnderWay(d)), f.packet)
    <3>1. PacketsOf(UnderWay(d))' = PacketsOf(Append(UnderWay(d), f))
      BY <2>2 DEF PacketsOf
    <3> QED BY <2>3, <3>1, PacketsAppend
  <2>5. chan' = [chan EXCEPT ![d] = Append(chan[d], f.packet)]
    BY <2>2, <2>4 DEF PacketsOf
  <2>6. deliv' = deliv
    BY <2>2 DEF PacketsOf
  <2> QED BY <2>1, <2>5, <2>6 DEF Link!Accept, UnderWay
<1>3. ASSUME NEW d \in Devices, UnderWay(d) # <<>>, UnderWay(d)' = Tail(UnderWay(d)),
             \A e \in Devices \ {d} : UnderWay(e)' = UnderWay(e)
      PROVE  /\ chan[d] # <<>> /\ Head(chan[d]) = Head(UnderWay(d)).packet
             /\ chan' = [chan EXCEPT ![d] = Tail(chan[d])]
  <2> DEFINE u == UnderWay(d)
  <2>1. u \in Seq(Things) /\ u # <<>> /\ u' = Tail(u)
    BY <1>3, ThingsType
  <2>2. PacketsOf(u)' = PacketsOf(Tail(u))
    BY <2>1 DEF PacketsOf
  <2>3. /\ PacketsOf(u) # <<>> /\ Head(PacketsOf(u)) = Head(u).packet
        /\ PacketsOf(Tail(u)) = Tail(PacketsOf(u))
    <3> HIDE DEF u
    <3> QED BY <2>1, PacketsTail
  <2>4. chan[d] = PacketsOf(u)
    OBVIOUS
  <2>5. chan' = [chan EXCEPT ![d] = PacketsOf(Tail(u))]
    BY <1>3, <2>2 DEF PacketsOf
  <2> QED BY <2>3, <2>4, <2>5
<1>4. ASSUME NEW d \in Devices, Delivers(d)
      PROVE  Link!Deliver(d)
  <2> DEFINE u == UnderWay(d)  p == Peer(d)  x == Unframed(p, Head(u))
  <2>1. /\ chan[d] # <<>> /\ Head(chan[d]) = Head(u).packet
        /\ chan' = [chan EXCEPT ![d] = Tail(chan[d])]
    BY <1>3, <1>4 DEF Delivers
  <2>2. p \in Devices /\ \A e \in Devices \ {p} : Peer(e) \in Devices \ {d} /\ Peer(Peer(e)) = e
    BY PeerType
  <2>3. /\ passedUp'[p] = Append(passedUp[p], x)
        /\ \A e \in Devices \ {p} : passedUp'[e] = passedUp[e]
    BY <1>4, <2>2 DEF Delivers
  <2>4. x \in Deliveries /\ x.packet = Head(u).packet
    <3>1. Head(u) \in Frames
      <4>1. u \in Seq(Frames) /\ u # <<>>
        BY <1>4, UnderWayType DEF Delivers
      <4> HIDE DEF u
      <4> QED BY <4>1, HeadTailProperties
    <3> HIDE DEF u
    <3> QED BY <2>2, <3>1, UnframedType DEF Unframed
  <2> HIDE DEF x
  <2>5. passedUp[p] \in Seq(Things) /\ x \in Things
    BY <2>2, <2>4, ThingsType
  <2>6. PacketsOf(Append(passedUp[p], x)) = Append(PacketsOf(passedUp[p]), x.packet)
    BY <2>5, PacketsAppend
  <2>7. PacketsOf(passedUp'[p]) = Append(PacketsOf(passedUp[p]), x.packet)
    BY <2>3, <2>6
  <2>8. deliv' = [deliv EXCEPT ![p] = Append(deliv[p], Head(chan[d]))]
    <3>1. deliv[p] = PacketsOf(passedUp[p]) /\ Head(chan[d]) = x.packet
      BY <2>1, <2>2, <2>4
    <3>2. \A e \in Devices \ {p} : PacketsOf(passedUp'[e]) = PacketsOf(passedUp[e])
      BY <2>3 DEF PacketsOf
    <3>3. deliv' = [e \in Devices |-> PacketsOf(passedUp'[e])]
      BY DEF PacketsOf
    <3> HIDE DEF p
    <3> QED BY <2>2, <2>7, <3>1, <3>2, <3>3
  <2> QED BY <2>1, <2>8 DEF Link!Deliver, UnderWay
<1>5. ASSUME NEW d \in Devices, Loses(d)
      PROVE  Link!Lose(d)
  <2>1. chan[d] # <<>> /\ chan' = [chan EXCEPT ![d] = Tail(chan[d])]
    BY <1>3, <1>5 DEF Loses
  <2>2. deliv' = deliv /\ ReceiveErrors
    BY <1>5 DEF Loses, PacketsOf
  <2> QED BY <2>1, <2>2 DEF Link!Lose, UnderWay
<1> QED BY <1>1, <1>2, <1>4, <1>5, StepOnLink DEF Link!LNext

\* The two devices and their channel are a link: every packet that Send accepts is
\* passed up at the other end at most once and in the order of the calls, and only
\* a receive error loses one.
THEOREM DevicesAreLink == Spec => Link!LSafeSpec
<1>1. Init => Link!LInit
  BY DEF Init, Link!LInit, PacketsOf
<1>2. TypeOK /\ [Next]_vars => [Link!LNext]_(Link!linkvars)
  BY LinkStep
<1> QED BY <1>1, <1>2, TypeCorrect, PTL DEF Spec, Link!LSafeSpec

-----------------------------------------------------------------------------
(* The order of the packets and what compression does to them *)

Configured == PppToEther(ConfigProtocol)

\* m_protocol is the configured EtherType from DoInitialize on.
ProtocolOK(d) == m_protocol[d] = IF initialized[d] THEN Configured ELSE 0

\* A frame from d is compressed only if d compresses and its EtherType is what
\* m_protocol was before or after DoInitialize; otherwise it is what was sent.
FrameOK(d, f) ==
  \/ /\ d \in Compressing /\ f.packet.ether \in {0, Configured}
     /\ f.ppp = EtherToPpp(LZS) /\ f.body = "deflated"
  \/ f.ppp = EtherToPpp(f.packet.ether) /\ f.body = "plain" /\ f.pad = 0

\* What a device passes up of a protocol nobody compresses is what was sent.
DeliveryOK(x) ==
  x.packet.ether \in DefinedEther \ {LZS, Configured} => Unaltered(x)

FramesOK(d) ==
  /\ ProtocolOK(d)
  /\ \A i \in 1 .. Len(UnderWay(d)) : FrameOK(d, UnderWay(d)[i])
  /\ \A i \in 1 .. Len(passedUp[d]) : DeliveryOK(passedUp[d][i])

\* What is left of a frame or a delivery at each end: its packet, and whether it was
\* compressed because of its protocol.
MarkOf == [x \in Things |-> [packet |-> x.packet,
            packed |-> x.body # "plain" /\ x.packet.ether \notin {0, LZS}]]
Marks == [packet : Packets, packed : BOOLEAN]

\* The packets from d that the link has accepted and not lost.
Trail(d) == MapBy(MarkOf, passedUp[Peer(d)]) \o MapBy(MarkOf, UnderWay(d))

\* A packet of device d, numbered up to n; it is only compressed by a compressing d
\* and if it is of the protocol proto.
MarkOK(d, m, n, proto) ==
  /\ m.packet.src = d /\ m.packet.n <= n
  /\ m.packed => d \in Compressing /\ m.packet.ether = proto /\ proto \notin {0, LZS}

\* Of two packets, the first was sent first; if it was compressed, then so is the
\* second, unless that is of another protocol.
Before(k, m) ==
  /\ k.packet.n < m.packet.n
  /\ k.packed /\ k.packet.ether = m.packet.ether => m.packed

TrailOK(d, t, n, proto) ==
  \A j \in 1 .. Len(t) :
    MarkOK(d, t[j], n, proto) /\ \A i \in 1 .. j - 1 : Before(t[i], t[j])

LinkOK ==
  \A d \in Devices : FramesOK(d) /\ TrailOK(d, Trail(d), sends[d], m_protocol[d])

-----------------------------------------------------------------------------

\* The table translates no other EtherType to the LZS number, and the numbers of the
\* table back to the EtherTypes they come from.
LEMMA TranslationInverse ==
  ASSUME NEW e
  PROVE  /\ EtherToPpp(LZS) = LZS
         /\ EtherToPpp(e) = LZS => e = LZS
         /\ e \in DefinedEther => PppToEther(EtherToPpp(e)) = e
         /\ 0 \notin DefinedEther
<1>1. EtherToPpp(LZS) = LZS
  BY DEF EtherToPpp, LZS, IPv4Ether, IPv6Ether, IPv4Ppp, IPv6Ppp
<1>2. EtherToPpp(e) = LZS => e = LZS
  BY DEF EtherToPpp, LZS, IPv4Ppp, IPv6Ppp
<1>3. e \in DefinedEther => PppToEther(EtherToPpp(e)) = e
  BY DEF DefinedEther, EtherToPpp, PppToEther, LZS, IPv4Ppp, IPv6Ppp, IPv4Ether, IPv6Ether
<1>4. 0 \notin DefinedEther
  BY DEF DefinedEther, LZS, IPv4Ether, IPv6Ether
<1> QED BY <1>1, <1>2, <1>3, <1>4

\* m_protocol changes once, from 0.
LEMMA ProtocolStep ==
  ASSUME TypeOK, [Next]_vars, NEW e \in Devices, ProtocolOK(e)
  PROVE  ProtocolOK(e)' /\ (m_protocol'[e] = m_protocol[e] \/ m_protocol[e] = 0)
<1>0. m_protocol \in [Devices -> ProtocolNumbers] /\ initialized \in [Devices -> BOOLEAN]
  BY DEF TypeOK
<1>1. CASE UNCHANGED <<m_protocol, initialized>>
  BY <1>1 DEF ProtocolOK, Configured
<1>2. ASSUME NEW d \in Devices, DoInitialize(d)
      PROVE  ProtocolOK(e)' /\ (m_protocol'[e] = m_protocol[e] \/ m_protocol[e] = 0)
  <2>1. /\ ~initialized[d]
        /\ initialized' = [initialized EXCEPT ![d] = TRUE]
        /\ m_protocol' = [m_protocol EXCEPT ![d] = Configured]
    BY <1>2 DEF DoInitialize, Configured
  <2>2. CASE e = d
    <3>1. m_protocol'[e] = Configured /\ initialized'[e] = TRUE /\ m_protocol[e] = 0
      BY <1>0, <2>1, <2>2 DEF ProtocolOK
    <3> QED BY <3>1 DEF ProtocolOK, Configured
  <2>3. CASE e # d
    <3>1. m_protocol'[e] = m_protocol[e] /\ initialized'[e] = initialized[e]
      BY <1>0, <2>1, <2>3
    <3> QED BY <3>1 DEF ProtocolOK, Configured
  <2> QED BY <2>2, <2>3
<1>3. ASSUME NEW d \in Devices, Attach(d) \/ Send(d) \/ TransmitComplete(d) \/ Receive(d)
      PROVE  UNCHANGED <<m_protocol, initialized>>
  BY <1>3 DEF Attach, Send, SendLinkDown, SendOverflow, SendEnqueue, SendStart, TransmitComplete,
              TransmitCompleteIdle, TransmitCompleteNext, Receive, ReceiveUp, ReceiveCorrupt,
              linkVars
<1>4. CASE UNCHANGED vars
  BY <1>1, <1>4 DEF vars, linkVars
<1> QED BY <1>1, <1>2, <1>3, <1>4 DEF Next

\* Calls of Send are only ever added.
LEMMA SendsGrow ==
  ASSUME TypeOK, [Next]_vars, NEW e \in Devices
  PROVE  sends[e] \in Nat /\ sends'[e] \in Nat /\ sends[e] <= sends'[e]
<1>0. sends \in [Devices -> Nat]
  BY DEF TypeOK
<1>1. ASSUME NEW d \in Devices, sends' = [sends EXCEPT ![d] = @ + 1]
      PROVE  sends'[e] \in Nat /\ sends[e] <= sends'[e]
  BY <1>0, <1>1
<1>2. ASSUME NEW d \in Devices, Send(d)
      PROVE  sends' = [sends EXCEPT ![d] = @ + 1]
  BY <1>2 DEF Send, SendLinkDown, SendOverflow, SendEnqueue, SendStart
<1>3. ASSUME NEW d \in Devices,
             Attach(d) \/ DoInitialize(d) \/ TransmitComplete(d) \/ Receive(d)
      PROVE  sends' = sends
  BY <1>3 DEF Attach, DoInitialize, TransmitComplete, TransmitCompleteIdle,
              TransmitCompleteNext, Receive, ReceiveUp, ReceiveCorrupt
<1>4. CASE UNCHANGED vars
  BY <1>0, <1>4 DEF vars
<1> QED BY <1>0, <1>1, <1>2, <1>3, <1>4 DEF Next

-----------------------------------------------------------------------------
(* Trails *)

LEMMA MarkOfType ==
  /\ Maps(MarkOf, Things, Marks)
  /\ \A x \in Things : MarkOf[x].packet = x.packet
       /\ MarkOf[x].packed = (x.body # "plain" /\ x.packet.ether \notin {0, LZS})
BY DEF Maps, MarkOf, Marks, Things, Frames, Deliveries

\* The numbers of packets are natural numbers.
LEMMA PacketNumbers == \A m \in Marks : m.packet.n \in Nat
BY BoundsAssumption DEF Marks, Packets

\* A trail stays one while calls of Send are added and m_protocol is set.
LEMMA TrailLater ==
  ASSUME NEW d, NEW t \in Seq(Marks), NEW n \in Nat, NEW n2 \in Nat, n <= n2,
         NEW proto, NEW proto2, proto2 = proto \/ proto = 0, TrailOK(d, t, n, proto)
  PROVE  TrailOK(d, t, n2, proto2)
<1> SUFFICES ASSUME NEW j \in 1 .. Len(t)
             PROVE  MarkOK(d, t[j], n2, proto2)
  BY DEF TrailOK
<1>1. MarkOK(d, t[j], n, proto) /\ t[j] \in Marks
  BY DEF TrailOK
<1>2. t[j].packet.n \in Nat
  BY <1>1, PacketNumbers
<1> QED BY <1>1, <1>2 DEF MarkOK

\* The next packet from d extends its trail.
LEMMA TrailAppend ==
  ASSUME NEW d, NEW t \in Seq(Marks), NEW n \in Nat, NEW proto, TrailOK(d, t, n, proto),
         NEW m \in Marks, m.packet.src = d, m.packet.n = n + 1,
         m.packed <=> d \in Compressing /\ m.packet.ether = proto /\ proto \notin {0, LZS}
  PROVE  TrailOK(d, Append(t, m), n + 1, proto)
<1> DEFINE a == Append(t, m)
<1>1. /\ Len(t) \in Nat /\ Len(a) = Len(t) + 1 /\ a[Len(t) + 1] = m
      /\ \A i \in 1 .. Len(t) : a[i] = t[i] /\ t[i] \in Marks
  BY AppendProperties
<1>2. TrailOK(d, t, n + 1, proto)
  BY TrailLater
<1>3. MarkOK(d, m, n + 1, proto)
  BY DEF MarkOK
<1>4. \A i \in 1 .. Len(t) : Before(t[i], m)
  <2> TAKE i \in 1 .. Len(t)
  <2>1. MarkOK(d, t[i], n, proto) /\ t[i].packet.n \in Nat
    BY <1>1, PacketNumbers DEF TrailOK
  <2> QED BY <2>1 DEF MarkOK, Before
<1> HIDE DEF a
<1> SUFFICES ASSUME NEW j \in 1 .. Len(a)
             PROVE  MarkOK(d, a[j], n + 1, proto) /\ \A i \in 1 .. j - 1 : Before(a[i], a[j])
  BY DEF TrailOK, a
<1>5. CASE j \in 1 .. Len(t)
  <2>1. a[j] = t[j] /\ \A i \in 1 .. j - 1 : a[i] = t[i]
    BY <1>1, <1>5
  <2> QED BY <1>2, <1>5, <2>1 DEF TrailOK
<1>6. CASE j = Len(t) + 1
  <2>1. a[j] = m /\ \A i \in 1 .. j - 1 : i \in 1 .. Len(t) /\ a[i] = t[i]
    BY <1>1, <1>6
  <2> QED BY <1>3, <1>4, <2>1
<1> QED BY <1>1, <1>5, <1>6

\* A packet that is lost leaves a trail behind.
LEMMA TrailShorter ==
  ASSUME NEW d, NEW p \in Seq(Marks), NEW q \in Seq(Marks), q # <<>>,
         NEW n, NEW proto, TrailOK(d, p \o q, n, proto)
  PROVE  TrailOK(d, p \o Tail(q), n, proto)
<1> DEFINE t == p \o q  r == Tail(q)  s == p \o r
           old(i) == IF i <= Len(p) THEN i ELSE i + 1
<1>1. /\ r \in Seq(Marks) /\ Len(r) = Len(q) - 1
      /\ \A i \in 1 .. Len(r) : r[i] = q[i + 1]
  BY HeadTailProperties
<1>2. /\ Len(t) = Len(p) + Len(q)
      /\ \A i \in 1 .. Len(p) + Len(q) : t[i] = IF i <= Len(p) THEN p[i] ELSE q[i - Len(p)]
  BY ConcatProperties
<1> HIDE DEF t, r
<1>3. /\ Len(s) = Len(p) + Len(r)
      /\ \A i \in 1 .. Len(p) + Len(r) : s[i] = IF i <= Len(p) THEN p[i] ELSE r[i - Len(p)]
  BY <1>1, ConcatProperties
<1> HIDE DEF s
<1>4. Len(p) \in Nat /\ Len(q) \in Nat
  OBVIOUS
<1>5. \A i \in 1 .. Len(s) : old(i) \in 1 .. Len(t) /\ s[i] = t[old(i)]
  <2> TAKE i \in 1 .. Len(s)
  <2>1. i \in 1 .. Len(p) + Len(r) /\ Len(r) = Len(q) - 1
    BY <1>1, <1>3
  <2>2. CASE i <= Len(p)
    <3>1. i \in 1 .. Len(p) + Len(q)
      BY <1>4, <2>1, <2>2
    <3>2. s[i] = p[i] /\ t[i] = p[i]
      BY <1>2, <1>3, <2>1, <2>2, <3>1
    <3> QED BY <1>2, <2>2, <3>1, <3>2
  <2>3. CASE ~(i <= Len(p))
    <3>1. /\ i + 1 \in 1 .. Len(p) + Len(q) /\ ~(i + 1 <= Len(p))
          /\ i - Len(p) \in 1 .. Len(r) /\ i + 1 - Len(p) = i - Len(p) + 1
      BY <1>4, <2>1, <2>3
    <3>2. s[i] = r[i - Len(p)] /\ t[i + 1] = q[i + 1 - Len(p)]
      BY <1>2, <1>3, <2>1, <2>3, <3>1
    <3>3. s[i] = t[i + 1]
      BY <1>1, <3>1, <3>2
    <3> QED BY <1>2, <2>3, <3>1, <3>3
  <2> QED BY <2>2, <2>3
<1>6. TrailOK(d, t, n, proto)
  BY DEF t
<1> SUFFICES ASSUME NEW j \in 1 .. Len(s)
             PROVE  MarkOK(d, s[j], n, proto) /\ \A i \in 1 .. j - 1 : Before(s[i], s[j])
  BY DEF TrailOK, s, r
<1>7. MarkOK(d, s[j], n, proto)
  BY <1>5, <1>6 DEF TrailOK
<1>8. ASSUME NEW i \in 1 .. j - 1
      PROVE  Before(s[i], s[j])
  <2>1. i \in 1 .. Len(s) /\ old(i) \in 1 .. old(j) - 1
    BY <1>3, <1>4, <1>1
  <2> QED BY <1>5, <1>6, <2>1 DEF TrailOK
<1> QED BY <1>7, <1>8

-----------------------------------------------------------------------------

\* What Send makes of its next packet.
LEMMA NewFrame ==
  ASSUME TypeOK, NEW d \in Devices, NEW ether \in EtherTypes, MaySend(d), ProtocolOK(d),
         NEW f, f = Framed(d, NewPacket(d, ether))
  PROVE  /\ f \in Frames /\ FrameOK(d, f)
         /\ f.packet.src = d /\ f.packet.n = sends[d] + 1
         /\ MarkOf[f].packed <=> d \in Compressing /\ f.packet.ether = m_protocol[d]
                                /\ m_protocol[d] \notin {0, LZS}
<1> DEFINE p == NewPacket(d, ether)
<1>1. f \in Frames
  BY FramedType
<1>2. p.src = d /\ p.n = sends[d] + 1
  BY DEF NewPacket
<1> HIDE DEF p
<1>3. MarkOf[f].packed = (f.body # "plain" /\ f.packet.ether \notin {0, LZS})
  BY <1>1, ThingsType, MarkOfType
<1>4. CASE d \in Compressing /\ p.ether = m_protocol[d]
  <2>1. f = [packet |-> p, ppp |-> EtherToPpp(LZS), body |-> "deflated", pad |-> 8]
    BY <1>4 DEF Framed, p
  <2>2. p.ether \in {0, Configured}
    BY <1>4 DEF ProtocolOK
  <2>3. FrameOK(d, f)
    BY <1>4, <2>1, <2>2 DEF FrameOK
  <2>4. f.packet = p /\ f.body = "deflated"
    BY <2>1
  <2>5. MarkOf[f].packed <=> m_protocol[d] \notin {0, LZS}
    BY <1>3, <1>4, <2>4
  <2> QED BY <1>1, <1>2, <1>4, <2>3, <2>4, <2>5
<1>5. CASE ~(d \in Compressing /\ p.ether = m_protocol[d])
  <2>1. f = [packet |-> p, ppp |-> EtherToPpp(p.ether), body |-> "plain", pad |-> 0]
    BY <1>5 DEF Framed, p
  <2>2. FrameOK(d, f)
    BY <2>1 DEF FrameOK
  <2>3. f.packet = p /\ f.body = "plain"
    BY <2>1
  <2>4. ~MarkOf[f].packed
    BY <1>3, <2>3
  <2> QED BY <1>1, <1>2, <1>5, <2>2, <2>3, <2>4
<1> QED BY <1>4, <1>5

\* What Receive makes of a frame.
LEMMA ReceivedFrame ==
  ASSUME NEW d \in Devices, NEW e \in Devices, NEW h \in Frames, FrameOK(d, h),
         NEW x, x = Unframed(e, h)
  PROVE  x \in Deliveries /\ DeliveryOK(x) /\ MarkOf[x] = MarkOf[h]
<1>1. x \in Deliveries /\ x \in Things /\ h \in Things
  BY UnframedType DEF Things
<1>2. x.packet = h.packet
  BY DEF Unframed
<1>3. \/ x.body = "inflated" /\ h.ppp = LZS
      \/ x.body = h.body /\ x.pad = h.pad /\ x.ether = PppToEther(h.ppp)
  BY DEF Unframed
<1>4. DeliveryOK(x)
  <2> SUFFICES ASSUME x.packet.ether \in DefinedEther \ {LZS, Configured}
               PROVE  Unaltered(x)
    BY DEF DeliveryOK
  <2>1. h.ppp = EtherToPpp(h.packet.ether) /\ h.body = "plain" /\ h.pad = 0
    BY <1>2, TranslationInverse DEF FrameOK
  <2>2. h.ppp # LZS /\ PppToEther(h.ppp) = x.packet.ether
    BY <1>2, <2>1, TranslationInverse
  <2> QED BY <1>3, <2>1, <2>2 DEF Unaltered
<1>5. MarkOf[x] = MarkOf[h]
  <2>1. (x.body # "plain" /\ x.packet.ether \notin {0, LZS})
          = (h.body # "plain" /\ h.packet.ether \notin {0, LZS})
    <3>1. CASE h.body = "deflated"
      <4>1. x.body # "plain"
        BY <1>3, <3>1
      <4> QED BY <1>2, <3>1, <4>1
    <3>2. CASE h.ppp = EtherToPpp(h.packet.ether) /\ h.body = "plain"
      <4>1. h.ppp = LZS => h.packet.ether = LZS
        BY <3>2, TranslationInverse
      <4> QED BY <1>2, <1>3, <3>2, <4>1
    <3> QED BY <3>1, <3>2 DEF FrameOK
  <2> QED BY <1>1, <1>2, <2>1 DEF MarkOf
<1> QED BY <1>1, <1>4, <1>5

\* The first of the frames under way.
LEMMA FirstUnderWay ==
  ASSUME TypeOK, NEW d \in Devices, FramesOK(d), UnderWay(d) # <<>>
  PROVE  /\ Head(UnderWay(d)) \in Frames /\ FrameOK(d, Head(UnderWay(d)))
         /\ Tail(UnderWay(d)) \in Seq(Frames)
         /\ \A i \in 1 .. Len(Tail(UnderWay(d))) : FrameOK(d, Tail(UnderWay(d))[i])
<1> DEFINE u == UnderWay(d)
<1>1. u \in Seq(Frames) /\ u # <<>> /\ \A i \in 1 .. Len(u) : FrameOK(d, u[i])
  BY UnderWayType DEF FramesOK
<1> HIDE DEF u
<1>2. /\ Head(u) \in Frames /\ Tail(u) \in Seq(Frames) /\ Head(u) = u[1]
      /\ Len(u) \in Nat /\ Len(u) > 0 /\ Len(Tail(u)) = Len(u) - 1
      /\ \A i \in 1 .. Len(Tail(u)) : Tail(u)[i] = u[i + 1]
  BY <1>1, HeadTailProperties
<1>3. FrameOK(d, Head(u))
  BY <1>1, <1>2
<1>4. \A i \in 1 .. Len(Tail(u)) : FrameOK(d, Tail(u)[i])
  BY <1>1, <1>2
<1> QED BY <1>2, <1>3, <1>4 DEF u

\* A step keeps what is known of single frames and deliveries.
LEMMA FramesStep ==
  ASSUME TypeOK, [Next]_vars, \A e \in Devices : FramesOK(e), NEW e \in Devices
  PROVE  FramesOK(e)'
<1> DEFINE UnderOK == \A i \in 1 .. Len(UnderWay(e)) : FrameOK(e, UnderWay(e)[i])
           UpOK == \A i \in 1 .. Len(passedUp[e]) : DeliveryOK(passedUp[e][i])
<1>1. ProtocolOK(e)' /\ UnderOK /\ UpOK /\ Peer(e) \in Devices /\ Peer(Peer(e)) = e
  BY ProtocolStep, PeerType DEF FramesOK
<1>2. ASSUME UnderWay(e)' = UnderWay(e)
      PROVE  UnderOK'
  BY <1>1, <1>2 DEF FrameOK, Configured
<1>3. ASSUME passedUp'[e] = passedUp[e]
      PROVE  UpOK'
  BY <1>1, <1>3 DEF DeliveryOK, Configured, Unaltered
<1>4. CASE NothingMoves
  BY <1>1, <1>2, <1>3, <1>4 DEF NothingMoves, FramesOK
<1>5. ASSUME NEW d \in Devices, NEW ether \in EtherTypes, MaySend(d), Accepts(d, ether)
      PROVE  FramesOK(e)'
  <2>1. CASE e # d
    BY <1>1, <1>2, <1>3, <1>5, <2>1 DEF Accepts, FramesOK
  <2>2. CASE e = d
    <3> DEFINE f == Framed(d, NewPacket(d, ether))  u == UnderWay(d)
    <3>1. f \in Frames /\ FrameOK(d, f)
      BY <1>5, NewFrame DEF FramesOK
    <3>2. u' = Append(u, f)
      BY <1>5 DEF Accepts
    <3>3. u \in Seq(Frames) /\ \A i \in 1 .. Len(u) : FrameOK(d, u[i])
      BY UnderWayType, <1>1, <2>2
    <3> HIDE DEF f
    <3>4. \A i \in 1 .. Len(Append(u, f)) : FrameOK(d, Append(u, f)[i])
      <4> HIDE DEF u
      <4> QED BY <3>1, <3>3, AppendProperties
    <3>5. UnderOK'
      BY <2>2, <3>2, <3>4 DEF FrameOK, Configured
    <3> QED BY <1>1, <1>3, <1>5, <2>2, <3>5 DEF Accepts, FramesOK
  <2> QED BY <2>1, <2>2
<1>6. ASSUME NEW d \in Devices, UnderWay(d) # <<>>, UnderWay(d)' = Tail(UnderWay(d)),
             \A c \in Devices \ {d} : UnderWay(c)' = UnderWay(c)
      PROVE  UnderOK'
  <2>1. CASE e # d
    BY <1>2, <1>6, <2>1
  <2>2. CASE e = d
    <3>1. \A i \in 1 .. Len(Tail(UnderWay(d))) : FrameOK(d, Tail(UnderWay(d))[i])
      BY <1>6, FirstUnderWay
    <3> QED BY <1>6, <2>2, <3>1 DEF FrameOK, Configured
  <2> QED BY <2>1, <2>2
<1>7. ASSUME NEW d \in Devices, Delivers(d)
      PROVE  FramesOK(e)'
  <2>1. UnderOK'
    BY <1>6, <1>7 DEF Delivers
  <2>2. CASE e # Peer(d)
    <3>1. Peer(e) \in Devices \ {d}
      BY <1>1, <2>2, PeerType
    <3>2. passedUp'[e] = passedUp[e]
      BY <1>1, <1>7, <3>1 DEF Delivers
    <3> QED BY <1>1, <1>3, <2>1, <3>2 DEF FramesOK
  <2>3. CASE e = Peer(d)
    <3> DEFINE h == Head(UnderWay(d))  x == Unframed(e, h)  s == passedUp[e]
    <3>1. h \in Frames /\ FrameOK(d, h)
      BY <1>7, FirstUnderWay DEF Delivers
    <3>2. passedUp'[e] = Append(s, x)
      BY <1>7, <2>3 DEF Delivers
    <3> HIDE DEF h
    <3>3. x \in Deliveries /\ DeliveryOK(x)
      BY <3>1, ReceivedFrame
    <3>4. s \in Seq(Deliveries) /\ \A i \in 1 .. Len(s) : DeliveryOK(s[i])
      BY <1>1, UnderWayType
    <3> HIDE DEF s, x
    <3>5. \A i \in 1 .. Len(Append(s, x)) : DeliveryOK(Append(s, x)[i])
      BY <3>3, <3>4, AppendProperties
    <3>6. UpOK'
      BY <3>2, <3>5 DEF DeliveryOK, Configured, Unaltered
    <3> QED BY <1>1, <2>1, <3>6 DEF FramesOK
  <2> QED BY <2>2, <2>3
<1>8. ASSUME NEW d \in Devices, Loses(d)
      PROVE  FramesOK(e)'
  <2>1. UnderOK'
    BY <1>6, <1>8 DEF Loses
  <2>2. UpOK'
    BY <1>3, <1>8 DEF Loses
  <2> QED BY <1>1, <2>1, <2>2 DEF FramesOK
<1> QED BY <1>4, <1>5, <1>7, <1>8, StepOnLink

\* The two legs of a trail are sequences of marks.
LEMMA TrailType ==
  ASSUME TypeOK, NEW d \in Devices
  PROVE  /\ MapBy(MarkOf, passedUp[d]) \in Seq(Marks)
         /\ MapBy(MarkOf, UnderWay(d)) \in Seq(Marks)
         /\ Trail(d) \in Seq(Marks)
<1>1. \A e \in Devices : /\ MapBy(MarkOf, passedUp[e]) \in Seq(Marks)
                         /\ MapBy(MarkOf, UnderWay(e)) \in Seq(Marks)
  <2> TAKE e \in Devices
  <2>1. passedUp[e] \in Seq(Things) /\ UnderWay(e) \in Seq(Things)
    BY ThingsType
  <2> QED BY <2>1, MarkOfType, MapType
<1>2. Peer(d) \in Devices
  BY PeerType
<1>3. ASSUME NEW p \in Seq(Marks), NEW q \in Seq(Marks)
      PROVE  p \o q \in Seq(Marks)
  OBVIOUS
<1> QED BY <1>1, <1>2, <1>3 DEF Trail

\* Packets are accepted at the end of a trail, move along it and are lost from it.
LEMMA TrailStep ==
  ASSUME TypeOK, [Next]_vars, NEW e \in Devices, FramesOK(e),
         TrailOK(e, Trail(e), sends[e], m_protocol[e])
  PROVE  TrailOK(e, Trail(e), sends[e], m_protocol[e])'
<1> DEFINE t == Trail(e)  up == passedUp[Peer(e)]  u == UnderWay(e)
           p == MapBy(MarkOf, up)  q == MapBy(MarkOf, u)
<1>0. Trail(e)' = MapBy(MarkOf, up') \o MapBy(MarkOf, u')
  BY DEF Trail, MapBy, MarkOf
<1>1. /\ t \in Seq(Marks) /\ p \in Seq(Marks) /\ q \in Seq(Marks) /\ t = p \o q
      /\ up \in Seq(Things) /\ u \in Seq(Things)
      /\ Peer(e) \in Devices /\ Peer(Peer(e)) = e
  BY TrailType, ThingsType, PeerType DEF Trail
<1>2. /\ sends[e] \in Nat /\ sends'[e] \in Nat /\ sends[e] <= sends'[e]
      /\ m_protocol'[e] = m_protocol[e] \/ m_protocol[e] = 0
  BY SendsGrow, ProtocolStep DEF FramesOK
<1>3. ASSUME NEW s \in Seq(Marks), NEW n \in Nat, n <= sends'[e],
             TrailOK(e, s, n, m_protocol[e]), Trail(e)' = s
      PROVE  TrailOK(e, Trail(e), sends[e], m_protocol[e])'
  <2>1. TrailOK(e, s, sends'[e], m_protocol'[e])
    BY <1>2, <1>3, TrailLater
  <2> QED BY <1>3, <2>1 DEF TrailOK, MarkOK, Before
<1>4. ASSUME up' = up, u' = u
      PROVE  TrailOK(e, Trail(e), sends[e], m_protocol[e])'
  <2>1. Trail(e)' = t
    BY <1>4 DEF Trail, MapBy, MarkOf
  <2> HIDE DEF t
  <2>2. t \in Seq(Marks) /\ TrailOK(e, t, sends[e], m_protocol[e])
    BY <1>1 DEF t
  <2> QED BY <1>2, <1>3, <2>1, <2>2
<1>5. CASE NothingMoves
  BY <1>1, <1>4, <1>5 DEF NothingMoves
<1>7. ASSUME NEW ether \in EtherTypes, MaySend(e), Accepts(e, ether)
      PROVE  TrailOK(e, Trail(e), sends[e], m_protocol[e])'
  <2> DEFINE f == Framed(e, NewPacket(e, ether))  m == MarkOf[f]
  <2>1. /\ f \in Things /\ f.packet.src = e /\ f.packet.n = sends[e] + 1
        /\ m.packed <=> e \in Compressing /\ f.packet.ether = m_protocol[e]
                        /\ m_protocol[e] \notin {0, LZS}
    BY <1>7, NewFrame DEF FramesOK, Things
  <2>2. u' = Append(u, f) /\ up' = up /\ sends'[e] = sends[e] + 1
    BY <1>1, <1>7 DEF Accepts
  <2> HIDE DEF f
  <2>3. m \in Marks /\ m.packet = f.packet
    BY <2>1, MarkOfType DEF Maps
  <2>4. MapBy(MarkOf, Append(u, f)) = Append(q, m)
    <3> HIDE DEF u
    <3> QED BY <1>1, <2>1, MarkOfType, MapAppend
  <2> HIDE DEF m
  <2>5. Trail(e)' = p \o Append(q, m)
    BY <1>0, <2>2, <2>4
  <2>6. p \o Append(q, m) = Append(t, m)
    <3> HIDE DEF p, q
    <3> QED BY <1>1, <2>3, LastOfAll
  <2>7. TrailOK(e, Append(t, m), sends[e] + 1, m_protocol[e])
    <3>1. TrailOK(e, t, sends[e], m_protocol[e])
      OBVIOUS
    <3>2. t \in Seq(Marks) /\ sends[e] \in Nat
      BY <1>1, <1>2
    <3>3. m.packet.src = e /\ m.packet.n = sends[e] + 1
      BY <2>1, <2>3
    <3>4. m.packed <=> e \in Compressing /\ m.packet.ether = m_protocol[e]
                       /\ m_protocol[e] \notin {0, LZS}
      BY <2>1, <2>3
    <3> HIDE DEF t
    <3> QED BY <2>3, <3>1, <3>2, <3>3, <3>4, TrailAppend
  <2> HIDE DEF t
  <2>8. Append(t, m) \in Seq(Marks)
    BY <1>1, <2>3
  <2>9. sends[e] + 1 \in Nat /\ sends[e] + 1 <= sends'[e]
    BY <1>2, <2>2
  <2> QED BY <1>3, <2>5, <2>6, <2>7, <2>8, <2>9
<1>8. ASSUME u # <<>>, u' = Tail(u)
      PROVE  /\ q # <<>> /\ MapBy(MarkOf, u') = Tail(q) /\ Head(q) = MarkOf[Head(u)]
             /\ Head(u) \in Frames /\ FrameOK(e, Head(u))
  <2>1. Head(u) \in Frames /\ FrameOK(e, Head(u))
    BY <1>8, FirstUnderWay
  <2>2. /\ q # <<>> /\ MapBy(MarkOf, Tail(u)) = Tail(q) /\ Head(q) = MarkOf[Head(u)]
    <3> HIDE DEF u
    <3> QED BY <1>1, <1>8, MarkOfType, MapTail
  <2> QED BY <1>8, <2>1, <2>2
<1>9. CASE Delivers(e)
  <2> DEFINE h == Head(u)  x == Unframed(Peer(e), h)
  <2>1. u # <<>> /\ u' = Tail(u) /\ up' = Append(up, x)
    BY <1>9 DEF Delivers
  <2>2. q # <<>> /\ MapBy(MarkOf, u') = Tail(q) /\ Head(q) = MarkOf[h]
        /\ h \in Frames /\ FrameOK(e, h)
    BY <1>8, <2>1
  <2> HIDE DEF h
  <2>3. x \in Things /\ MarkOf[x] = MarkOf[h]
    BY <1>1, <2>2, ReceivedFrame DEF Things
  <2> HIDE DEF x
  <2>4. MapBy(MarkOf, Append(up, x)) = Append(p, Head(q))
    <3>1. MapBy(MarkOf, Append(up, x)) = Append(p, MarkOf[x])
      <4> HIDE DEF up
      <4> QED BY <1>1, <2>3, MarkOfType, MapAppend
    <3> QED BY <2>2, <2>3, <3>1
  <2>5. Trail(e)' = Append(p, Head(q)) \o Tail(q)
    BY <1>0, <2>1, <2>2, <2>4
  <2>6. Append(p, Head(q)) \o Tail(q) = t
    <3> HIDE DEF p, q
    <3> QED BY <1>1, <2>2, HeadMovesOn
  <2>7. TrailOK(e, t, sends[e], m_protocol[e])
    OBVIOUS
  <2> HIDE DEF t
  <2> QED BY <1>1, <1>2, <1>3, <2>5, <2>6, <2>7
<1>10. CASE Loses(e)
  <2>1. u # <<>> /\ u' = Tail(u) /\ up' = up
    BY <1>1, <1>10 DEF Loses
  <2>2. q # <<>> /\ MapBy(MarkOf, u') = Tail(q)
    BY <1>8, <2>1
  <2>3. Trail(e)' = p \o Tail(q)
    BY <1>0, <2>1, <2>2
  <2>4. TrailOK(e, p \o q, sends[e], m_protocol[e])
    BY <1>1
  <2> HIDE DEF p, q
  <2>5. TrailOK(e, p \o Tail(q), sends[e], m_protocol[e])
    BY <1>1, <2>2, <2>4, TrailShorter
  <2>6. p \o Tail(q) \in Seq(Marks)
    BY <1>1, <2>2
  <2> QED BY <1>2, <1>3, <2>3, <2>5, <2>6
<1>11. ASSUME NEW d \in Devices \ {e},
              Loses(d) \/ Delivers(d) \/ \E ether \in EtherTypes : Accepts(d, ether)
       PROVE  TrailOK(e, Trail(e), sends[e], m_protocol[e])'
  <2>1. u' = u /\ up' = up
    BY <1>1, <1>11 DEF Accepts, Loses, Delivers
  <2> QED BY <1>4, <2>1
<1> QED BY <1>5, <1>7, <1>9, <1>10, <1>11, StepOnLink

LEMMA LinkInit == Init => LinkOK
<1> SUFFICES ASSUME Init, NEW d \in Devices
             PROVE  FramesOK(d) /\ TrailOK(d, Trail(d), sends[d], m_protocol[d])
  BY DEF LinkOK
<1>1. Peer(d) \in Devices
  BY PeerType
<1>2. /\ wire[d] = <<>> /\ m_queue[d] = <<>> /\ passedUp[d] = <<>> /\ passedUp[Peer(d)] = <<>>
      /\ m_protocol[d] = 0 /\ initialized[d] = FALSE
  BY <1>1 DEF Init
<1>3. UnderWay(d) = <<>>
  BY <1>2 DEF UnderWay
<1>4. FramesOK(d)
  BY <1>2, <1>3 DEF FramesOK, ProtocolOK
<1>5. MapBy(MarkOf, <<>>) = <<>>
  BY DEF MapBy
<1>6. Trail(d) = <<>>
  BY <1>2, <1>3, <1>5 DEF Trail
<1> QED BY <1>4, <1>6 DEF TrailOK

LEMMA TrailsStep ==
  ASSUME TypeOK, LinkOK, [Next]_vars
  PROVE  LinkOK'
<1>1. ASSUME NEW d \in Devices
      PROVE  FramesOK(d)' /\ TrailOK(d, Trail(d), sends[d], m_protocol[d])'
  <2>1. \A e \in Devices : FramesOK(e) /\ TrailOK(e, Trail(e), sends[e], m_protocol[e])
    BY DEF LinkOK
  <2>2. FramesOK(d)'
    BY <2>1, FramesStep
  <2>3. TrailOK(d, Trail(d), sends[d], m_protocol[d])'
    BY <2>1, TrailStep
  <2> QED BY <2>2, <2>3
<1> QED BY <1>1, Zenon DEF LinkOK

LEMMA LinkInvariant == Spec => [](TypeOK /\ LinkOK)
<1>1. Init => TypeOK /\ LinkOK
  BY TypeInit, LinkInit
<1>2. TypeOK /\ LinkOK /\ [Next]_vars => (TypeOK /\ LinkOK)'
  BY TypeStep, TrailsStep
<1> QED BY <1>1, <1>2, PTL DEF Spec

\* The journey of the packets from d leaves its trail.
LEMMA JourneyTrail ==
  ASSUME TypeOK, NEW d \in Devices
  PROVE  /\ Len(Trail(d)) = Len(Journey(d))
         /\ \A i \in 1 .. Len(Journey(d)) :
              /\ Trail(d)[i].packet = Journey(d)[i].packet
              /\ Trail(d)[i].packed = (Journey(d)[i].body # "plain"
                                         /\ Journey(d)[i].packet.ether \notin {0, LZS})
<1> DEFINE p == passedUp[Peer(d)]  w == wire[d]  q == m_queue[d]  j == Journey(d)
<1>1. p \in Seq(Things) /\ w \in Seq(Things) /\ q \in Seq(Things)
  <2>1. Peer(d) \in Devices /\ w \in Seq(Frames) /\ q \in Seq(Frames)
    BY PeerType, UnderWayType
  <2>2. p \in Seq(Things) /\ Frames \subseteq Things
    BY <2>1, ThingsType DEF Things
  <2> HIDE DEF p, w, q
  <2> QED BY <2>1, <2>2
<1>2. j = p \o (w \o q)
  <2>1. j = (p \o w) \o q
    BY DEF Journey
  <2> HIDE DEF p, w, q, j
  <2> QED BY <1>1, <2>1, ConcatAssociative
<1>3. w \o q \in Seq(Things) /\ j \in Seq(Things)
  <2> HIDE DEF p, w, q, j
  <2> QED BY <1>1, <1>2, ConcatProperties
<1>4. Trail(d) = MapBy(MarkOf, j)
  <2> DEFINE u == w \o q
  <2>1. Trail(d) = MapBy(MarkOf, p) \o MapBy(MarkOf, u)
    BY DEF Trail, UnderWay
  <2>2. j = p \o u /\ u \in Seq(Things)
    BY <1>2, <1>3
  <2> HIDE DEF p, u, j
  <2>3. MapBy(MarkOf, p \o u) = MapBy(MarkOf, p) \o MapBy(MarkOf, u)
    BY <1>1, <2>2, MarkOfType, MapConcat
  <2> QED BY <2>1, <2>2, <2>3
<1> HIDE DEF j
<1>5. Len(Trail(d)) = Len(j)
  BY <1>3, <1>4, MarkOfType, MapType
<1>6. \A i \in 1 .. Len(j) : j[i] \in Things /\ Trail(d)[i] = MarkOf[j[i]]
  BY <1>3, <1>4 DEF MapBy
<1>7. \A i \in 1 .. Len(j) :
        /\ Trail(d)[i].packet = j[i].packet
        /\ Trail(d)[i].packed = (j[i].body # "plain" /\ j[i].packet.ether \notin {0, LZS})
  BY <1>6, MarkOfType
<1> QED BY <1>5, <1>7 DEF j

LEMMA JourneyInOrder == TypeOK /\ LinkOK => InOrder
<1> SUFFICES ASSUME TypeOK, LinkOK, NEW d \in Devices, NEW j \in 1 .. Len(Journey(d))
             PROVE  /\ Journey(d)[j].packet.src = d
                    /\ Journey(d)[j].packet.n <= sends[d]
                    /\ \A i \in 1 .. j - 1 : Journey(d)[i].packet.n < Journey(d)[j].packet.n
  BY DEF InOrder
<1> DEFINE t == Trail(d)  s == Journey(d)
<1>1. Len(t) = Len(s) /\ \A i \in 1 .. Len(s) : t[i].packet = s[i].packet
  BY JourneyTrail
<1>2. TrailOK(d, t, sends[d], m_protocol[d])
  BY DEF LinkOK
<1>3. \A i \in 1 .. j - 1 : i \in 1 .. Len(s)
  OBVIOUS
<1> HIDE DEF t, s
<1>4. j \in 1 .. Len(t)
  BY <1>1 DEF s
<1>5. MarkOK(d, t[j], sends[d], m_protocol[d]) /\ \A i \in 1 .. j - 1 : Before(t[i], t[j])
  BY <1>2, <1>4 DEF TrailOK
<1>6. /\ s[j].packet.src = d /\ s[j].packet.n <= sends[d]
      /\ \A i \in 1 .. j - 1 : s[i].packet.n < s[j].packet.n
  BY <1>1, <1>3, <1>4, <1>5 DEF MarkOK, Before
<1> QED BY <1>6 DEF s

\* Frames keep the order in which Send was called, are never duplicated, and reach
\* only the other device, whatever the queues and the wires hold.
THEOREM PacketsInOrder == Spec => []InOrder
BY JourneyInOrder, LinkInvariant, PTL

\* Compression does not switch back off: after a compressed frame, no frame of the
\* same EtherType leaves the device uncompressed.
THEOREM CompressionNeverStops == Spec => []CompressionSticks
<1>1. TypeOK /\ LinkOK => CompressionSticks
  <2> SUFFICES ASSUME TypeOK, LinkOK, NEW d \in Devices,
                      NEW i \in 1 .. Len(Journey(d)), NEW j \in 1 .. Len(Journey(d)), i < j,
                      Journey(d)[i].packet.ether = Journey(d)[j].packet.ether,
                      Journey(d)[i].packet.ether \notin {0, LZS},
                      Journey(d)[i].body # "plain"
               PROVE  Journey(d)[j].body # "plain"
    BY DEF CompressionSticks
  <2> DEFINE t == Trail(d)  s == Journey(d)
  <2>1. /\ Len(t) = Len(s)
        /\ \A k \in 1 .. Len(s) :
             /\ t[k].packet = s[k].packet
             /\ t[k].packed = (s[k].body # "plain" /\ s[k].packet.ether \notin {0, LZS})
    BY JourneyTrail
  <2>2. TrailOK(d, t, sends[d], m_protocol[d])
    BY DEF LinkOK
  <2>3. /\ i \in 1 .. Len(s) /\ j \in 1 .. Len(s) /\ i \in 1 .. j - 1
        /\ s[i].packet.ether = s[j].packet.ether /\ s[i].packet.ether \notin {0, LZS}
        /\ s[i].body # "plain"
    OBVIOUS
  <2> HIDE DEF t, s
  <2>4. Before(t[i], t[j])
    BY <2>1, <2>2, <2>3 DEF TrailOK
  <2>5. s[j].body # "plain"
    BY <2>1, <2>3, <2>4 DEF Before
  <2> QED BY <2>5 DEF s
<1> QED BY <1>1, LinkInvariant, PTL

\* A packet of a protocol other than the configured one (and other than LZS itself)
\* crosses the link unaltered, whichever ends compress.
THEOREM OthersCrossUnaltered == Spec => []OthersUnaltered
<1>1. LinkOK => OthersUnaltered
  BY DEF LinkOK, FramesOK, DeliveryOK, Configured, OthersUnaltered
<1> QED BY <1>1, LinkInvariant, PTL
=============================================================================
