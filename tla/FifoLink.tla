------------------------------ MODULE FifoLink ------------------------------
(***************************************************************************)
(* What a point-to-point link promises its two users, whatever its queues, *)
(* transmitters and compressors do: a packet that was accepted is delivered *)
(* at the other end, once, in the order of acceptance, unless it is lost.  *)
(***************************************************************************)
EXTENDS Naturals, Sequences

CONSTANTS
  Ends,          \* the two ends
  Other(_),      \* the end opposite to an end
  Items,         \* what may be sent
  Lossy          \* may the link lose packets?

VARIABLES
  chan,          \* chan[e]: packets accepted from e, still under way
  delivered      \* delivered[e]: packets delivered at e

linkvars == <<chan, delivered>>

LInit ==
  /\ chan = [e \in Ends |-> <<>>]
  /\ delivered = [e \in Ends |-> <<>>]

Accept(e) ==
  /\ \E p \in Items : chan' = [chan EXCEPT ![e] = Append(@, p)]
  /\ UNCHANGED delivered

Deliver(e) ==
  /\ chan[e] # <<>>
  /\ chan' = [chan EXCEPT ![e] = Tail(@)]
  /\ delivered' = [delivered EXCEPT ![Other(e)] = Append(@, Head(chan[e]))]

Lose(e) ==
  /\ Lossy
  /\ chan[e] # <<>>
  /\ chan' = [chan EXCEPT ![e] = Tail(@)]
  /\ UNCHANGED delivered

LNext == \E e \in Ends : Accept(e) \/ Deliver(e) \/ Lose(e)

LSafeSpec == LInit /\ [][LNext]_linkvars

\* A packet that was accepted does not stay under way for ever.
LSpec ==
  /\ LSafeSpec
  /\ \A e \in Ends : WF_linkvars(Deliver(e) \/ Lose(e))
=============================================================================
