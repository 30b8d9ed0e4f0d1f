---------------------- MODULE MCPointToPointNetDevice ----------------------
(* Instances of PointToPointNetDevice for TLC. *)
EXTENDS PointToPointNetDevice

CONSTANTS a, b      \* the two devices, as model values

BothEnds == {a, b}
OneEnd   == {a}

\* Bounds on the calls of Send: device a fills its queue, b answers.
FourOne  == [d \in {a, b} |-> IF d = a THEN 4 ELSE 1]
SixOne   == [d \in {a, b} |-> IF d = a THEN 6 ELSE 1]
TwoEach  == [d \in {a, b} |-> 2]

IPv4Only  == {IPv4Ether}
IPv4And6  == {IPv4Ether, IPv6Ether}
=============================================================================
