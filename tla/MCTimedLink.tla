----------------------------- MODULE MCTimedLink -----------------------------
(* Instances of TimedLink for TLC. *)
EXTENDS TimedLink

CONSTANTS a, b      \* the two devices, as model values

NoDevice  == {}
FiveNone == [d \in {a, b} |-> IF d = a THEN 5 ELSE 0]
IPv4Only  == {IPv4Ether}

\* Two frames may be due at the same time (0), and a short frame may follow a
\* long one (0 or 1 after 2).
FrameTimes == {0, 2}
FrameGaps  == {0, 1}
=============================================================================
