---------------------------- MODULE MCExperiment ----------------------------
(* Instances of Experiment for TLC. *)
EXTENDS Experiment

NoFill     == {}

\* project1.cc starts its clients at 0, 1 (the one with a route, and another) and
\* 2 seconds: early and late enough to pause while the server measures.  A script
\* may also start one so late that it pauses in the second window alone: the server
\* then reports compression.
AloneProjectOrLate == {{}, {0, 4, 8}, {9}}

BusyHost      == {0, 1}

\* Shorter than the interval between packets, or longer than two of them.
AnyPath       == {1, 7}

\* The client's count; the same for the server, one that never ends, and one that
\* is 0 in a uint16_t.
ClientThree   == {3}
ServerAny     == {1, 3, U16}
=============================================================================
