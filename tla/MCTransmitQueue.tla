--------------------------- MODULE MCTransmitQueue ---------------------------
(* Instances of TransmitQueue for TLC. *)
EXTENDS TransmitQueue

\* An MTU of 8, with the real overheads: frames of 5, 10, 13 and 18 bytes.
ShortAndMtu == {3, 8}
PppAndLzs   == {2, 10}

\* In bytes: less than an MTU, less than the longest frame, one of the longest
\* frames but not two, and several.
PacketsAndBytes ==
  [unit : {"packets"}, value : {1, 2}] \union [unit : {"bytes"}, value : {7, 12, 20, 40}]
=============================================================================
