--------------------------- MODULE MCUdpAppClient ---------------------------
(* Instances of UdpAppClient for TLC. *)
EXTENDS UdpAppClient

\* The extremes, both sides of the number of rows and of half of U32, and one
\* whose double wraps to more than a packet.
Boundaries == {0, 1, Rows - 1, Rows, U32 \div 2 - 1, U32 \div 2, U32 - 6,
                U32 - 2, U32 - 1}
OneRowLess == {Rows - 1}
AllRows    == {Rows}

NoFill     == {}
\* Less than a row, a row, and more than a row.
AnyFill    == {RowBytes - 1, RowBytes, RowBytes + 1}
=============================================================================
