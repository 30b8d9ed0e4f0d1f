-------------------------------- MODULE Codec --------------------------------
(***************************************************************************)
(* What becomes of the bytes of one packet between two compressing devices: *)
(* the buffers of Send and Receive, Compress and Decompress.               *)
(*                                                                         *)
(* Both functions measure their input with strlen, so a packet is its      *)
(* length and the index of its first zero byte.  zlib is ideal: a complete *)
(* stream inflates to what was deflated, a stream that is cut short to some *)
(* part of it from the start.  Bytes no one has written hold anything.     *)
(***************************************************************************)
EXTENDS Integers

CONSTANTS
  MaxLength,    \* bound: bytes of a packet
  Pad,          \* 8 in the code: the buffer is that much longer than the packet
  MinStream,    \* zlib: bytes of the shortest stream, 9
  Expansion,    \* zlib: bytes by which a stream may exceed its content
  HeaderBytes,  \* zlib: bytes at the start of a stream that are never zero, 2
  Beyond,       \* bound: bytes that strlen may read past the end of a buffer
  U32           \* modulus of uInt

ASSUME CodecAssumption ==
  /\ MaxLength \in Nat /\ Pad \in Nat /\ Beyond \in Nat /\ U32 \in Nat \ {0}
  /\ MinStream \in Nat /\ Expansion \in Nat /\ HeaderBytes \in Nat
  /\ MaxLength + Pad + Beyond < U32    \* sizes are uint32_t

\* zero = length: no byte of the packet is zero.
AllPackets == {p \in [length : 1 .. MaxLength, zero : 0 .. MaxLength] : p.zero <= p.length}

VARIABLES
  packet,     \* the packet given to Send
  stage,      \* "none", "sent" or "received"
  deflated,   \* bytes that Compress deflates
  stream,     \* the stream in the frame: how many bytes, whether that is all of
              \* it, and the index of the first zero byte, in the stream, in what
              \* nobody has written behind it, or past the end of the frame
  available,  \* avail_in of inflate: how much of the frame Decompress gives to it
  inflated    \* of what was deflated, the bytes that Decompress writes

vars == <<packet, stage, deflated, stream, available, inflated>>

Init ==
  /\ packet \in AllPackets
  /\ stage = "none" /\ deflated = 0 /\ available = 0 /\ inflated = 0
  /\ stream = [bytes |-> 0, complete |-> FALSE, zero |-> 0]

Lesser(m, n) == IF m < n THEN m ELSE n

\* The size of the frame without its header, at both ends.
BufferSize == packet.length + Pad

\* strlen of the packet in its buffer: without a zero byte in the packet, one is met
\* in what nobody has written, or past the end of the buffer.
StrLen ==
  IF packet.zero < packet.length THEN {packet.zero} ELSE packet.length .. BufferSize + Beyond

\* Compress: avail_in is strlen + 1 and avail_out the size of the buffer.
AvailIn(len) == len + 1
Compress ==
  \E len \in StrLen :
  \E full \in MinStream .. AvailIn(len) + Expansion :
    LET bytes == Lesser(full, BufferSize) IN
      /\ deflated' = AvailIn(len)
      /\ \E zero \in HeaderBytes .. BufferSize + Beyond :
           stream' = [bytes |-> bytes, complete |-> full <= BufferSize, zero |-> zero]

\* Decompress: avail_in is the size less strlen of the frame, in unsigned arithmetic,
\* and avail_out the size.
InflateIn_Terminator(len) == (BufferSize - len - 1) % U32
InflateIn(len) == (BufferSize - len) % U32
Decompress ==
  /\ available' = InflateIn(stream.zero)
  /\ IF stream.complete /\ stream.bytes <= available'
       THEN inflated' = Lesser(deflated, BufferSize)
       ELSE inflated' \in 0 .. Lesser(deflated, BufferSize)

Send ==
  /\ stage = "none"
  /\ Compress
  /\ stage' = "sent"
  /\ UNCHANGED <<packet, available, inflated>>

Receive ==
  /\ stage = "sent"
  /\ Decompress
  /\ stage' = "received"
  /\ UNCHANGED <<packet, deflated, stream>>

Next == Send \/ Receive

Spec == Init /\ [][Next]_vars

----------------------------------------------------------------------------
(* Properties *)

\* Bytes of the packet that are in what Receive passes up; behind them come
\* bytes that no one has written, up to BufferSize.
Restored == Lesser(inflated, packet.length)

\* inflate needs the whole stream and is given as much less than the frame as the
\* stream has bytes before its first zero: enough if the frame has as much room behind
\* the stream, or if there is no zero in the frame at all, because strlen then exceeds
\* the size and the difference wraps to more than any frame.
StreamHasRoom == stream.zero + stream.bytes <= BufferSize
StreamIsGiven == StreamHasRoom \/ stream.zero > BufferSize

\* "size of input, string + terminator": a packet that is a string, with its only
\* zero byte at the end, comes back whole if its stream is given to inflate; a stream
\* whose first zero comes later than its room allows never is, whatever it holds.
StringRestored ==
  stage = "received" /\ stream.complete =>
    IF StreamIsGiven
      THEN packet.zero = packet.length - 1 => Restored = packet.length
      ELSE available < stream.bytes

\* README.md: zlib's inflate "returns the original data of the packet", at least
\* when its stream has room.
OriginalReturned ==
  stage = "received" /\ stream.complete /\ StreamHasRoom => Restored = packet.length
=============================================================================
