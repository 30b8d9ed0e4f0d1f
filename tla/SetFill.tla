------------------------------- MODULE SetFill -------------------------------
(***************************************************************************)
(* The functions of UdpAppClient that a script calls to choose what is     *)
(* sent: SetDataSize and the three SetFill functions, of which the one for *)
(* a pattern has a loop.  Sizes are uint32_t.                              *)
(*                                                                         *)
(* The k-th byte of the pattern of the n-th call is [call |-> n,           *)
(* byte |-> k]: what a call leaves of an earlier one can be told apart.    *)
(***************************************************************************)
EXTENDS Integers

CONSTANTS
  PatternSizes,  \* values of fillSize
  DataSizes,     \* values of dataSize
  U32,           \* modulus of uint32_t
  MaxCalls       \* bound: calls

ASSUME FillAssumption ==
  /\ U32 \in Nat \ {0} /\ MaxCalls \in Nat
  /\ PatternSizes \subseteq 0 .. U32 - 1 /\ DataSizes \subseteq 0 .. U32 - 1

Unset == [call |-> 0, byte |-> 0]

VARIABLES
  m_data,        \* the buffer, a function on its indices
  m_dataSize, m_size,
  fillSize,      \* argument of the latest SetFill
  filled,        \* the loop's local variable
  pc,            \* "idle", or "loop" inside SetFill
  calls,         \* number of calls so far
  outside        \* has a memcpy of the latest call written outside the buffer?

vars == <<m_data, m_dataSize, m_size, fillSize, filled, pc, calls, outside>>

NoBuffer == [i \in {} |-> Unset]

Init ==
  /\ m_data = NoBuffer /\ m_dataSize = 0 /\ m_size = 0
  /\ fillSize = 0 /\ filled = 0 /\ pc = "idle" /\ calls = 0 /\ outside = FALSE

\* The buffer is made anew unless it has the right size.
Allocated_KeepsLonger(size) ==
  IF size <= m_dataSize THEN m_data ELSE [i \in 0 .. size - 1 |-> Unset]
Allocated(size) ==
  IF size = m_dataSize THEN m_data ELSE [i \in 0 .. size - 1 |-> Unset]

\* memcpy (&buffer[at], fill, n), in the n-th call.
Copied(buffer, at, n, call) ==
  [i \in DOMAIN buffer |->
     IF at <= i /\ i < at + n THEN [call |-> call, byte |-> i - at] ELSE buffer[i]]
Overruns(buffer, at, n) == \E i \in at .. at + n - 1 : i \notin DOMAIN buffer

----------------------------------------------------------------------------

SetDataSize(size) ==
  /\ pc = "idle" /\ calls < MaxCalls
  /\ m_data' = NoBuffer /\ m_dataSize' = 0 /\ m_size' = size
  /\ calls' = calls + 1 /\ outside' = FALSE
  /\ UNCHANGED <<fillSize, filled, pc>>

\* SetFill with one byte: memset.
SetFillByte(size) ==
  /\ pc = "idle" /\ calls < MaxCalls
  /\ m_data' = [i \in DOMAIN Allocated(size) |-> [call |-> calls + 1, byte |-> 0]]
  /\ m_dataSize' = size /\ m_size' = size /\ fillSize' = 1
  /\ calls' = calls + 1 /\ outside' = FALSE
  /\ UNCHANGED <<filled, pc>>

\* SetFill with a pattern that is at least as long as the data; a string is
\* copied like that, with its terminator.
SetFillWhole(pattern, size) ==
  /\ pc = "idle" /\ calls < MaxCalls
  /\ pattern >= size
  /\ m_data' = Copied(Allocated(size), 0, size, calls + 1)
  /\ outside' = Overruns(Allocated(size), 0, size)
  /\ m_dataSize' = size /\ m_size' = size /\ fillSize' = pattern
  /\ calls' = calls + 1
  /\ UNCHANGED <<filled, pc>>

\* SetFill with a shorter pattern, up to its loop ...
SetFillPattern(pattern, size) ==
  /\ pc = "idle" /\ calls < MaxCalls
  /\ pattern < size
  /\ m_data' = Allocated(size)
  /\ m_dataSize' = size /\ fillSize' = pattern
  /\ filled' = 0 /\ pc' = "loop"
  /\ calls' = calls + 1 /\ outside' = FALSE
  /\ UNCHANGED m_size

\* ... one iteration of it, and the last, partial fill.
Filled_Assigned == fillSize
Filled == (filled + fillSize) % U32
MoreToFill_AtFilled == filled < m_dataSize
MoreToFill == Filled < m_dataSize

FillOnce ==
  /\ pc = "loop" /\ MoreToFill
  /\ m_data' = Copied(m_data, filled, fillSize, calls)
  /\ outside' = (outside \/ Overruns(m_data, filled, fillSize))
  /\ filled' = Filled
  /\ UNCHANGED <<m_dataSize, m_size, fillSize, pc, calls>>

FillLast ==
  /\ pc = "loop" /\ ~MoreToFill
  /\ m_data' = Copied(m_data, filled, m_dataSize - filled, calls)
  /\ outside' = (outside \/ Overruns(m_data, filled, m_dataSize - filled))
  /\ m_size' = m_dataSize /\ pc' = "idle"
  /\ UNCHANGED <<m_dataSize, fillSize, filled, calls>>

Next ==
  \/ \E size \in DataSizes :
       \/ SetDataSize(size) \/ SetFillByte(size)
       \/ \E pattern \in PatternSizes :
            SetFillWhole(pattern, size) \/ SetFillPattern(pattern, size)
  \/ FillOnce \/ FillLast

Spec == Init /\ [][Next]_vars

\* The loop is executed.
FairSpec == Spec /\ WF_vars(FillOnce \/ FillLast)

----------------------------------------------------------------------------
(* Properties *)

\* The largest data and pattern for which filled + fillSize does not wrap.
NoWrap == m_dataSize + fillSize <= U32

\* As long as the sizes do not wrap, every memcpy stays inside the buffer.
InsideBuffer == NoWrap => ~outside

\* "contents of the fill buffer, repeated as many times as is required"
\* (udp-app-client.h): what SetFill leaves is the latest pattern, byte by byte,
\* and after that what lies one pattern further to the front.
Repeated ==
  pc = "idle" /\ m_dataSize > 0 /\ NoWrap =>
    /\ DOMAIN m_data = 0 .. m_size - 1
    /\ \A i \in DOMAIN m_data :
         m_data[i] = IF i < fillSize THEN [call |-> calls, byte |-> i]
                                     ELSE m_data[i - fillSize]

\* SetFill returns, unless the pattern is empty or the sizes wrap.
Returns == pc = "loop" /\ fillSize > 0 /\ NoWrap ~> pc = "idle"
=============================================================================
