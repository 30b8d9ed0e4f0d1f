--------------------------- MODULE SetFill_proofs ---------------------------
(***************************************************************************)
(* Proofs about SetFill, for all sizes of patterns and data: as long as    *)
(* the sizes do not wrap, no copy leaves the buffer, the buffer holds the  *)
(* latest pattern, repeated, and the loop moves on through the data, which *)
(* it never does with an empty pattern.                                    *)
(***************************************************************************)
EXTENDS SetFill, TLAPS

USE FillAssumption

\* Arithmetic of uint32_t that does not wrap is arithmetic.
LEMMA NoWrapModulo ==
  ASSUME NEW n \in Nat \ {0}, NEW x \in Nat
  PROVE  x % n \in 0 .. n - 1 /\ (x < n => x % n = x)
BY SMT

\* The first n bytes are the latest pattern, repeated.
Repeats(n) ==
  \A i \in 0 .. n - 1 :
    m_data[i] = IF i < fillSize THEN [call |-> calls, byte |-> i]
                                ELSE m_data[i - fillSize]

\* The fillSize bytes up to n are one pattern.
LastPattern(n) ==
  \A i \in 0 .. fillSize - 1 : m_data[n - fillSize + i] = [call |-> calls, byte |-> i]

TypeOK ==
  /\ m_dataSize \in 0 .. U32 - 1 /\ fillSize \in Nat
  /\ m_size \in Nat /\ filled \in Nat /\ calls \in Nat
  /\ pc \in {"idle", "loop"}
  /\ DOMAIN m_data = 0 .. m_dataSize - 1

\* At the head of the loop.
LoopInv ==
  pc = "loop" =>
    /\ fillSize < m_dataSize
    /\ NoWrap =>
         /\ filled < m_dataSize
         /\ filled = 0 \/ (fillSize <= filled /\ LastPattern(filled))
         /\ Repeats(filled)

\* After the call.
IdleInv ==
  pc = "idle" /\ m_dataSize > 0 => m_size = m_dataSize /\ (NoWrap => Repeats(m_dataSize))

IInv == TypeOK /\ LoopInv /\ IdleInv /\ InsideBuffer

LEMMA NoBufferDomain == DOMAIN NoBuffer = 0 .. 0 - 1
<1>1. DOMAIN NoBuffer = {}
  BY DEF NoBuffer
<1>2. 0 .. 0 - 1 = {}
  OBVIOUS
<1> QED BY <1>1, <1>2

LEMMA InvInit == Init => IInv
BY NoBufferDomain DEF Init, IInv, TypeOK, LoopInv, IdleInv, InsideBuffer

\* Whatever buffer there was, SetFill starts with one of the right size.
LEMMA AllocatedDomain ==
  ASSUME TypeOK, NEW size \in DataSizes
  PROVE  DOMAIN Allocated(size) = 0 .. size - 1
BY DEF TypeOK, Allocated

LEMMA SetDataSizeKeeps ==
  ASSUME IInv, NEW size \in DataSizes, SetDataSize(size)
  PROVE  IInv'
<1>1. TypeOK'
  <2>1. size \in Nat /\ 0 \in 0 .. U32 - 1
    OBVIOUS
  <2>2. /\ m_data' = NoBuffer /\ m_dataSize' = 0 /\ m_size' = size /\ calls' = calls + 1
        /\ ~outside' /\ fillSize' = fillSize /\ filled' = filled /\ pc' = pc
    BY DEF SetDataSize
  <2>3. fillSize \in Nat /\ filled \in Nat /\ calls \in Nat /\ pc \in {"idle", "loop"}
    BY DEF IInv, TypeOK
  <2> QED BY <2>1, <2>2, <2>3, NoBufferDomain DEF TypeOK
<1>2. LoopInv' /\ IdleInv' /\ InsideBuffer'
  BY DEF SetDataSize, LoopInv, IdleInv, InsideBuffer
<1> QED BY <1>1, <1>2 DEF IInv

LEMMA SetFillByteKeeps ==
  ASSUME IInv, NEW size \in DataSizes, SetFillByte(size)
  PROVE  IInv'
<1>1. DOMAIN Allocated(size) = 0 .. size - 1 /\ size \in 0 .. U32 - 1
  BY AllocatedDomain DEF IInv
<1>2. m_data' = [i \in 0 .. size - 1 |-> [call |-> calls + 1, byte |-> 0]]
  BY <1>1 DEF SetFillByte
<1>3. /\ m_dataSize' = size /\ m_size' = size /\ fillSize' = 1 /\ calls' = calls + 1
      /\ ~outside' /\ filled' = filled /\ pc' = "idle" /\ pc = "idle"
  BY DEF SetFillByte
<1>4. TypeOK'
  BY <1>1, <1>2, <1>3 DEF IInv, TypeOK
<1>5. Repeats(m_dataSize)'
  BY <1>1, <1>2, <1>3 DEF Repeats
<1>6. LoopInv' /\ IdleInv' /\ InsideBuffer'
  BY <1>3, <1>5 DEF LoopInv, IdleInv, InsideBuffer
<1> QED BY <1>4, <1>6 DEF IInv

LEMMA SetFillWholeKeeps ==
  ASSUME IInv, NEW size \in DataSizes, NEW pattern \in PatternSizes, SetFillWhole(pattern, size)
  PROVE  IInv'
<1>1. DOMAIN Allocated(size) = 0 .. size - 1 /\ size \in 0 .. U32 - 1 /\ pattern \in Nat
  BY AllocatedDomain DEF IInv
<1>2. /\ DOMAIN m_data' = 0 .. size - 1
      /\ \A i \in 0 .. size - 1 : m_data'[i] = [call |-> calls + 1, byte |-> i]
  BY <1>1 DEF SetFillWhole, Copied
<1>3. /\ m_dataSize' = size /\ m_size' = size /\ fillSize' = pattern /\ calls' = calls + 1
      /\ filled' = filled /\ pc' = "idle" /\ pc = "idle" /\ size <= pattern
  BY DEF SetFillWhole
<1>4. ~outside'
  BY <1>1 DEF SetFillWhole, Overruns
<1>5. TypeOK'
  BY <1>1, <1>2, <1>3, <1>4 DEF IInv, TypeOK
<1>6. Repeats(m_dataSize)'
  BY <1>1, <1>2, <1>3 DEF Repeats
<1>7. LoopInv' /\ IdleInv' /\ InsideBuffer'
  BY <1>3, <1>4, <1>6 DEF LoopInv, IdleInv, InsideBuffer
<1> QED BY <1>5, <1>7 DEF IInv

LEMMA SetFillPatternKeeps ==
  ASSUME IInv, NEW size \in DataSizes, NEW pattern \in PatternSizes, SetFillPattern(pattern, size)
  PROVE  IInv'
<1>1. DOMAIN Allocated(size) = 0 .. size - 1 /\ size \in 0 .. U32 - 1 /\ pattern \in Nat
  BY AllocatedDomain DEF IInv
<1>2. /\ m_data' = Allocated(size) /\ m_dataSize' = size /\ m_size' = m_size
      /\ fillSize' = pattern /\ calls' = calls + 1 /\ filled' = 0 /\ pc' = "loop"
      /\ ~outside' /\ pattern < size
  BY DEF SetFillPattern
<1>3. TypeOK'
  BY <1>1, <1>2 DEF IInv, TypeOK
<1>4. Repeats(filled)'
  BY <1>2 DEF Repeats
<1>5. LoopInv' /\ IdleInv' /\ InsideBuffer'
  BY <1>1, <1>2, <1>4 DEF LoopInv, IdleInv, InsideBuffer
<1> QED BY <1>3, <1>5 DEF IInv

\* The counter of the loop does not wrap.
LEMMA FilledAdds ==
  ASSUME m_dataSize \in Nat, fillSize \in Nat, filled \in Nat, filled < m_dataSize, NoWrap
  PROVE  Filled = filled + fillSize
<1>1. filled + fillSize \in Nat /\ filled + fillSize < U32
  BY DEF NoWrap
<1> QED BY <1>1, NoWrapModulo DEF Filled

LEMMA FillOnceKeeps ==
  ASSUME IInv, FillOnce
  PROVE  IInv'
<1>1. /\ m_dataSize \in Nat /\ fillSize \in Nat /\ filled \in Nat /\ calls \in Nat
      /\ m_dataSize < U32 /\ DOMAIN m_data = 0 .. m_dataSize - 1
  BY DEF IInv, TypeOK
<1>2. /\ pc = "loop" /\ fillSize < m_dataSize /\ Filled < m_dataSize /\ filled' = Filled
      /\ m_dataSize' = m_dataSize /\ m_size' = m_size /\ fillSize' = fillSize /\ pc' = pc
      /\ calls' = calls
  BY DEF FillOnce, MoreToFill, IInv, LoopInv
<1>3. DOMAIN m_data' = 0 .. m_dataSize - 1
  BY <1>1 DEF FillOnce, Copied
<1>4. Filled \in Nat
  BY <1>1, NoWrapModulo DEF Filled
<1>6. TypeOK'
  BY <1>1, <1>2, <1>3, <1>4 DEF IInv, TypeOK
<1>7. ASSUME NoWrap
      PROVE  /\ Filled = filled + fillSize
             /\ LastPattern(filled)' /\ Repeats(filled)' /\ ~outside'
  <2>1. filled < m_dataSize /\ Repeats(filled) /\ ~outside
    BY <1>2, <1>7 DEF IInv, LoopInv, InsideBuffer
  <2>2. filled = 0 \/ (fillSize <= filled /\ LastPattern(filled))
    BY <1>2, <1>7 DEF IInv, LoopInv
  <2>3. Filled = filled + fillSize
    BY <1>1, <1>7, <2>1, FilledAdds
  <2>4. ~outside'
    <3>1. ~Overruns(m_data, filled, fillSize)
      BY <1>1, <1>2, <2>3 DEF Overruns
    <3> QED BY <2>1, <3>1 DEF FillOnce
  <2>5. \A i \in 0 .. m_dataSize - 1 :
          m_data'[i] = IF filled <= i /\ i < filled + fillSize
                         THEN [call |-> calls, byte |-> i - filled] ELSE m_data[i]
    BY <1>1 DEF FillOnce, Copied
  <2>6. ASSUME NEW i \in 0 .. filled - 1 PROVE m_data'[i] = m_data[i]
    <3>1. i \in 0 .. m_dataSize - 1 /\ ~(filled <= i)
      BY <1>1, <2>1
    <3> QED BY <2>5, <3>1
  <2>7. LastPattern(filled)'
    BY <1>1, <1>2, <2>3, <2>5 DEF LastPattern
  <2>8. Repeats(filled)'
    <3> SUFFICES ASSUME NEW i \in 0 .. filled + fillSize - 1
                 PROVE  m_data'[i] = IF i < fillSize THEN [call |-> calls, byte |-> i]
                                                     ELSE m_data'[i - fillSize]
      <4>1. filled' = filled + fillSize /\ fillSize' = fillSize /\ calls' = calls
        BY <1>2, <2>3
      <4>2. Repeats(filled)' <=>
              \A k \in 0 .. filled' - 1 :
                m_data'[k] = IF k < fillSize THEN [call |-> calls, byte |-> k]
                                             ELSE m_data'[k - fillSize]
        BY <4>1, Zenon DEF Repeats
      <4>3. 0 .. filled' - 1 = 0 .. filled + fillSize - 1
        BY <1>1, <4>1
      <4> QED BY <4>2, <4>3, Zenon
    <3>1. CASE i < filled
      <4>1. i \in 0 .. filled - 1 /\ (fillSize <= i => i - fillSize \in 0 .. filled - 1)
        BY <1>1, <3>1
      <4>2. m_data[i] = IF i < fillSize THEN [call |-> calls, byte |-> i]
                                        ELSE m_data[i - fillSize]
        BY <2>1, <4>1 DEF Repeats
      <4>3. m_data'[i] = m_data[i]
        BY <2>6, <4>1
      <4>4. fillSize <= i => m_data'[i - fillSize] = m_data[i - fillSize]
        BY <2>6, <4>1
      <4> QED BY <1>1, <4>2, <4>3, <4>4
    <3>2. CASE filled <= i /\ filled = 0
      BY <1>1, <1>2, <2>3, <2>5, <3>2
    <3>3. CASE filled <= i /\ filled # 0
      <4>1. fillSize <= filled /\ LastPattern(filled)
        BY <2>2, <3>3
      <4>2. m_data'[i] = [call |-> calls, byte |-> i - filled]
        BY <1>1, <1>2, <2>3, <2>5, <3>3
      <4>3. i - fillSize \in 0 .. filled - 1 /\ i - filled \in 0 .. fillSize - 1
        BY <1>1, <3>3, <4>1
      <4>4. m_data'[i - fillSize] = m_data[i - fillSize]
        BY <2>6, <4>3
      <4>5. m_data[filled - fillSize + (i - filled)] = [call |-> calls, byte |-> i - filled]
        BY <4>1, <4>3 DEF LastPattern
      <4>6. filled - fillSize + (i - filled) = i - fillSize
        BY <1>1
      <4> QED BY <1>1, <3>3, <4>1, <4>2, <4>4, <4>5, <4>6
    <3> QED BY <1>1, <3>1, <3>2, <3>3
  <2> QED BY <2>3, <2>4, <2>7, <2>8
<1>8. NoWrap' <=> NoWrap
  BY <1>2 DEF NoWrap
<1>9. LoopInv' /\ IdleInv' /\ InsideBuffer'
  BY <1>1, <1>2, <1>7, <1>8 DEF LoopInv, IdleInv, InsideBuffer
<1> QED BY <1>6, <1>9 DEF IInv

LEMMA FillLastKeeps ==
  ASSUME IInv, FillLast
  PROVE  IInv'
<1>1. /\ m_dataSize \in Nat /\ fillSize \in Nat /\ filled \in Nat /\ calls \in Nat
      /\ m_dataSize < U32 /\ DOMAIN m_data = 0 .. m_dataSize - 1
  BY DEF IInv, TypeOK
<1>2. /\ pc = "loop" /\ fillSize < m_dataSize /\ ~(Filled < m_dataSize) /\ filled' = filled
      /\ m_dataSize' = m_dataSize /\ m_size' = m_dataSize /\ fillSize' = fillSize
      /\ pc' = "idle" /\ calls' = calls
  BY DEF FillLast, MoreToFill, IInv, LoopInv
<1>3. DOMAIN m_data' = 0 .. m_dataSize - 1
  BY <1>1 DEF FillLast, Copied
<1>5. TypeOK'
  BY <1>1, <1>2, <1>3 DEF IInv, TypeOK
<1>6. ASSUME NoWrap
      PROVE  Repeats(m_dataSize)' /\ ~outside'
  <2>1. filled < m_dataSize /\ Repeats(filled) /\ ~outside
    BY <1>2, <1>6 DEF IInv, LoopInv, InsideBuffer
  <2>2. filled = 0 \/ (fillSize <= filled /\ LastPattern(filled))
    BY <1>2, <1>6 DEF IInv, LoopInv
  <2>3. m_dataSize <= filled + fillSize
    BY <1>1, <1>2, <1>6, <2>1, FilledAdds
  <2>4. ~outside'
    <3>1. ~Overruns(m_data, filled, m_dataSize - filled)
      BY <1>1, <2>1 DEF Overruns
    <3> QED BY <2>1, <3>1 DEF FillLast
  <2>5. \A i \in 0 .. m_dataSize - 1 :
          m_data'[i] = IF filled <= i THEN [call |-> calls, byte |-> i - filled] ELSE m_data[i]
    BY <1>1, <2>1 DEF FillLast, Copied
  <2>6. ASSUME NEW i \in 0 .. filled - 1 PROVE m_data'[i] = m_data[i]
    <3>1. i \in 0 .. m_dataSize - 1 /\ ~(filled <= i)
      BY <1>1, <2>1
    <3> QED BY <2>5, <3>1
  <2>7. Repeats(m_dataSize)'
    <3> SUFFICES ASSUME NEW i \in 0 .. m_dataSize - 1
                 PROVE  m_data'[i] = IF i < fillSize THEN [call |-> calls, byte |-> i]
                                                     ELSE m_data'[i - fillSize]
      BY <1>2 DEF Repeats
    <3>1. CASE i < filled
      <4>1. i \in 0 .. filled - 1 /\ (fillSize <= i => i - fillSize \in 0 .. filled - 1)
        BY <1>1, <3>1
      <4>2. m_data[i] = IF i < fillSize THEN [call |-> calls, byte |-> i]
                                        ELSE m_data[i - fillSize]
        BY <2>1, <4>1 DEF Repeats
      <4>3. m_data'[i] = m_data[i]
        BY <2>6, <4>1
      <4>4. fillSize <= i => m_data'[i - fillSize] = m_data[i - fillSize]
        BY <2>6, <4>1
      <4> QED BY <1>1, <4>2, <4>3, <4>4
    <3>2. CASE filled <= i /\ filled = 0
      BY <1>1, <1>2, <2>3, <2>5, <3>2
    <3>3. CASE filled <= i /\ filled # 0
      <4>1. fillSize <= filled /\ LastPattern(filled)
        BY <2>2, <3>3
      <4>2. m_data'[i] = [call |-> calls, byte |-> i - filled]
        BY <2>5, <3>3
      <4>3. i - fillSize \in 0 .. filled - 1 /\ i - filled \in 0 .. fillSize - 1
        BY <1>1, <2>3, <3>3, <4>1
      <4>4. m_data'[i - fillSize] = m_data[i - fillSize]
        BY <2>6, <4>3
      <4>5. m_data[filled - fillSize + (i - filled)] = [call |-> calls, byte |-> i - filled]
        BY <4>1, <4>3 DEF LastPattern
      <4>6. filled - fillSize + (i - filled) = i - fillSize
        BY <1>1
      <4> QED BY <1>1, <3>3, <4>1, <4>2, <4>4, <4>5, <4>6
    <3> QED BY <1>1, <3>1, <3>2, <3>3
  <2> QED BY <2>4, <2>7
<1>7. NoWrap' <=> NoWrap
  BY <1>2 DEF NoWrap
<1>8. LoopInv' /\ IdleInv' /\ InsideBuffer'
  BY <1>1, <1>2, <1>6, <1>7 DEF LoopInv, IdleInv, InsideBuffer
<1> QED BY <1>5, <1>8 DEF IInv

LEMMA Invariant == Spec => []IInv
<1>1. IInv /\ UNCHANGED vars => IInv'
  BY DEF vars, IInv, TypeOK, LoopInv, IdleInv, InsideBuffer, NoWrap, Repeats, LastPattern
<1>2. IInv /\ [Next]_vars => IInv'
  BY <1>1, SetDataSizeKeeps, SetFillByteKeeps, SetFillWholeKeeps, SetFillPatternKeeps,
     FillOnceKeeps, FillLastKeeps DEF Next
<1> QED BY InvInit, <1>2, PTL DEF Spec

\* Unless the sizes wrap, no memcpy of SetFill leaves the buffer.
THEOREM CopiesInsideBuffer == Spec => []InsideBuffer
<1>1. IInv => InsideBuffer
  BY DEF IInv
<1> QED BY Invariant, <1>1, PTL

\* Unless the sizes wrap, the buffer then holds the latest pattern, repeated.
THEOREM PatternRepeated == Spec => []Repeated
<1>1. IInv => Repeated
  BY DEF IInv, TypeOK, IdleInv, Repeats, Repeated
<1> QED BY Invariant, <1>1, PTL

\* The loop's local variable starts at 0 and, with an empty pattern, stays there.
EmptyAtZero == pc = "loop" /\ fillSize = 0 => filled = 0

LEMMA EmptyInvariant == Spec => []EmptyAtZero
<1>1. Init => EmptyAtZero
  BY DEF Init, EmptyAtZero
<1>2. IInv /\ EmptyAtZero /\ [Next]_vars => EmptyAtZero'
  <2> SUFFICES ASSUME IInv, EmptyAtZero, [Next]_vars PROVE EmptyAtZero'
    OBVIOUS
  <2>1. CASE UNCHANGED vars
    BY <2>1 DEF vars, EmptyAtZero
  <2>2. ASSUME NEW size \in DataSizes, SetDataSize(size) \/ SetFillByte(size)
        PROVE  EmptyAtZero'
    BY <2>2 DEF SetDataSize, SetFillByte, EmptyAtZero
  <2>3. ASSUME NEW size \in DataSizes, NEW pattern \in PatternSizes,
               SetFillWhole(pattern, size) \/ SetFillPattern(pattern, size)
        PROVE  EmptyAtZero'
    BY <2>3 DEF SetFillWhole, SetFillPattern, EmptyAtZero
  <2>4. CASE FillOnce
    <3>1. pc = "loop" /\ fillSize' = fillSize /\ filled' = (filled + fillSize) % U32
      BY <2>4 DEF FillOnce, Filled
    <3>2. CASE fillSize = 0
      BY <3>1, <3>2, NoWrapModulo DEF EmptyAtZero
    <3> QED BY <3>1, <3>2 DEF EmptyAtZero
  <2>5. CASE FillLast
    BY <2>5 DEF FillLast, EmptyAtZero
  <2> QED BY <2>1, <2>2, <2>3, <2>4, <2>5 DEF Next
<1> QED BY <1>1, <1>2, Invariant, PTL DEF Spec

\* Why the loop of SetFill ends: unless the sizes wrap, each iteration takes the
\* counter one whole pattern on and leaves it inside the data, so that a pattern
\* that is not empty has at most m_dataSize iterations.
THEOREM LoopAdvances ==
  Spec => [][FillOnce /\ NoWrap => filled' = filled + fillSize /\ filled' < m_dataSize]_vars
<1> DEFINE Advances == FillOnce /\ NoWrap => filled' = filled + fillSize /\ filled' < m_dataSize
<1>1. IInv => Advances
  <2> SUFFICES ASSUME IInv, FillOnce, NoWrap
               PROVE  filled' = filled + fillSize /\ filled' < m_dataSize
    OBVIOUS
  <2>1. m_dataSize \in Nat /\ fillSize \in Nat /\ filled \in Nat /\ filled < m_dataSize
    BY DEF IInv, TypeOK, LoopInv, FillOnce
  <2>2. Filled = filled + fillSize
    BY <2>1, FilledAdds
  <2> QED BY <2>2 DEF FillOnce, MoreToFill
<1> HIDE DEF Advances
<1>2. Spec => [][Advances]_vars
  BY <1>1, Invariant, PTL
<1> QED BY <1>2 DEF Advances

\* Why an empty pattern is excluded: the call that enters the loop with one never
\* leaves it, and no other function of the client can run.
THEOREM EmptyPatternNeverReturns ==
  Spec => [][pc = "loop" /\ fillSize = 0 => FillOnce]_vars
<1> DEFINE Stuck == pc = "loop" /\ fillSize = 0 => FillOnce
<1>1. IInv /\ EmptyAtZero /\ [Next]_vars => [Stuck]_vars
  <2> SUFFICES ASSUME IInv, EmptyAtZero, Next, pc = "loop", fillSize = 0 PROVE FillOnce
    OBVIOUS
  <2>1. filled = 0 /\ 0 < m_dataSize
    BY DEF EmptyAtZero, IInv, TypeOK, LoopInv
  <2>2. MoreToFill
    <3>1. Filled = 0 % U32
      BY <2>1 DEF Filled
    <3> QED BY <2>1, <3>1, NoWrapModulo DEF MoreToFill
  <2>3. ~FillLast
    BY <2>2 DEF FillLast
  <2> QED BY <2>3 DEF Next, SetDataSize, SetFillByte, SetFillWhole, SetFillPattern
<1> HIDE DEF Stuck
<1>2. Spec => [][Stuck]_vars
  BY <1>1, Invariant, EmptyInvariant, PTL DEF Spec
<1> QED BY <1>2 DEF Stuck
=============================================================================
