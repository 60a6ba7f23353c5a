------------------------- MODULE UartCommandProofs -------------------------
(***************************************************************************)
(* Proofs about UartCommand, for any buffer sizes and any bytes.           *)
(***************************************************************************)
EXTENDS UartCommandProps, SequenceTheorems, TLAPS

-----------------------------------------------------------------------------
\* The end of a sequence that grows: its last bytes and the new one.
LEMMA LastGrows ==
    ASSUME NEW S, NEW s \in Seq(S), NEW c \in S, NEW n \in 0 .. Len(s)
    PROVE  LastBytes(Append(s, c), n + 1) = Append(LastBytes(s, n), c)
<1> DEFINE m == Len(s) - n + 1
           t == Append(s, c)
           u == SubSeq(s, m, Len(s))
           w == SubSeq(t, m, Len(s) + 1)
<1>1. /\ t \in Seq(S) /\ Len(t) = Len(s) + 1
      /\ \A i \in 1 .. Len(s) : t[i] = s[i]
      /\ t[Len(s) + 1] = c
  BY AppendProperties
<1>2. Len(s) \in Nat /\ m \in 1 .. Len(s) + 1
  BY LenProperties
<1>3. \A i \in m .. Len(s) : s[i] \in S
  BY <1>2, ElementOfSeq
<1>4. /\ u \in Seq(S) /\ Len(u) = n
      /\ \A i \in 1 .. n : u[i] = s[m + i - 1]
  <2>1. /\ u \in Seq(S) /\ Len(u) = IF m <= Len(s) THEN Len(s) - m + 1 ELSE 0
        /\ \A i \in 1 .. Len(s) - m + 1 : u[i] = s[m + i - 1]
    BY <1>2, <1>3, SubSeqProperties
  <2>2. Len(s) - m + 1 = n /\ (m > Len(s) => n = 0)
    BY <1>2
  <2> HIDE DEF m, u
  <2> QED
    BY <2>1, <2>2, <1>2
<1>5. /\ w \in Seq(S) /\ Len(w) = n + 1
      /\ \A i \in 1 .. n + 1 : w[i] = t[m + i - 1]
  <2>1. \A i \in m .. Len(s) + 1 : t[i] \in S
    BY <1>1, <1>2, ElementOfSeq
  <2>2. /\ w \in Seq(S)
        /\ Len(w) = IF m <= Len(s) + 1 THEN Len(s) + 1 - m + 1 ELSE 0
        /\ \A i \in 1 .. Len(s) + 1 - m + 1 : w[i] = t[m + i - 1]
    BY <1>2, <2>1, SubSeqProperties
  <2>3. Len(s) + 1 - m + 1 = n + 1 /\ m <= Len(s) + 1
    BY <1>2
  <2> HIDE DEF m, t, w
  <2> QED
    BY <2>2, <2>3
<1>6. /\ Append(u, c) \in Seq(S) /\ Len(Append(u, c)) = n + 1
      /\ \A i \in 1 .. n : Append(u, c)[i] = u[i]
      /\ Append(u, c)[n + 1] = c
  BY <1>4, AppendProperties
<1>7. ASSUME NEW i \in 1 .. n + 1
      PROVE  w[i] = Append(u, c)[i]
  <2>1. CASE i = n + 1
    BY <2>1, <1>1, <1>2, <1>5, <1>6
  <2>2. CASE i \in 1 .. n
    <3>1. m + i - 1 \in 1 .. Len(s)
      BY <1>2, <2>2
    <3> QED
      BY <3>1, <2>2, <1>1, <1>4, <1>5, <1>6
  <2> QED
    BY <2>1, <2>2
<1>8. w = Append(u, c)
  <2> HIDE DEF w, u
  <2> QED
    BY <1>5, <1>6, <1>7, SeqEqual
<1>9. LastBytes(t, n + 1) = w /\ LastBytes(s, n) = u
  <2>1. Len(t) - (n + 1) + 1 = m
    BY <1>1, <1>2
  <2> QED
    BY <2>1, <1>1 DEF LastBytes
<1> QED
  BY <1>8, <1>9

\* No bytes of the end are no bytes.
LEMMA LastOfNone ==
    ASSUME NEW S, NEW s \in Seq(S)
    PROVE  LastBytes(s, 0) = <<>>
<1>1. Len(s) \in Nat
  BY LenProperties
<1> QED
  BY <1>1, SubSeqEmpty DEF LastBytes

-----------------------------------------------------------------------------
\* What Read takes and what it leaves.
LEMMA ReadMoves ==
    ASSUME TypeOK, Read
    PROVE  /\ fifo' \in Seq(Bytes) /\ Len(fifo') <= Len(fifo)
           /\ rx' \in Seq(Bytes) /\ Len(rx') <= RxSize
           /\ pc' \in {"take", "read"}
           /\ pc' = "take" /\ ~cut' => fifo' = <<>> /\ armed'
<1> DEFINE n == Least(Room, Len(fifo))
           taken == SubSeq(fifo, 1, n)
           left == SubSeq(fifo, n + 1, Len(fifo))
<1>1. /\ fifo \in Seq(Bytes) /\ Len(fifo) \in Nat
      /\ rx \in Seq(Bytes) /\ Len(rx) \in Nat /\ Len(rx) <= RxSize
      /\ RxSize \in Nat
  BY UartCommandAssumption, LenProperties DEF TypeOK
<1>2. /\ n \in 0 .. Len(fifo) /\ n <= RxSize - Len(rx)
      /\ Room \in Nat
      /\ n = 0 => Room = 0 \/ Len(fifo) = 0
  BY <1>1 DEF Least, Room
<1>3. /\ rx' = rx \o taken /\ fifo' = left
      /\ armed' = (armed \/ n < Room)
      /\ cut' = (Room = 0)
      /\ pc' = IF n = 0 THEN "take" ELSE "read"
  BY DEF Read
<1> HIDE DEF n
<1>4. taken \in Seq(Bytes) /\ Len(taken) = n
  <2>1. \A i \in 1 .. n : fifo[i] \in Bytes
    BY <1>1, <1>2, ElementOfSeq
  <2>2. /\ taken \in Seq(Bytes)
        /\ Len(taken) = IF 1 <= n THEN n - 1 + 1 ELSE 0
    BY <1>2, <2>1, SubSeqProperties
  <2> QED
    BY <2>2, <1>2
<1>5. left \in Seq(Bytes) /\ Len(left) = Len(fifo) - n
  <2>1. n + 1 \in 1 .. Len(fifo) + 1
    BY <1>1, <1>2
  <2>2. \A i \in n + 1 .. Len(fifo) : fifo[i] \in Bytes
    BY <1>1, <1>2, ElementOfSeq
  <2>3. /\ left \in Seq(Bytes)
        /\ Len(left) = IF n + 1 <= Len(fifo) THEN Len(fifo) - (n + 1) + 1 ELSE 0
    BY <1>1, <2>1, <2>2, SubSeqProperties
  <2> HIDE DEF left
  <2> QED
    BY <2>3, <1>1, <1>2
<1> HIDE DEF taken, left
<1>6. rx \o taken \in Seq(Bytes) /\ Len(rx \o taken) = Len(rx) + n
  BY <1>1, <1>4, ConcatProperties
<1>7. Len(left) = 0 => left = <<>>
  BY <1>5, EmptySeq
<1>8. fifo' \in Seq(Bytes) /\ Len(fifo') <= Len(fifo)
  BY <1>1, <1>2, <1>3, <1>5
<1>9. rx' \in Seq(Bytes) /\ Len(rx') <= RxSize
  BY <1>1, <1>2, <1>3, <1>6
<1>10. pc' = "take" /\ ~cut' => fifo' = <<>> /\ armed'
  <2> SUFFICES ASSUME pc' = "take", ~cut'
               PROVE  fifo' = <<>> /\ armed'
    OBVIOUS
  <2>1. n = 0 /\ Room # 0
    BY <1>3
  <2>2. Len(left) = 0 /\ n < Room
    BY <2>1, <1>1, <1>2, <1>5
  <2> QED
    BY <2>2, <1>3, <1>7
<1> QED
  BY <1>3, <1>8, <1>9, <1>10

-----------------------------------------------------------------------------
\* The empty buffers.
LEMMA NoBytes ==
    /\ <<>> \in Seq(Letters) /\ <<>> \in Seq(Bytes)
    /\ <<>> \in Seq(Seq(Bytes))
    /\ Len(<<>>) = 0
  BY EmptySeq

LEMMA TypeInit == Init => TypeOK
<1> SUFFICES ASSUME Init PROVE TypeOK
  OBVIOUS
<1>1. /\ 0 <= FifoSize /\ 0 <= RxSize /\ 0 <= CmdSize - 1
  BY UartCommandAssumption
<1> HIDE DEF Bytes
<1> QED
  BY <1>1, NoBytes DEF Init, TypeOK

\* TypeOK is inductive: it holds at first, and every step keeps it.
LEMMA TypeStep ==
    ASSUME TypeOK, [Next]_vars
    PROVE  TypeOK'
<1> USE UartCommandAssumption DEF TypeOK
<1>0. 0 <= FifoSize /\ 0 <= RxSize /\ 0 <= CmdSize - 1
  OBVIOUS
<1>1. ASSUME NEW c \in Bytes, Receive(c)
      PROVE  TypeOK'
  <2>1. Len(fifo) \in Nat /\ FifoSize \in Nat /\ received \in Nat
    BY LenProperties
  <2>2. fifo' \in Seq(Bytes) /\ Len(fifo') <= FifoSize
    <3>1. /\ Append(fifo, c) \in Seq(Bytes)
          /\ Len(Append(fifo, c)) = Len(fifo) + 1
      BY <1>1, AppendProperties
    <3>2. CASE Len(fifo) < FifoSize
      <4>1. fifo' = Append(fifo, c)
        BY <1>1, <3>2 DEF Receive
      <4>2. Len(fifo) + 1 <= FifoSize
        BY <2>1, <3>2
      <4> QED
        BY <3>1, <4>1, <4>2
    <3>3. CASE ~(Len(fifo) < FifoSize)
      BY <1>1, <3>3 DEF Receive, driverVars
    <3> QED
      BY <3>2, <3>3
  <2>3. armed' \in BOOLEAN /\ signal' \in BOOLEAN
    BY <1>1 DEF Receive, driverVars
  <2>4. received' \in Nat /\ UNCHANGED <<pc, rx, buf, executed, line, cut>>
    BY <1>1, <2>1 DEF Receive, logicVars
  <2> QED
    BY <2>2, <2>3, <2>4
<1>2. CASE Reset
  BY <1>0, <1>2, NoBytes DEF Reset
<1>3. CASE Wake
  BY <1>0, <1>3, NoBytes DEF Wake, driverVars, logicVars
<1>4. CASE Read
  <2>1. armed' \in BOOLEAN /\ cut' \in BOOLEAN
    BY <1>4 DEF Read
  <2>2. UNCHANGED <<signal, buf, executed, line, received>>
    BY <1>4 DEF Read, logicVars
  <2>3. fifo \in Seq(Bytes) => Len(fifo) \in Nat
    BY LenProperties
  <2>4. fifo' \in Seq(Bytes) => Len(fifo') \in Nat
    BY LenProperties
  <2>5. /\ fifo' \in Seq(Bytes) /\ Len(fifo') <= Len(fifo)
        /\ rx' \in Seq(Bytes) /\ Len(rx') <= RxSize
        /\ pc' \in {"take", "read"}
    <3> HIDE DEF TypeOK
    <3> QED
      BY <1>4, ReadMoves
  <2> QED
    BY <1>4, <2>1, <2>2, <2>3, <2>4, <2>5
<1>5. CASE ReadFails
  BY <1>0, <1>5, NoBytes DEF ReadFails, driverVars, logicVars
<1>6. CASE Take
  <2> DEFINE c == Head(rx)
             more == Append(buf, c)
  <2>1. c \in Bytes /\ rx' \in Seq(Bytes) /\ Len(rx') <= RxSize
    BY <1>6, HeadTailProperties, LenProperties DEF Take
  <2>2. buf \in Seq(Bytes) /\ more \in Seq(Bytes)
    BY <2>1, AppendProperties DEF Bytes
  <2>3. c # Bang => c \in Letters
    BY <2>1 DEF Bytes
  <2>4. line' \in Seq(Letters)
    BY <1>6, <2>3, AppendProperties DEF Take
  <2>5. executed' \in Seq(Seq(Bytes))
    BY <1>6, <2>2, AppendProperties DEF Take
  <2>6. buf' \in Seq(Letters) /\ Len(buf') <= CmdSize - 1
    <3>1. CASE Fits /\ c # Bang
      <4>1. buf' = more
        BY <1>6, <3>1 DEF Take
      <4>2. more \in Seq(Letters) /\ Len(more) = Len(buf) + 1
        BY <2>3, <3>1, AppendProperties
      <4>3. Len(buf) \in Nat
        BY LenProperties
      <4> QED
        BY <3>1, <4>1, <4>2, <4>3 DEF Fits
    <3>2. CASE ~(Fits /\ c # Bang)
      BY <1>6, <3>2 DEF Take
    <3> QED
      BY <3>1, <3>2
  <2>7. UNCHANGED <<fifo, armed, signal, pc, cut, received>>
    BY <1>6 DEF Take, driverVars
  <2> QED
    BY <2>1, <2>4, <2>5, <2>6, <2>7
<1>7. CASE Finish
  BY <1>7 DEF Finish, driverVars, logicVars
<1>8. CASE UNCHANGED vars
  BY <1>8 DEF vars, driverVars, logicVars
<1> QED
  BY <1>1, <1>2, <1>3, <1>4, <1>5, <1>6, <1>7, <1>8 DEF Next, Handler

\* The buffers never hold more than their sizes, and g_cmd_buffer keeps room
\* for the terminator and the byte that ends the string.
THEOREM TypeCorrect == Spec => []TypeOK
  BY TypeInit, TypeStep, PTL DEF Spec

-----------------------------------------------------------------------------
\* The step that takes a byte: what is executed and what stays in the buffer,
\* for a buffer that held the end of the line named by Framing.
LEMMA TakeFrames ==
    ASSUME TypeOK, Framing, Take
    PROVE  /\ Framing'
           /\ Head(rx) = Bang =>
                LET whole == Append(line, Bang)
                IN  \E q \in 0 .. Len(whole), k \in 0 .. CmdSize - 1 :
                       /\ Len(whole) = q * CmdSize + k
                       /\ executed' = IF k = 0 THEN executed
                                      ELSE Append(executed, LastBytes(whole, k))
           /\ Head(rx) # Bang => executed' = executed
<1> DEFINE c == Head(rx)
           b == Len(buf)
           l == Len(line)
           grown == Append(line, c)
<1>1. /\ buf \in Seq(Bytes) /\ line \in Seq(Bytes) /\ c \in Bytes
      /\ b \in Nat /\ l \in Nat /\ b <= CmdSize - 1
      /\ CmdSize \in Nat \ {0, 1}
  BY UartCommandAssumption, LenProperties, HeadTailProperties
  DEF TypeOK, Take, Bytes
<1>2. PICK q \in 0 .. l : l = q * CmdSize + b
  BY DEF Framing
<1>3. buf = LastBytes(line, b)
  BY DEF Framing
<1>4. /\ line' = IF c = Bang THEN <<>> ELSE grown
      /\ buf' = IF Fits /\ c # Bang THEN Append(buf, c) ELSE <<>>
      /\ executed' = IF Fits /\ c = Bang THEN Append(executed, Append(buf, c))
                                         ELSE executed
  BY DEF Take
<1>5. /\ grown \in Seq(Bytes) /\ Len(grown) = l + 1
      /\ Len(Append(buf, c)) = b + 1
  BY <1>1, AppendProperties
<1>6. b \in 0 .. l
  <2>1. q * CmdSize \in Nat
    BY <1>1, <1>2
  <2> HIDE DEF b, l
  <2> QED
    BY <2>1, <1>1, <1>2
<1>7. LastBytes(grown, b + 1) = Append(buf, c)
  BY <1>1, <1>3, <1>6, LastGrows
<1>8. LastBytes(grown, 0) = <<>> /\ LastBytes(<<>>, 0) = <<>>
  BY <1>5, EmptySeq, LastOfNone
<1>9. ~Fits => b + 1 = CmdSize
  BY <1>1 DEF Fits
<1>10. (q + 1) * CmdSize = q * CmdSize + CmdSize
  BY <1>1, <1>2
<1>11. Len(<<>>) = 0
  BY EmptySeq
<1>12. ASSUME Fits
       PROVE  b + 1 \in 1 .. CmdSize - 1
  BY <1>12, <1>1 DEF Fits
<1> DEFINE p == q * CmdSize
<1>13. p \in Nat /\ l = p + b
  BY <1>1, <1>2
<1> HIDE DEF b, c, l, grown
<1>14. Framing'
  <2>1. CASE c = Bang
    <3>1. line' = <<>> /\ buf' = <<>>
      BY <2>1, <1>4
    <3>2. 0 \in 0 .. Len(line') /\ Len(line') = 0 * CmdSize + Len(buf')
      BY <3>1, <1>1, <1>11
    <3> QED
      BY <3>1, <3>2, <1>1, <1>8, <1>11 DEF Framing
  <2>2. CASE c # Bang /\ Fits
    <3>1. line' = grown /\ buf' = Append(buf, c)
      BY <2>2, <1>4
    <3>2. q \in 0 .. Len(line') /\ Len(line') = q * CmdSize + Len(buf')
      BY <3>1, <1>1, <1>2, <1>5, <1>13
    <3>3. Len(buf') < CmdSize /\ buf' = LastBytes(line', Len(buf'))
      BY <2>2, <3>1, <1>1, <1>5, <1>7, <1>12
    <3> QED
      BY <3>2, <3>3 DEF Framing
  <2>3. CASE c # Bang /\ ~Fits
    <3>1. line' = grown /\ buf' = <<>>
      BY <2>3, <1>4
    <3>2. /\ q + 1 \in 0 .. Len(line')
          /\ Len(line') = (q + 1) * CmdSize + Len(buf')
      BY <2>3, <3>1, <1>1, <1>2, <1>5, <1>9, <1>10, <1>11, <1>13
    <3> QED
      BY <3>1, <3>2, <1>1, <1>8, <1>11 DEF Framing
  <2> QED
    BY <2>1, <2>2, <2>3
<1>15. ASSUME c = Bang
       PROVE  \E r \in 0 .. Len(grown), k \in 0 .. CmdSize - 1 :
                 /\ Len(grown) = r * CmdSize + k
                 /\ executed' = IF k = 0 THEN executed
                                ELSE Append(executed, LastBytes(grown, k))
  <2>1. CASE Fits
    <3>1. q \in 0 .. Len(grown) /\ b + 1 \in 0 .. CmdSize - 1 /\ b + 1 # 0
      BY <2>1, <1>1, <1>2, <1>5, <1>12
    <3>2. Len(grown) = q * CmdSize + (b + 1)
      BY <1>1, <1>5, <1>13
    <3>3. executed' = Append(executed, LastBytes(grown, b + 1))
      BY <2>1, <1>15, <1>4, <1>7
    <3> HIDE DEF p
    <3> QED
      BY <3>1, <3>2, <3>3
  <2>2. CASE ~Fits
    <3>1. q + 1 \in 0 .. Len(grown) /\ 0 \in 0 .. CmdSize - 1
      BY <2>2, <1>1, <1>2, <1>5
    <3>2. Len(grown) = (q + 1) * CmdSize + 0
      BY <2>2, <1>1, <1>5, <1>9, <1>10, <1>13
    <3>3. executed' = executed
      BY <2>2, <1>4
    <3> QED
      BY <3>1, <3>2, <3>3
  <2> QED
    BY <2>1, <2>2
<1> QED
  BY <1>4, <1>14, <1>15 DEF c, grown

LEMMA FramingStep ==
    ASSUME TypeOK, Framing, [Next]_vars
    PROVE  Framing'
<1>1. CASE UNCHANGED <<buf, line>>
  BY <1>1 DEF Framing
<1>2. CASE Reset
  <2>1. buf' = <<>> /\ line' = <<>>
    BY <1>2 DEF Reset
  <2>2. LastBytes(<<>>, 0) = <<>> /\ Len(<<>>) = 0
    BY EmptySeq, LastOfNone
  <2>3. 0 \in 0 .. 0 /\ 0 = 0 * CmdSize + 0 /\ 0 < CmdSize
    BY UartCommandAssumption
  <2> QED
    BY <2>1, <2>2, <2>3 DEF Framing
<1>3. CASE Take
  BY <1>3, TakeFrames
<1> QED
  BY <1>1, <1>2, <1>3
  DEF Next, Handler, Receive, Wake, Read, ReadFails, Finish, vars, logicVars

LEMMA FramingInit == Init => Framing
<1>1. LastBytes(<<>>, 0) = <<>> /\ Len(<<>>) = 0
  BY EmptySeq, LastOfNone
<1>2. 0 \in 0 .. 0 /\ 0 = 0 * CmdSize + 0 /\ 0 < CmdSize
  BY UartCommandAssumption
<1> QED
  BY <1>1, <1>2 DEF Init, Framing

\* g_cmd_buffer holds the end of the line being received, at any sizes of the
\* buffers and however the bytes are cut up by the reads.
THEOREM FramingHolds == Spec => []Framing
  BY TypeInit, FramingInit, TypeStep, FramingStep, PTL DEF Spec

\* However the bytes were cut up on their way, each line leads to exactly the
\* command that OneCommandPerLine names, and nothing else is executed.
THEOREM OneCommand == Spec => OneCommandPerLine
<1> DEFINE Promised ==
             IF Terminates
               THEN LET whole == Append(line, Bang)
                    IN  \E q \in 0 .. Len(whole), k \in 0 .. CmdSize - 1 :
                           /\ Len(whole) = q * CmdSize + k
                           /\ executed' = IF k = 0 THEN executed
                                          ELSE Append(executed, LastBytes(whole, k))
               ELSE executed' = executed
<1>1. ASSUME TypeOK, Framing, [Next]_vars
      PROVE  [Promised]_vars
  <2>1. CASE Take
    <3>1. CASE Head(rx) = Bang
      <4>1. Terminates
        BY <2>1, <3>1 DEF Take, Terminates
      <4> QED
        BY <1>1, <2>1, <3>1, <4>1, TakeFrames
    <3>2. CASE Head(rx) # Bang
      <4>1. ~Terminates
        BY <3>2 DEF Terminates
      <4> QED
        BY <1>1, <2>1, <3>2, <4>1, TakeFrames
    <3> QED
      BY <3>1, <3>2
  <2>2. CASE UNCHANGED vars
    BY <2>2
  <2>3. CASE ~Take /\ ~UNCHANGED vars
    <3>1. executed' = executed
      BY <1>1, <2>3
      DEF Next, Handler, Receive, Reset, Wake, Read, ReadFails, Finish, logicVars
    <3>2. ~Terminates
      <4> SUFFICES ASSUME Terminates PROVE FALSE
        OBVIOUS
      <4>1. pc = "take" /\ rx # <<>> /\ pc' = "take" /\ rx' = Tail(rx)
        BY DEF Terminates
      <4>2. Len(rx) \in Nat \ {0} /\ Len(Tail(rx)) = Len(rx) - 1
        BY <1>1, <4>1, EmptySeq, HeadTailProperties DEF TypeOK
      <4>3. rx' # rx
        <5> SUFFICES ASSUME rx' = rx PROVE FALSE
          OBVIOUS
        <5>1. Tail(rx) = rx
          BY <4>1
        <5>2. Len(Tail(rx)) = Len(rx)
          BY ONLY <5>1
        <5> QED
          BY ONLY <4>2, <5>2
      <4> QED
        BY <1>1, <2>3, <4>1, <4>3
        DEF Next, Handler, Receive, Reset, Wake, Read, ReadFails, Finish
    <3> QED
      BY <3>1, <3>2
  <2> QED
    BY <2>1, <2>2, <2>3
<1>2. Init => TypeOK /\ Framing
  BY TypeInit, FramingInit
<1> QED
  BY <1>1, <1>2, TypeStep, FramingStep, PTL DEF Spec, OneCommandPerLine

-----------------------------------------------------------------------------
\* Between two runs of the handler, and while it works on what it has read,
\* every byte is signalled or the driver is armed. The reads in between need
\* no invariant: the last of them brings the driver into this state.
Signalled ==
    pc \in {"idle", "take"} /\ ~cut /\ ~signal => armed /\ fifo = <<>>

LEMMA SignalledStep ==
    ASSUME TypeOK, Signalled, [Next]_vars
    PROVE  Signalled'
<1>1. ASSUME NEW c \in Bytes, Receive(c)
      PROVE  Signalled'
  <2>1. CASE Len(fifo) < FifoSize
    BY <1>1, <2>1 DEF Receive, Signalled, TypeOK
  <2>2. CASE ~(Len(fifo) < FifoSize)
    BY <1>1, <2>2 DEF Receive, Signalled, driverVars
  <2> QED
    BY <2>1, <2>2
<1>2. CASE Read
  <2>1. pc' \in {"take", "read"}
    BY <1>2, ReadMoves
  <2>2. pc' = "take" /\ ~cut' => fifo' = <<>> /\ armed'
    BY <1>2, ReadMoves
  <2> QED
    BY <2>1, <2>2 DEF Signalled
<1>3. CASE Reset \/ Wake \/ ReadFails
  BY <1>3 DEF Reset, Wake, ReadFails, Signalled
<1>4. CASE Take \/ Finish
  BY <1>4 DEF Take, Finish, Signalled, driverVars
<1>5. CASE UNCHANGED vars
  BY <1>5 DEF vars, driverVars, Signalled
<1> QED
  BY <1>1, <1>2, <1>3, <1>4, <1>5 DEF Next, Handler

\* No byte is left waiting without a signal unless the handler gave up.
THEOREM NoSignalLost == Spec => []NoLostSignal
<1>1. Init => Signalled
  BY DEF Init, Signalled
<1>2. Signalled => NoLostSignal
  BY DEF Signalled, NoLostSignal
<1> QED
  BY <1>1, <1>2, TypeInit, TypeStep, SignalledStep, PTL DEF Spec
=============================================================================
