-------------------------- MODULE UartCommandProps --------------------------
(***************************************************************************)
(* What the serial command channel promises, over UartCommand.             *)
(***************************************************************************)
EXTENDS UartCommand

TypeOK ==
    /\ fifo \in Seq(Bytes) /\ Len(fifo) <= FifoSize
    /\ armed \in BOOLEAN /\ signal \in BOOLEAN /\ cut \in BOOLEAN
    /\ pc \in {"idle", "read", "take"}
    /\ rx \in Seq(Bytes) /\ Len(rx) <= RxSize
    /\ buf \in Seq(Letters) /\ Len(buf) <= CmdSize - 1
    /\ executed \in Seq(Seq(Bytes))
    /\ line \in Seq(Letters)
    /\ received \in Nat

\* g_cmd_buffer holds the end of the line being received: all of it while the
\* line fits, and otherwise what came after the last whole CmdSize bytes.
Framing ==
    /\ Len(buf) < CmdSize
    /\ \E q \in 0 .. Len(line) : Len(line) = q * CmdSize + Len(buf)
    /\ buf = LastBytes(line, Len(buf))

\* The step that takes the terminator of a line.
Terminates ==
    /\ pc = "take" /\ rx # <<>> /\ Head(rx) = Bang
    /\ pc' = "take" /\ rx' = Tail(rx)

\* However the bytes were cut up on their way, the parser is given exactly one
\* command for each line, the line itself when it is shorter than CmdSize, and
\* nothing else. Of a longer line it is given the end that Framing names, or
\* nothing when the line fills the buffer exactly.
OneCommandPerLine ==
    [][IF Terminates
         THEN LET whole == Append(line, Bang)
              IN  \E q \in 0 .. Len(whole), k \in 0 .. CmdSize - 1 :
                     /\ Len(whole) = q * CmdSize + k
                     /\ executed' = IF k = 0 THEN executed
                                    ELSE Append(executed, LastBytes(whole, k))
         ELSE executed' = executed]_vars

\* No byte is left waiting without a signal: between two runs of the handler
\* the driver has signalled every byte in its FIFO or will signal the next
\* one, unless the handler gave up with bytes unread.
NoLostSignal ==
    pc = "idle" /\ ~cut /\ ~signal => armed /\ fifo = <<>>

\* A byte that reached the FIFO is read, however long the task is busy, unless
\* the handler gave up with bytes unread.
BytesAreRead ==
    fifo # <<>> ~> fifo = <<>> \/ cut

\* What the comment of the read loop says, custom/uart/uart.c "All data read
\* or error", and include/ql_uart.h requires of it: without errors, what is in
\* the FIFO is read.
AllDataRead ==
    fifo # <<>> ~> fifo = <<>>
=============================================================================
