---------------------------- MODULE UartCommand ----------------------------
(***************************************************************************)
(* Commands over the serial port: the read loop of custom/uart/uart.c and  *)
(* the framing of commands in logic_uart_callback.                         *)
(*                                                                         *)
(* Bytes arrive at any time in the FIFO of the UART driver. The driver     *)
(* signals one to the task when it is armed, and is armed again by a read  *)
(* that returns less than was asked for (include/ql_uart.h). The firmware  *)
(* handles the signal in its one task, so a signal can wait while the task *)
(* is busy. What a command does is the subject of the other modules.       *)
(***************************************************************************)
EXTENDS Naturals, Sequences

CONSTANTS
    Letters,     \* bytes other than the terminator
    Bang,        \* COM_CMD_TERMINATOR
    FifoSize,    \* bytes the driver keeps
    RxSize,      \* size of m_rx_buffer
    CmdSize,     \* size of g_cmd_buffer
    ReadsFail,   \* whether Ql_UART_Read may return an error
    MaxBytes     \* bound on the bytes received

Bytes == Letters \cup {Bang}

ASSUME UartCommandAssumption ==
    /\ Bang \notin Letters
    /\ FifoSize \in Nat \ {0} /\ RxSize \in Nat \ {0}
    /\ CmdSize \in Nat \ {0, 1}
    /\ ReadsFail \in BOOLEAN
    /\ MaxBytes \in Nat

VARIABLES
    fifo,      \* bytes in the driver
    armed,     \* the driver will signal the next byte
    signal,    \* EVENT_UART_READY_TO_READ is waiting for the task
    pc,        \* where the handler is: "idle", "read" or "take"
    rx,        \* bytes in m_rx_buffer, from the loop index on
    buf,       \* g_cmd_buffer up to g_cmd_buffer_len
    executed,  \* history: what was passed to com_process_command
    line,      \* history: bytes taken since the last terminator
    cut,       \* history: the last read of the handler left bytes behind
    received   \* bytes received so far

driverVars == <<fifo, armed>>
logicVars == <<buf, executed, line>>
vars == <<driverVars, signal, pc, rx, logicVars, cut, received>>

LastBytes(s, n) == SubSeq(s, Len(s) - n + 1, Len(s))

Least(a, b) == IF a < b THEN a ELSE b

Init ==
    /\ fifo = <<>> /\ armed = TRUE
    /\ signal = FALSE
    /\ pc = "idle" /\ rx = <<>>
    /\ buf = <<>> /\ executed = <<>> /\ line = <<>>
    /\ cut = FALSE /\ received = 0

-----------------------------------------------------------------------------
\* Outside: there is no flow control, a byte that finds the FIFO full is lost.
Receive(c) ==
    /\ received < MaxBytes
    /\ received' = received + 1
    /\ IF Len(fifo) < FifoSize
         THEN /\ fifo' = Append(fifo, c)
              /\ signal' = (signal \/ armed)
              /\ armed' = FALSE
         ELSE UNCHANGED <<driverVars, signal>>
    /\ UNCHANGED <<pc, rx, logicVars, cut>>

Reset ==
    /\ fifo' = <<>> /\ armed' = TRUE
    /\ signal' = FALSE
    /\ pc' = "idle" /\ rx' = <<>>
    /\ buf' = <<>> /\ line' = <<>>
    /\ cut' = FALSE
    /\ UNCHANGED <<executed, received>>

-----------------------------------------------------------------------------
\* read_serial_port

Wake ==
    /\ pc = "idle"
    /\ signal
    /\ signal' = FALSE
    /\ rx' = <<>>
    /\ pc' = "read"
    /\ UNCHANGED <<driverVars, logicVars, cut, received>>

Room == RxSize - Len(rx)

\* Mutant: one byte for each signal.
ReadOneByte ==
    /\ pc = "read"
    /\ LET n == Least(1, Len(fifo))
       IN  /\ rx' = SubSeq(fifo, 1, n)
           /\ fifo' = SubSeq(fifo, n + 1, Len(fifo))
           /\ armed' = (armed \/ n < 1)
           /\ cut' = FALSE
           /\ pc' = "take"
    /\ UNCHANGED <<signal, logicVars, received>>

\* One call of Ql_UART_Read. The loop ends at a read of 0 bytes, which is also
\* what a full m_rx_buffer leads to.
Read ==
    /\ pc = "read"
    /\ LET n == Least(Room, Len(fifo))
       IN  /\ rx' = rx \o SubSeq(fifo, 1, n)
           /\ fifo' = SubSeq(fifo, n + 1, Len(fifo))
           /\ armed' = (armed \/ n < Room)
           /\ cut' = (Room = 0)
           /\ pc' = IF n = 0 THEN "take" ELSE "read"
    /\ UNCHANGED <<signal, logicVars, received>>

\* After an error the handler returns; what it had read is lost.
ReadFails ==
    /\ pc = "read"
    /\ ReadsFail
    /\ rx' = <<>>
    /\ cut' = TRUE
    /\ pc' = "idle"
    /\ UNCHANGED <<driverVars, signal, logicVars, received>>

-----------------------------------------------------------------------------
\* logic_uart_callback

\* Mutant: the buffer is taken for full one byte too late.
FitsOneMore == Len(buf) < CmdSize

Fits == Len(buf) < CmdSize - 1

\* Mutant: a command leaves its length behind.
TakeKeepsBuffer ==
    /\ pc = "take"
    /\ rx # <<>>
    /\ LET c == Head(rx)
           more == Append(buf, c)
       IN  /\ line' = IF c = Bang THEN <<>> ELSE Append(line, c)
           /\ buf' = IF Fits THEN more ELSE <<>>
           /\ executed' = IF Fits /\ c = Bang THEN Append(executed, more)
                                              ELSE executed
    /\ rx' = Tail(rx)
    /\ UNCHANGED <<driverVars, signal, pc, cut, received>>

\* One byte of the loop: a byte that does not fit is dropped together with the
\* bytes before it, the terminator too.
Take ==
    /\ pc = "take"
    /\ rx # <<>>
    /\ LET c == Head(rx)
           more == Append(buf, c)
       IN  /\ line' = IF c = Bang THEN <<>> ELSE Append(line, c)
           /\ buf' = IF Fits /\ c # Bang THEN more ELSE <<>>
           /\ executed' = IF Fits /\ c = Bang THEN Append(executed, more)
                                              ELSE executed
    /\ rx' = Tail(rx)
    /\ UNCHANGED <<driverVars, signal, pc, cut, received>>

Finish ==
    /\ pc = "take"
    /\ rx = <<>>
    /\ pc' = "idle"
    /\ UNCHANGED <<driverVars, signal, rx, logicVars, cut, received>>

-----------------------------------------------------------------------------
Handler == Wake \/ Read \/ ReadFails \/ Take \/ Finish

Next == (\E c \in Bytes : Receive(c)) \/ Reset \/ Handler

Spec == Init /\ [][Next]_vars

\* The task comes to the signal in the end and its handler runs to the end.
FairSpec == Spec /\ WF_vars(Wake \/ Read \/ Take \/ Finish)
=============================================================================
