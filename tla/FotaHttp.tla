------------------------------ MODULE FotaHttp ------------------------------
(***************************************************************************)
(* The HTTP transport of custom/fota: fota_http.c with the header decoder  *)
(* of fota_http_code.c, one socket, one receive buffer and one timer.      *)
(*                                                                         *)
(* A response is lines and pieces of the file, taken as whole units: of a  *)
(* line in two segments the decoder sees nothing until the second.         *)
(* bpeersocketclose and the second report of one failure are left out: no  *)
(* step depends on them.                                                   *)
(***************************************************************************)
EXTENDS FotaMain, FiniteSets

CONSTANT Buffer  \* QUECTEL_HTTP_DATABUFFER_SIZE, in units of the response

ASSUME BufferAssumption == Buffer \in Nat \ {0}

VARIABLES
    sock,      \* the socket: "none", "resolving" its server, or "open"
    old,       \* a socket of an earlier attempt was left open
    response,  \* what the server answers: lines, announced length, pieces
    sent,      \* units of it that have arrived at the module,
    got,       \* that are read into the buffer
    used,      \* and that are decoded or written
    hung,      \* the server has closed its end
    buf,       \* http_socketdata_p is allocated
    total,     \* ContentLength; 0 as long as the header has not ended
    received,  \* receivedbodydata
    header,    \* ContentLength and ContentLength_Exist of httpheader
    timer,     \* the timer runs
    timerOn    \* httpGettimerstate

streamVars == <<response, sent, got, used, hung>>
transferVars == <<sock, old, buf, total, received, header>>
timerVars == <<timer, timerOn>>
httpVars == <<streamVars, transferVars, timerVars>>

-----------------------------------------------------------------------------
\* The server

Units(r) == Len(r.lines) + r.pieces

\* The answers for a file of n pieces: as asked for, after an interim one,
\* without the length, in chunks, torn, refused, or with a line too long.
Responses(n) ==
    LET ok(lines, pieces) == [lines |-> lines, length |-> n, pieces |-> pieces]
    IN  {ok(<<"2xx", "length", "end">>, n),
         ok(<<"1xx", "end", "2xx", "length", "end">>, n),
         ok(<<"2xx", "end">>, n),
         ok(<<"2xx", "chunked", "end">>, n),
         ok(<<"2xx", "length", "end">>, n - 1),
         ok(<<"3xx", "end">>, 0),
         ok(<<"2xx">> \o [i \in 1 .. Buffer + 1 |-> "part"], 0)}

None == [lines |-> <<>>, length |-> 0, pieces |-> 0]

Arrive ==
    /\ sock = "open" /\ buf /\ ~hung
    /\ sent' \in sent + 1 .. Units(response)
    /\ UNCHANGED <<response, got, used, hung>>

\* The server, or the network, ends the connection. What happens to it after
\* the attempt has ended is SocketError.
HangUp ==
    /\ sock = "open" /\ buf /\ ~hung
    /\ hung' = TRUE
    /\ UNCHANGED <<response, sent, got, used>>

-----------------------------------------------------------------------------
\* The header

\* The status line that counts at line p: the last one.
StatusAt(p) ==
    LET lines == {q \in 1 .. p : response.lines[q] \in {"1xx", "2xx", "3xx"}}
    IN  response.lines[CHOOSE q \in lines : \A r \in lines : r <= q]

\* The blank line after the header, unless it belongs to an interim response
\* (http_DecodeHeader).
HeaderEnd(p) == response.lines[p] = "end" /\ StatusAt(p) # "1xx"

\* The ends of the header among the first p units.
HeaderEnds(p) == {q \in DOMAIN response.lines : q <= p /\ HeaderEnd(q)}

\* Lines that are complete, of the first p units.
Decoded(p) ==
    {q \in DOMAIN response.lines :
       q <= p /\ \A k \in 1 .. q : response.lines[k] # "part"}

\* The fields of httpheader after those lines. No attempt resets them.
HeaderAfter(p) ==
    IF \E q \in Decoded(p) : response.lines[q] = "length"
      THEN [known |-> TRUE, length |-> response.length]
    ELSE IF \E q \in Decoded(p) : response.lines[q] = "chunked"
      THEN [header EXCEPT !.known = FALSE]
    ELSE header

-----------------------------------------------------------------------------
\* Start of an attempt

InitHttp ==
    /\ sock = "none" /\ old = FALSE
    /\ response = None
    /\ sent = 0 /\ got = 0 /\ used = 0 /\ hung = FALSE
    /\ buf = FALSE /\ total = 0 /\ received = 0
    /\ header = [known |-> FALSE, length |-> 0]
    /\ timer = FALSE /\ timerOn = FALSE

\* Mutant: that there is no memory for the buffer is not noticed.
AskUnchecked ==
    /\ sock' = "open" /\ buf' \in BOOLEAN
    /\ response' \in Responses(size')
    /\ sent' = 0 /\ got' = 0 /\ used' = 0 /\ hung' = FALSE
    /\ timer' = TRUE /\ timerOn' = TRUE

\* http_GetImagefilefromServer succeeds: it has connected, sent the request
\* and started the timer.
Ask ==
    /\ sock' = "open" /\ buf' = TRUE
    /\ response' \in Responses(size')
    /\ sent' = 0 /\ got' = 0 /\ used' = 0 /\ hung' = FALSE
    /\ timer' = TRUE /\ timerOn' = TRUE

\* HTTP_FotaMain from http_initialize on. Another attempt may have left its
\* socket open and its timer running. A URL that cannot be decoded is
\* reported, and its empty name looked up all the same.
StartHttp ==
    /\ Begin
    /\ image' = <<>>
    /\ old' = (old \/ sock = "open")
    /\ total' = 0 /\ received' = 0
    /\ UNCHANGED header
    /\ \/ Started /\ Ask /\ misled' = {}
       \/ /\ buf' = FALSE /\ timerOn' = FALSE
          /\ UNCHANGED <<streamVars, timer>>
          /\ \/ Failed /\ sock' = "none" /\ misled' = {}
             \/ /\ Started /\ sock' = "resolving"
                /\ misled' \in {{}, {<<"url", "started">>}}

\* Callback_GetIpByHostName
Resolved ==
    /\ step = "idle" /\ sock = "resolving"
    /\ UNCHANGED <<misled, attempt, size, image, old, total, received, header>>
    /\ \/ Ask /\ UNCHANGED <<step, told>>
       \/ Failed /\ sock' = "none" /\ UNCHANGED <<streamVars, buf, timerVars>>

-----------------------------------------------------------------------------
\* Httpcallback_socket_read, one call of Ql_SOC_Recv a step

ReadCallback ==
    /\ step = "idle" /\ buf
    /\ sent > got \/ hung
    /\ step' = IF total = 0 THEN "head" ELSE "body"
    /\ timer' = (timer /\ ~timerOn)
    /\ timerOn' = FALSE
    /\ UNCHANGED <<told, misled, attempt, size, image, streamVars, transferVars>>

Reading == step \in {"head", "body"}

Room == Buffer - (got - used)

\* Mutant: the timer is not started again.
WouldBlockUntimed ==
    /\ Reading
    /\ sent = got /\ ~hung /\ Room > 0
    /\ step' = "idle"
    /\ UNCHANGED <<told, misled, attempt, size, image, streamVars, transferVars,
                   timerVars>>

\* SOC_WOULDBLOCK: wait for the next callback. The timer is started, but not
\* marked as running.
WouldBlock ==
    /\ Reading
    /\ sent = got /\ ~hung /\ Room > 0
    /\ step' = "idle"
    /\ timer' = TRUE
    /\ UNCHANGED <<told, misled, attempt, size, image, streamVars, transferVars,
                   timerOn>>

\* The end of a callback that cannot go on.
GiveUp ==
    /\ Failed
    /\ buf' = FALSE

\* The connection is at its end, or the buffer is full of an unended line.
RecvFails ==
    /\ Reading
    /\ hung \/ Room = 0
    /\ GiveUp
    /\ UNCHANGED <<misled, attempt, size, image, streamVars, sock, old, total,
                   received, header, timerVars>>

\* Mutant: the receive is not limited to the room that the buffer has left.
RecvUnlimited(n) ==
    /\ got + n <= sent
    /\ got' = got + n
    /\ UNCHANGED <<response, sent, hung>>

Recv(n) ==
    /\ n <= Room /\ got + n <= sent
    /\ got' = got + n
    /\ UNCHANGED <<response, sent, hung>>

\* http_RecvHttpHead, a call that returns n units.
RecvHead(n) ==
    /\ step = "head"
    /\ Recv(n)
    /\ LET ends == HeaderEnds(got + n)
           last == CHOOSE p \in ends : \A q \in ends : p <= q
       IN  IF ends = {}
             THEN /\ used' = Cardinality(Decoded(got + n))
                  /\ header' = HeaderAfter(got + n)
                  /\ UNCHANGED <<step, told, buf, total>>
             ELSE /\ used' = last
                  /\ header' = HeaderAfter(last)
                  /\ IF StatusAt(last) = "2xx" /\ header'.known
                       THEN /\ total' = header'.length
                            /\ step' = "body"
                            /\ UNCHANGED <<told, buf>>
                       ELSE GiveUp /\ UNCHANGED total
    /\ UNCHANGED <<misled, attempt, size, image, sock, old, received, timerVars>>

\* What of the buffer is the file: its pieces by number.
Pieces(from, to) ==
    [i \in 1 .. to - from |-> from + i - Len(response.lines)]

\* http_RecvHttpBody, a call that returns n units: all that is in the buffer is
\* written. Ql_FOTA_WriteData may fail.
RecvBody(n) ==
    /\ step = "body"
    /\ Recv(n)
    /\ used' = got + n
    /\ \/ GiveUp /\ UNCHANGED <<image, received>>
       \/ /\ image' = image \o Pieces(used, got + n)
          /\ received' = received + (got + n - used)
          /\ step' = IF received' >= total THEN "finish" ELSE "body"
          /\ buf' = (received' < total)
          /\ UNCHANGED told
    /\ UNCHANGED <<misled, attempt, size, sock, old, total, header, timerVars>>

-----------------------------------------------------------------------------
\* Callbacks that report a failure

\* The report ends the attempt only if its download has begun: the buffer is
\* freed, and later callbacks find none.
Alarm(by) ==
    /\ step = "idle" /\ told # "none"
    /\ told' = IF told = "started" /\ buf THEN "failed" ELSE told
    /\ misled' = IF told = "ready" \/ (told = "started" /\ ~buf)
                   THEN misled \cup {<<by, told>>} ELSE misled
    /\ buf' = FALSE
    /\ UNCHANGED <<step, attempt, size, image, streamVars, sock, old, total,
                   received, header>>

\* http_TimerCallback. A stray timer is one that WouldBlock started.
TimerFires ==
    /\ timer
    /\ Alarm(IF timerOn THEN "timer" ELSE "stray timer")
    /\ timer' = FALSE /\ timerOn' = FALSE

\* Httpcallback_socket_read with an error, on any socket still open: it does
\* not look at which.
SocketError ==
    /\ sock = "open" \/ old
    /\ Alarm("socket")
    /\ UNCHANGED timerVars

-----------------------------------------------------------------------------
\* The server sends on, or ends the connection.
Server == (Arrive \/ HangUp) /\ UNCHANGED <<mainVars, transferVars, timerVars>>

Receive == WouldBlock \/ RecvFails \/ \E n \in 1 .. Buffer : RecvHead(n) \/ RecvBody(n)

HttpNext ==
    \/ StartHttp \/ Resolved
    \/ ReadCallback \/ Receive
    \/ TimerFires \/ SocketError
    \/ Server
=============================================================================
