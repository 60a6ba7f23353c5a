-------------------------------- MODULE Fota --------------------------------
(***************************************************************************)
(* Upgrades over the air: custom/fota with both transports. Attempts       *)
(* follow one another, over either of them, and what one has left behind   *)
(* (timer, open socket, header, address) is there when the next begins.    *)
(***************************************************************************)
EXTENDS FotaHttp, FotaFtp

vars == <<mainVars, httpVars, ftpVars>>

Init == InitMain /\ InitHttp /\ InitFtp

Next ==
    \/ HttpNext /\ UNCHANGED ftpVars
    \/ FtpNext /\ UNCHANGED httpVars
    \/ Refuse /\ UNCHANGED <<httpVars, ftpVars>>
    \/ Conclude /\ UNCHANGED <<httpVars, ftpVars>>
    \/ UpdateLater /\ UNCHANGED <<httpVars, ftpVars>>

Spec == Init /\ [][Next]_vars

\* A callback that runs goes on to its end, a timer that runs fires, and the
\* modem answers: to a look-up, and to a download within its own time limit.
FairSpec ==
    /\ Spec
    /\ WF_vars((Receive /\ UNCHANGED ftpVars)
               \/ (\E n \in 1 .. Chunk : Copy(n) /\ UNCHANGED httpVars)
               \/ (Conclude /\ UNCHANGED <<httpVars, ftpVars>>))
    /\ WF_vars(TimerFires /\ UNCHANGED ftpVars)
    /\ WF_vars(Resolved /\ UNCHANGED ftpVars)
    /\ WF_vars(Downloaded /\ UNCHANGED httpVars)
=============================================================================
