------------------------------ MODULE FotaMain ------------------------------
(***************************************************************************)
(* The part of custom/fota that both transports share: the start of an     *)
(* attempt (fota_main.c) and its end, where the image is sealed, the       *)
(* caller asked and the update begun (the tails of fota_http.c and         *)
(* fota_ftp.c); and the store of ql_fota.h that they write to.             *)
(*                                                                         *)
(* A file is a row of numbered pieces. All callbacks run in one task, one  *)
(* after the other; a callback that waits for nothing but calls the socket *)
(* or the store several times is as many steps.                            *)
(***************************************************************************)
EXTENDS Naturals, Sequences

CONSTANTS
    Sizes,       \* numbers of pieces that a file may have
    MaxAttempts  \* calls of Ql_FOTA_StartUpgrade (a bound)

ASSUME FotaAssumption ==
    /\ Sizes \subseteq Nat \ {0}
    /\ MaxAttempts \in Nat

VARIABLES
    step,     \* the callback that runs: "idle", "head", "body", "copy" or
              \* "finish"; "reboot" once the update begins, "fault" after a
              \* fault
    told,     \* how the attempt stands: "none", "started", "failed", "ready"
    misled,   \* history: failures that were reported of it while it went on,
              \* or after it was ready: by what, and how it stood
    attempt,  \* attempts so far
    size,     \* pieces of the file on the server
    image     \* pieces written since Ql_FOTA_Init

mainVars == <<step, told, misled, attempt, size, image>>

Whole(n) == [i \in 1 .. n |-> i]

\* UP_UPGRADFAILED, a failure message or -1, at the end of the attempt.
Failed ==
    /\ told' = "failed"
    /\ step' = "idle"

Started ==
    /\ told' = "started"
    /\ step' = "idle"

InitMain ==
    /\ step = "idle" /\ told = "none" /\ misled = {}
    /\ attempt = 0
    /\ size \in Sizes
    /\ image = <<>>

\* Ql_FOTA_StartUpgrade up to the transport. The caller starts again only when
\* the last attempt has ended; the code does not check that.
Begin ==
    /\ step = "idle" /\ told # "started"
    /\ attempt < MaxAttempts
    /\ attempt' = attempt + 1
    /\ size' \in Sizes

\* There is no PDP context, or Ql_FOTA_Init fails; or, after it, the URL names
\* no transport or GPRS cannot be activated.
Refuse ==
    /\ Begin /\ misled' = {}
    /\ Failed
    /\ image' \in {<<>>, image}

\* Mutant: the outcome of Ql_FOTA_Finish is not looked at.
ConcludeUnchecked ==
    /\ step = "finish"
    /\ \/ Failed
       \/ told' = "ready" /\ step' \in {"idle", "reboot"}
    /\ UNCHANGED <<misled, attempt, size, image>>

\* Ql_FOTA_Finish compares the checksum of what was written with that of the
\* image. Then the caller decides: update at once, which can fail and does not
\* return otherwise, or later.
Conclude ==
    /\ step = "finish"
    /\ \/ Failed
       \/ /\ image = Whole(size)
          /\ told' = "ready"
          /\ step' \in {"idle", "reboot"}
    /\ UNCHANGED <<misled, attempt, size, image>>

\* A caller that decided to update later does so.
UpdateLater ==
    /\ step = "idle" /\ told = "ready"
    /\ step' = "reboot"
    /\ UNCHANGED <<told, misled, attempt, size, image>>
=============================================================================
