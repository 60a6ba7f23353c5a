------------------------------ MODULE SmsInbox ------------------------------
(***************************************************************************)
(* Commands by SMS: custom/sms/sms.c on top of the modem's SMS storage.    *)
(*                                                                         *)
(* The firmware runs one task. It handles a URC message or a timer poll to *)
(* the end before the next one, but every AT command on the way blocks it, *)
(* and meanwhile the modem stores new messages and posts new URCs. So each *)
(* action here lasts from one AT command to the next.                      *)
(***************************************************************************)
EXTENDS Naturals, Sequences, FiniteSets

CONSTANTS
    NSlots,      \* size of the SIM's SMS storage
    Commands,    \* messages sms_handle_new_sms passes to the command parser
    Rejects,     \* those it deletes instead: too long, blank, unauthorised
    Garbled,     \* those RIL_SMS_ReadSMS_Text cannot decode
    Nobody       \* an empty slot

Slots == 1 .. NSlots
Messages == Commands \cup Rejects \cup Garbled

ASSUME SmsInboxAssumption ==
    /\ NSlots \in Nat \ {0}
    /\ Nobody \notin Messages
    /\ Commands \cap (Rejects \cup Garbled) = {}
    /\ Rejects \cap Garbled = {}

VARIABLES
    inbox,     \* the SIM's storage
    unread,    \* slots whose status is REC UNREAD
    urcs,      \* slots named by the URC_NEW_SMS_IND messages not yet taken
    ril,       \* MSG_ID_RIL_READY has been handled since power on
    smsok,     \* SYS_STATE_SMSOK has been handled since power on
    pc,        \* where the task is
    slot,      \* sms_index, or the loop index of the poll
    text,      \* what RIL_SMS_ReadSMS_Text put in text_info
    sent,      \* messages the network has delivered (each at most once)
    executed,  \* how often a message has gone through the command parser
    failures,  \* how often the deletion of a message has failed
    givenUp    \* history: messages whose handling failed or was cut off

modemVars == <<inbox, unread, urcs, sent>>
bootVars == <<ril, smsok>>
taskVars == <<pc, slot, text>>
history == <<executed, failures, givenUp>>
vars == <<modemVars, bootVars, taskVars, history>>

Init ==
    /\ inbox = [s \in Slots |-> Nobody]
    /\ unread = {}
    /\ urcs = <<>>
    /\ ril = FALSE
    /\ smsok = FALSE
    /\ pc = "idle"
    /\ slot = 1
    /\ text = Nobody
    /\ sent = {}
    /\ executed = [m \in Messages |-> 0]
    /\ failures = [m \in Messages |-> 0]
    /\ givenUp = {}

\* The task is at work on slot s.
Handling(s) == slot = s /\ pc \in {"read", "execute", "delete"}

GiveUp(s) == givenUp' = givenUp \cup ({inbox[s]} \ {Nobody})

-----------------------------------------------------------------------------
\* The modem

\* A message is stored; its URC may not come (AT+CNMI not set yet, message
\* queue of the task full).
Arrive(m, s, announced) ==
    /\ m \notin sent
    /\ inbox[s] = Nobody
    /\ inbox' = [inbox EXCEPT ![s] = m]
    /\ unread' = unread \cup {s}
    /\ urcs' = IF announced /\ ril THEN Append(urcs, s) ELSE urcs
    /\ sent' = sent \cup {m}
    /\ UNCHANGED <<bootVars, taskVars, history>>

\* A reset at any point. The SIM keeps its messages and their status.
Restart ==
    /\ ril
    /\ IF Handling(slot) THEN GiveUp(slot) ELSE UNCHANGED givenUp
    /\ ril' = FALSE
    /\ smsok' = FALSE
    /\ urcs' = <<>>
    /\ pc' = "idle"
    /\ slot' = 1
    /\ text' = Nobody
    /\ UNCHANGED <<inbox, unread, sent, executed, failures>>

-----------------------------------------------------------------------------
\* logic_handle_message

RilReady ==
    /\ pc = "idle"
    /\ ~ril
    /\ ril' = TRUE
    /\ UNCHANGED <<modemVars, smsok, taskVars, history>>

\* sms_init: deletes every message when all its AT commands succeed.
SmsInit(ok) ==
    /\ pc = "idle"
    /\ ril /\ ~smsok
    /\ smsok' = TRUE
    /\ inbox' = IF ok THEN [s \in Slots |-> Nobody] ELSE inbox
    /\ unread' = IF ok THEN {} ELSE unread
    /\ UNCHANGED <<urcs, sent, ril, taskVars, history>>

\* URC_NEW_SMS_IND. Unless sms_prepare_storage fails, the message is read next.
TakeUrc(ok) ==
    /\ pc = "idle"
    /\ urcs # <<>>
    /\ urcs' = Tail(urcs)
    /\ slot' = Head(urcs)
    /\ pc' = IF ok THEN "read" ELSE "idle"
    /\ UNCHANGED <<inbox, unread, sent, bootVars, text, history>>

-----------------------------------------------------------------------------
\* sms_poll_inbox, from the 50 ms timer, every SMS_POLL_INTERVAL_MS

\* Mutant: the loop starts at 0.
PollFromZero ==
    /\ pc = "idle"
    /\ ril
    /\ \E s \in Slots : inbox[s] # Nobody
    /\ pc' = "scan"
    /\ slot' = 0
    /\ UNCHANGED <<modemVars, bootVars, text, history>>

Poll ==
    /\ pc = "idle"
    /\ ril
    /\ \E s \in Slots : inbox[s] # Nobody
    /\ pc' = "scan"
    /\ slot' = 1
    /\ UNCHANGED <<modemVars, bootVars, text, history>>

\* Mutant: the loop ends before the last slot.
ScanningShort == slot < NSlots

Scanning == slot <= NSlots

\* Mutant: the status of the message is not looked at.
PickedAny(s) == inbox[s] \in Commands \cup Rejects

\* A message the poll may pick: the modem reports it as REC UNREAD.
Picked(s) == s \in unread /\ inbox[s] \notin Garbled

\* The loop goes on: the slot is empty or was read before, or reading it fails.
\* A read that fails, because the message cannot be decoded or the answer of
\* the modem is lost, may have marked the message REC READ all the same.
ScanSkip ==
    /\ pc = "scan"
    /\ Scanning
    /\ \/ UNCHANGED <<unread, givenUp>>
       \/ slot \in unread /\ unread' = unread \ {slot} /\ GiveUp(slot)
    /\ slot' = slot + 1
    /\ UNCHANGED <<inbox, urcs, sent, bootVars, pc, text, executed, failures>>

\* Reading an unread message has marked it REC READ when sms_handle_new_sms is
\* called for it; there sms_prepare_storage may fail.
ScanPick(ok) ==
    /\ pc = "scan"
    /\ Scanning
    /\ Picked(slot)
    /\ unread' = unread \ {slot}
    /\ IF ok THEN pc' = "read" /\ UNCHANGED givenUp
       ELSE pc' = "idle" /\ GiveUp(slot)
    /\ UNCHANGED <<inbox, urcs, sent, bootVars, slot, text, executed, failures>>

ScanEnd ==
    /\ pc = "scan"
    /\ ~Scanning
    /\ pc' = "idle"
    /\ slot' = 1
    /\ UNCHANGED <<modemVars, bootVars, text, history>>

-----------------------------------------------------------------------------
\* sms_handle_new_sms, after sms_prepare_storage

\* RIL_SMS_ReadSMS_Text fails, before or after the modem marked the message:
\* the handler returns and leaves the message where it is.
ReadFails ==
    /\ pc = "read"
    /\ \/ unread' = unread
       \/ unread' = unread \ {slot}
    /\ pc' = "idle"
    /\ GiveUp(slot)
    /\ UNCHANGED <<inbox, urcs, sent, bootVars, slot, text, executed, failures>>

\* An empty slot is read successfully, with a text of length 0: the handler
\* takes it for a blank message and goes on to delete the slot.
ReadNothing ==
    /\ pc = "read"
    /\ inbox[slot] = Nobody
    /\ text' = Nobody
    /\ pc' = "delete"
    /\ UNCHANGED <<modemVars, bootVars, slot, history>>

\* Mutant: what is rejected is left where it is.
ReadLeavesRejects ==
    /\ pc = "read"
    /\ inbox[slot] \in Commands \cup Rejects
    /\ unread' = unread \ {slot}
    /\ text' = inbox[slot]
    /\ pc' = IF inbox[slot] \in Commands THEN "execute" ELSE "idle"
    /\ UNCHANGED <<inbox, urcs, sent, bootVars, slot, history>>

ReadMessage ==
    /\ pc = "read"
    /\ inbox[slot] \in Commands \cup Rejects
    /\ unread' = unread \ {slot}
    /\ text' = inbox[slot]
    /\ pc' = IF inbox[slot] \in Commands THEN "execute" ELSE "delete"
    /\ UNCHANGED <<inbox, urcs, sent, bootVars, slot, history>>

\* Translation, com_process_command_with_callback and the reply. Neither the
\* outcome of the command nor that of the reply changes what follows.
Execute ==
    /\ pc = "execute"
    /\ executed' = [executed EXCEPT ![text] = @ + 1]
    /\ pc' = "delete"
    /\ UNCHANGED <<modemVars, bootVars, slot, text, failures, givenUp>>

\* Mutant: RIL_SMS_DEL_ALL_MSG instead of RIL_SMS_DEL_INDEXED_MSG.
DeleteAll ==
    /\ pc = "delete"
    /\ text # Nobody
    /\ inbox' = [s \in Slots |-> Nobody]
    /\ unread' = {}
    /\ pc' = "idle"
    /\ text' = Nobody
    /\ UNCHANGED <<urcs, sent, bootVars, slot, history>>

\* RIL_SMS_DeleteSMS deletes by index whatever is in the slot by now.
Delete ==
    /\ pc = "delete"
    /\ inbox' = [inbox EXCEPT ![slot] = Nobody]
    /\ unread' = unread \ {slot}
    /\ pc' = "idle"
    /\ text' = Nobody
    /\ UNCHANGED <<urcs, sent, bootVars, slot, history>>

DeleteFails ==
    /\ pc = "delete"
    /\ failures' = IF text = Nobody THEN failures
                   ELSE [failures EXCEPT ![text] = @ + 1]
    /\ GiveUp(slot)
    /\ pc' = "idle"
    /\ text' = Nobody
    /\ UNCHANGED <<modemVars, bootVars, slot, executed>>

-----------------------------------------------------------------------------
Modem ==
    \/ \E m \in Messages, s \in Slots, a \in BOOLEAN : Arrive(m, s, a)
    \/ Restart

Scan == ScanSkip \/ (\E ok \in BOOLEAN : ScanPick(ok)) \/ ScanEnd

Handler ==
    \/ ReadFails \/ ReadNothing \/ ReadMessage
    \/ Execute
    \/ Delete \/ DeleteFails

Task ==
    \/ RilReady
    \/ \E ok \in BOOLEAN : SmsInit(ok) \/ TakeUrc(ok)
    \/ Poll \/ Scan \/ Handler

Next == Modem \/ Task

Spec == Init /\ [][Next]_vars

\* The task runs whenever it can, handles every URC in turn, and its timer
\* fires for ever. An unread message the poll keeps looking at is read in the
\* end: AT commands do not fail for ever.
FairSpec ==
    /\ Spec
    /\ WF_vars(RilReady)
    /\ WF_vars(\E ok \in BOOLEAN : TakeUrc(ok))
    /\ SF_vars(Poll)
    /\ WF_vars(Scan) /\ WF_vars(Handler)
    /\ \A s \in Slots : SF_vars(slot = s /\ \E ok \in BOOLEAN : ScanPick(ok))
=============================================================================
