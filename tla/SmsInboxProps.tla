--------------------------- MODULE SmsInboxProps ---------------------------
(***************************************************************************)
(* What the SMS command channel promises, over the behaviours of SmsInbox. *)
(***************************************************************************)
EXTENDS SmsInbox

TypeOK ==
    /\ inbox \in [Slots -> Messages \cup {Nobody}]
    /\ unread \subseteq Slots
    /\ urcs \in Seq(Slots)
    /\ ril \in BOOLEAN /\ smsok \in BOOLEAN
    /\ pc \in {"idle", "scan", "read", "execute", "delete"}
    /\ slot \in 1 .. NSlots + 1
    /\ text \in Messages \cup {Nobody}
    /\ sent \subseteq Messages
    /\ executed \in [Messages -> Nat]
    /\ failures \in [Messages -> Nat]
    /\ givenUp \subseteq Messages

\* A command is executed once, however its URC, the polls and resets of the
\* device fall; once more only for each time its deletion failed, when a URC
\* that was still queued leads to the same message again.
ExecutedOnce ==
    \A m \in Messages : executed[m] <= 1 + failures[m]

\* What can fill the storage: a slot that is taken is still unread, is being
\* worked on, or its message was given up, by a read of the poll or the handler
\* that failed, by a failed deletion or by a reset. What the poll picks and the
\* handler finishes is gone.
OnlyFailuresStay ==
    \A s \in Slots :
        inbox[s] # Nobody =>
            s \in unread \/ Handling(s) \/ inbox[s] \in givenUp

\* A stored command leaves the storage unexecuted only by the cleanup at
\* SYS_STATE_SMSOK or in the deletion that follows an empty read.
LostOnlyAfterEmptyRead ==
    [][\A m \in Commands, s \in Slots :
          inbox[s] = m /\ inbox'[s] # m /\ executed[m] = 0 =>
             \/ smsok' # smsok
             \/ pc = "delete" /\ text = Nobody]_vars

\* With or without its URC, no message stays unread: the poll comes to its
\* slot if nothing else does, unless the device is reset.
UnreadIsHandled ==
    \A s \in Slots :
        ril /\ s \in unread /\ inbox[s] \notin Garbled ~>
            ~ril \/ s \notin unread

\* What custom/TASKS_LOGIC_SMS.md says of a new SMS (it is read, passed to the
\* parser, answered and then deleted): the cleanup at start-up apart, no stored
\* command is deleted without having been executed.
NoCommandLost ==
    [][\A m \in Commands, s \in Slots :
          inbox[s] = m /\ inbox'[s] # m /\ smsok' = smsok =>
             executed[m] > 0]_vars
=============================================================================
