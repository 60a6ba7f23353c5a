--------------------------- MODULE SmsInboxProofs ---------------------------
(***************************************************************************)
(* The safety properties of the SMS channel for any storage and any        *)
(* messages. The inductive invariant is about where a message that has     *)
(* been executed once more than its deletion has failed can still be: it   *)
(* is about to be deleted, or a reset has left it in a slot that nothing   *)
(* leads to any more, neither its status nor a URC nor the task (Quiet).   *)
(***************************************************************************)
EXTENDS SmsInboxProps, SequenceTheorems, TLAPS

\* The loop index of the poll is a slot where the handler takes it for one.
SlotOK == pc \in {"read", "execute", "delete"} => slot \in Slots

\* Only commands are executed, and they are deleted after that.
TextOK ==
    /\ pc = "execute" => text \in Commands
    /\ pc = "delete" /\ text \in Commands => executed[text] > 0

\* The slot at work still holds the message that was read from it.
HandledMessageStays ==
    pc \in {"execute", "delete"} /\ text # Nobody =>
        inbox[slot] = text /\ slot \notin unread

OneSlotEach ==
    \A s, t \in Slots : inbox[s] # Nobody /\ inbox[s] = inbox[t] => s = t

StoredWasSent == \A s \in Slots : inbox[s] \in sent \cup {Nobody}

UnsentIsFresh == \A m \in Messages \ sent : executed[m] = 0

\* Nothing leads to the message in slot s any more.
Quiet(s) ==
    /\ s \notin unread
    /\ \A i \in DOMAIN urcs : urcs[i] # s
    /\ ~(pc \in {"read", "execute"} /\ slot = s)

Owed ==
    \A s \in Slots :
        inbox[s] # Nobody /\ executed[inbox[s]] > failures[inbox[s]] =>
            (pc = "delete" /\ text = inbox[s]) \/ Quiet(s)

Shape == SlotOK /\ TextOK /\ HandledMessageStays

Storage == OneSlotEach /\ StoredWasSent /\ UnsentIsFresh

IInv ==
    /\ TypeOK
    /\ Shape
    /\ Storage
    /\ Owed
    /\ ExecutedOnce
    /\ OnlyFailuresStay

LEMMA InitHolds == Init => IInv
<1> SUFFICES ASSUME Init PROVE IInv
  OBVIOUS
<1>1. slot \in 1 .. NSlots + 1 /\ slot \in Slots
  BY SmsInboxAssumption DEF Init, Slots
<1>2. TypeOK
  <2>1. urcs \in Seq(Slots)
    BY DEF Init
  <2>2. inbox \in [Slots -> Messages \cup {Nobody}]
    BY DEF Init
  <2>3. executed \in [Messages -> Nat] /\ failures \in [Messages -> Nat]
    BY DEF Init
  <2> QED
    BY <1>1, <2>1, <2>2, <2>3 DEF Init, TypeOK
<1>3. Shape
  BY DEF Init, Shape, SlotOK, TextOK, HandledMessageStays
<1>4. Storage /\ OnlyFailuresStay
  BY DEF Init, Storage, OneSlotEach, StoredWasSent, UnsentIsFresh, OnlyFailuresStay
<1>5. Owed /\ ExecutedOnce
  BY DEF Init, Owed, ExecutedOnce
<1> QED
  BY <1>2, <1>3, <1>4, <1>5 DEF IInv

-----------------------------------------------------------------------------
\* The modem

LEMMA ArriveKeeps ==
    ASSUME IInv, NEW m \in Messages, NEW s \in Slots, NEW announced \in BOOLEAN,
           Arrive(m, s, announced)
    PROVE  IInv'
<1> USE DEF IInv, Arrive, bootVars, taskVars, history
<1>1. /\ m \notin sent /\ inbox[s] = Nobody
      /\ inbox' = [inbox EXCEPT ![s] = m]
      /\ unread' = unread \cup {s} /\ sent' = sent \cup {m}
      /\ UNCHANGED <<ril, smsok, pc, slot, text, executed, failures, givenUp>>
  OBVIOUS
<1>2. urcs' \in Seq(Slots) /\ (urcs' = urcs \/ urcs' = Append(urcs, s))
  BY AppendProperties DEF TypeOK
<1>3. TypeOK'
  BY <1>1, <1>2 DEF TypeOK
<1>4. \A t \in Slots : inbox'[t] = IF t = s THEN m ELSE inbox[t]
  BY <1>1 DEF TypeOK
<1>5. m # Nobody
  BY SmsInboxAssumption
<1>6. Shape'
  BY <1>1, <1>4 DEF Shape, SlotOK, TextOK, HandledMessageStays
<1>7. Storage'
  BY <1>1, <1>4 DEF Storage, OneSlotEach, StoredWasSent, UnsentIsFresh
<1>8. ExecutedOnce'
  BY <1>1 DEF ExecutedOnce
<1>9. OnlyFailuresStay'
  BY <1>1, <1>4 DEF OnlyFailuresStay, Handling
<1>10. ASSUME NEW t \in Slots, t # s, Quiet(t)
       PROVE  Quiet(t)'
  <2>1. CASE urcs' = urcs
    BY <1>1, <1>10, <2>1 DEF Quiet
  <2>2. CASE urcs' = Append(urcs, s)
    <3>1. \A i \in DOMAIN urcs' : urcs'[i] # t
      BY <1>10, <2>2, AppendProperties DEF Quiet, TypeOK
    <3> QED
      BY <1>1, <1>10, <3>1 DEF Quiet
  <2> QED
    BY <1>2, <2>1, <2>2
<1>11. executed[m] = 0 /\ failures[m] \in Nat
  BY <1>1 DEF Storage, UnsentIsFresh, TypeOK
<1>12. Owed'
  BY <1>1, <1>4, <1>10, <1>11 DEF Owed
<1> QED
  BY <1>3, <1>6, <1>7, <1>8, <1>9, <1>12

LEMMA RestartKeeps ==
    ASSUME IInv, Restart
    PROVE  IInv'
<1> USE DEF IInv, Restart
<1>1. /\ pc' = "idle" /\ slot' = 1 /\ text' = Nobody /\ urcs' = <<>>
      /\ UNCHANGED <<inbox, unread, sent, executed, failures>>
  OBVIOUS
<1>2. /\ givenUp \subseteq givenUp' /\ givenUp' \subseteq Messages
      /\ Handling(slot) /\ inbox[slot] # Nobody => inbox[slot] \in givenUp'
  <2>1. CASE Handling(slot)
    <3>1. inbox[slot] \in Messages \cup {Nobody}
      BY <2>1 DEF Handling, Shape, SlotOK, TypeOK
    <3> QED
      BY <2>1, <3>1 DEF GiveUp, TypeOK
  <2> QED
    BY <2>1 DEF TypeOK
<1>3. slot' \in 1 .. NSlots + 1
  BY <1>1, SmsInboxAssumption
<1>4. TypeOK'
  <2>1. urcs' \in Seq(Slots)
    BY <1>1
  <2> QED
    BY <1>1, <1>2, <1>3, <2>1 DEF TypeOK
<1>5. Shape' /\ Storage' /\ ExecutedOnce'
  BY <1>1 DEF Shape, SlotOK, TextOK, HandledMessageStays, Storage, OneSlotEach, StoredWasSent,
              UnsentIsFresh, ExecutedOnce
<1>6. OnlyFailuresStay'
  BY <1>1, <1>2 DEF OnlyFailuresStay, Handling
<1>7. ASSUME NEW s \in Slots, inbox[s] # Nobody, executed[inbox[s]] > failures[inbox[s]]
      PROVE  s \notin unread
  <2>1. CASE Quiet(s)
    BY <2>1 DEF Quiet
  <2>2. CASE pc = "delete" /\ text = inbox[s]
    <3>1. inbox[slot] = inbox[s] /\ slot \notin unread /\ slot \in Slots
      BY <1>7, <2>2 DEF Shape, HandledMessageStays, SlotOK
    <3> QED
      BY <1>7, <3>1 DEF Storage, OneSlotEach
  <2> QED
    BY <1>7, <2>1, <2>2 DEF Owed
<1>8. Owed'
  BY <1>1, <1>7 DEF Owed, Quiet
<1> QED
  BY <1>4, <1>5, <1>6, <1>8

-----------------------------------------------------------------------------
\* Start-up, URCs and the poll

LEMMA RilReadyKeeps ==
    ASSUME IInv, RilReady
    PROVE  IInv'
  BY DEF IInv, RilReady, modemVars, taskVars, history, TypeOK, Shape, SlotOK, TextOK,
         HandledMessageStays, Storage, OneSlotEach, StoredWasSent, UnsentIsFresh, Owed, Quiet,
         ExecutedOnce, OnlyFailuresStay, Handling

LEMMA SmsInitKeeps ==
    ASSUME IInv, NEW ok \in BOOLEAN, SmsInit(ok)
    PROVE  IInv'
<1> USE DEF IInv, SmsInit, taskVars, history
<1>1. /\ pc = "idle" /\ smsok' = TRUE
      /\ UNCHANGED <<urcs, sent, ril, pc, slot, text, executed, failures, givenUp>>
  OBVIOUS
<1>2. CASE ok
  <2>1. inbox' = [s \in Slots |-> Nobody] /\ unread' = {}
    BY <1>2
  <2>2. TypeOK'
    BY <1>1, <2>1 DEF TypeOK
  <2> QED
    BY <1>1, <2>1, <2>2 DEF Shape, SlotOK, TextOK, HandledMessageStays, Storage, OneSlotEach,
        StoredWasSent, UnsentIsFresh, Owed, ExecutedOnce, OnlyFailuresStay
<1>3. CASE ~ok
  <2>1. UNCHANGED <<inbox, unread>>
    BY <1>3
  <2> QED
    BY <1>1, <2>1 DEF TypeOK, Shape, SlotOK, TextOK, HandledMessageStays, Storage, OneSlotEach,
        StoredWasSent, UnsentIsFresh, Owed, Quiet, ExecutedOnce, OnlyFailuresStay, Handling
<1> QED
  BY <1>2, <1>3

LEMMA TakeUrcKeeps ==
    ASSUME IInv, NEW ok \in BOOLEAN, TakeUrc(ok)
    PROVE  IInv'
<1> USE DEF IInv, TakeUrc, bootVars, history
<1>1. /\ pc = "idle" /\ pc' \in {"idle", "read"} /\ slot' = Head(urcs) /\ urcs' = Tail(urcs)
      /\ urcs # <<>>
      /\ UNCHANGED <<inbox, unread, sent, ril, smsok, text, executed, failures, givenUp>>
  OBVIOUS
<1>2. /\ slot' \in Slots /\ slot' = urcs[1] /\ 1 \in DOMAIN urcs
      /\ urcs' \in Seq(Slots)
      /\ \A i \in DOMAIN urcs' : \E j \in DOMAIN urcs : urcs'[i] = urcs[j]
  <2>1. urcs \in Seq(Slots) /\ urcs # <<>>
    BY DEF TypeOK
  <2>2. Len(urcs) > 0 /\ Head(urcs) = urcs[1] /\ Head(urcs) \in Slots
    BY <2>1
  <2>3. /\ urcs' \in Seq(Slots) /\ Len(urcs') = Len(urcs) - 1
        /\ \A i \in 1 .. Len(urcs') : urcs'[i] = urcs[i + 1]
    BY <1>1, <2>1
  <2>4. \A i \in 1 .. Len(urcs') : i + 1 \in DOMAIN urcs
    BY <2>1, <2>3
  <2> QED
    BY <1>1, <2>1, <2>2, <2>3, <2>4
<1>3. slot' \in 1 .. NSlots + 1
  BY <1>2, SmsInboxAssumption DEF Slots
<1>4. TypeOK'
  BY <1>1, <1>2, <1>3 DEF TypeOK
<1>5. Shape' /\ Storage' /\ ExecutedOnce'
  BY <1>1, <1>2 DEF Shape, SlotOK, TextOK, HandledMessageStays, Storage, OneSlotEach,
        StoredWasSent, UnsentIsFresh, ExecutedOnce
<1>6. OnlyFailuresStay'
  BY <1>1 DEF OnlyFailuresStay, Handling
<1>7. ASSUME NEW s \in Slots, Quiet(s)
      PROVE  Quiet(s)'
  BY <1>1, <1>2, <1>7 DEF Quiet
<1>8. Owed'
  BY <1>1, <1>7 DEF Owed
<1> QED
  BY <1>4, <1>5, <1>6, <1>8

\* The loop of the poll: a read of it that fails can give one message up.
LEMMA ScanKeeps ==
    ASSUME IInv, Poll \/ ScanSkip \/ ScanEnd
    PROVE  IInv'
<1> USE DEF IInv, modemVars, bootVars, history
<1>1. /\ pc \in {"idle", "scan"} /\ pc' \in {"idle", "scan"}
      /\ UNCHANGED <<inbox, urcs, sent, ril, smsok, text, executed, failures>>
  BY DEF Poll, ScanSkip, ScanEnd
<1>2. slot' \in 1 .. NSlots + 1
  BY SmsInboxAssumption DEF Poll, ScanSkip, ScanEnd, Scanning, TypeOK
<1>3. /\ unread' \subseteq unread
      /\ givenUp \subseteq givenUp' /\ givenUp' \subseteq Messages
      /\ \A s \in unread \ unread' : inbox[s] = Nobody \/ inbox[s] \in givenUp'
  BY DEF Poll, ScanSkip, ScanEnd, GiveUp, TypeOK
<1>4. TypeOK'
  BY <1>1, <1>2, <1>3 DEF TypeOK
<1>5. Shape' /\ Storage' /\ ExecutedOnce'
  BY <1>1 DEF Shape, SlotOK, TextOK, HandledMessageStays, Storage, OneSlotEach,
        StoredWasSent, UnsentIsFresh, ExecutedOnce
<1>6. OnlyFailuresStay'
  BY <1>1, <1>3 DEF OnlyFailuresStay, Handling
<1>7. Owed'
  BY <1>1, <1>3 DEF Owed, Quiet
<1> QED
  BY <1>4, <1>5, <1>6, <1>7

LEMMA ScanPickKeeps ==
    ASSUME IInv, NEW ok \in BOOLEAN, ScanPick(ok)
    PROVE  IInv'
<1> USE DEF IInv, ScanPick, bootVars
<1>1. /\ pc = "scan" /\ pc' \in {"idle", "read"} /\ slot \in unread
      /\ unread' = unread \ {slot}
      /\ UNCHANGED <<inbox, urcs, sent, ril, smsok, slot, text, executed, failures>>
  BY DEF Picked
<1>2. slot \in Slots
  BY SmsInboxAssumption DEF Scanning, TypeOK, Slots
<1>3. /\ givenUp \subseteq givenUp' /\ givenUp' \subseteq Messages
      /\ pc' = "read" \/ inbox[slot] = Nobody \/ inbox[slot] \in givenUp'
  BY <1>2 DEF GiveUp, TypeOK
<1>4. TypeOK'
  BY <1>1, <1>3 DEF TypeOK
<1>5. Shape' /\ Storage' /\ ExecutedOnce'
  BY <1>1, <1>2 DEF Shape, SlotOK, TextOK, HandledMessageStays, Storage, OneSlotEach,
        StoredWasSent, UnsentIsFresh, ExecutedOnce
<1>6. OnlyFailuresStay'
  BY <1>1, <1>3 DEF OnlyFailuresStay, Handling
<1>7. ASSUME NEW s \in Slots, Quiet(s)
      PROVE  Quiet(s)'
  BY <1>1, <1>7 DEF Quiet
<1>8. Owed'
  BY <1>1, <1>7 DEF Owed
<1> QED
  BY <1>4, <1>5, <1>6, <1>8

-----------------------------------------------------------------------------
\* The handler

LEMMA ReadFailsKeeps ==
    ASSUME IInv, ReadFails
    PROVE  IInv'
<1> USE DEF IInv, ReadFails, bootVars
<1>1. /\ pc = "read" /\ pc' = "idle" /\ slot \in Slots
      /\ unread' \subseteq unread /\ unread \ unread' \subseteq {slot}
      /\ UNCHANGED <<inbox, urcs, sent, ril, smsok, slot, text, executed, failures>>
  BY DEF Shape, SlotOK
<1>2. /\ givenUp \subseteq givenUp' /\ givenUp' \subseteq Messages
      /\ inbox[slot] = Nobody \/ inbox[slot] \in givenUp'
  BY <1>1 DEF GiveUp, TypeOK
<1>3. TypeOK'
  BY <1>1, <1>2 DEF TypeOK
<1>4. Shape' /\ Storage' /\ ExecutedOnce'
  BY <1>1 DEF Shape, SlotOK, TextOK, HandledMessageStays, Storage, OneSlotEach,
        StoredWasSent, UnsentIsFresh, ExecutedOnce
<1>5. OnlyFailuresStay'
  BY <1>1, <1>2 DEF OnlyFailuresStay, Handling
<1>6. Owed'
  BY <1>1 DEF Owed, Quiet
<1> QED
  BY <1>3, <1>4, <1>5, <1>6

LEMMA ReadKeeps ==
    ASSUME IInv, ReadNothing \/ ReadMessage
    PROVE  IInv'
<1> USE DEF IInv
<1>1. /\ pc = "read" /\ slot \in Slots /\ text' = inbox[slot]
      /\ UNCHANGED <<inbox, urcs, sent, ril, smsok, slot, executed, failures, givenUp>>
  BY DEF ReadNothing, ReadMessage, modemVars, bootVars, history, Shape, SlotOK
<1>2. /\ unread' \subseteq unread /\ unread \ unread' \subseteq {slot}
      /\ inbox[slot] # Nobody => slot \notin unread'
  BY DEF ReadNothing, ReadMessage, modemVars
<1>3. /\ pc' \in {"execute", "delete"}
      /\ pc' = "execute" => inbox[slot] \in Commands
      /\ pc' = "delete" => inbox[slot] \notin Commands
  BY SmsInboxAssumption DEF ReadNothing, ReadMessage, Messages
<1>4. TypeOK'
  BY <1>1, <1>2, <1>3 DEF TypeOK
<1>5. Shape'
  BY <1>1, <1>2, <1>3 DEF Shape, SlotOK, TextOK, HandledMessageStays
<1>6. Storage' /\ ExecutedOnce'
  BY <1>1 DEF Storage, OneSlotEach, StoredWasSent, UnsentIsFresh, ExecutedOnce
<1>7. OnlyFailuresStay'
  BY <1>1, <1>2, <1>3 DEF OnlyFailuresStay, Handling
<1>8. Owed'
  BY <1>1, <1>2, <1>3 DEF Owed, Quiet
<1> QED
  BY <1>4, <1>5, <1>6, <1>7, <1>8

LEMMA ExecuteKeeps ==
    ASSUME IInv, Execute
    PROVE  IInv'
<1> USE DEF IInv, Execute, modemVars, bootVars
<1>1. /\ pc = "execute" /\ pc' = "delete"
      /\ executed' = [executed EXCEPT ![text] = @ + 1]
      /\ UNCHANGED <<inbox, unread, urcs, sent, ril, smsok, slot, text, failures, givenUp>>
  OBVIOUS
<1>2. /\ text \in Commands /\ text \in Messages /\ text # Nobody
      /\ slot \in Slots /\ inbox[slot] = text /\ slot \notin unread
  BY <1>1, SmsInboxAssumption DEF Shape, SlotOK, TextOK, HandledMessageStays, Messages
<1>3. \A m \in Messages : executed'[m] = IF m = text THEN executed[m] + 1 ELSE executed[m]
  BY <1>1 DEF TypeOK
<1>4. executed[text] <= failures[text] /\ executed[text] \in Nat /\ failures[text] \in Nat
  <2>1. executed[text] \in Nat /\ failures[text] \in Nat
    BY <1>2 DEF TypeOK
  <2>2. ~Quiet(slot) /\ pc # "delete"
    BY <1>1 DEF Quiet
  <2> QED
    BY <1>2, <2>1, <2>2 DEF Owed
<1>5. TypeOK'
  <2>1. executed' \in [Messages -> Nat]
    BY <1>1, <1>2, <1>4 DEF TypeOK
  <2> QED
    BY <1>1, <2>1 DEF TypeOK
<1>6. Shape'
  BY <1>1, <1>2, <1>3, <1>4 DEF Shape, SlotOK, TextOK, HandledMessageStays
<1>7. Storage'
  <2>1. text \in sent
    BY <1>2 DEF Storage, StoredWasSent
  <2> QED
    BY <1>1, <1>3, <2>1 DEF Storage, OneSlotEach, StoredWasSent, UnsentIsFresh
<1>8. ExecutedOnce'
  BY <1>1, <1>3, <1>4 DEF ExecutedOnce
<1>9. OnlyFailuresStay'
  BY <1>1 DEF OnlyFailuresStay, Handling
<1>10. ASSUME NEW s \in Slots, inbox[s] # Nobody, inbox[s] # text,
              executed'[inbox[s]] > failures[inbox[s]]
       PROVE  Quiet(s)'
  <2>1. inbox[s] \in Messages
    BY <1>10 DEF TypeOK
  <2>2. Quiet(s)
    BY <1>1, <1>3, <1>10, <2>1 DEF Owed
  <2> QED
    BY <1>1, <2>2 DEF Quiet
<1>11. Owed'
  BY <1>1, <1>10 DEF Owed
<1> QED
  BY <1>5, <1>6, <1>7, <1>8, <1>9, <1>11

LEMMA DeleteKeeps ==
    ASSUME IInv, Delete
    PROVE  IInv'
<1> USE DEF IInv, Delete, bootVars, history
<1>1. /\ pc = "delete" /\ pc' = "idle" /\ slot \in Slots /\ text' = Nobody
      /\ unread' = unread \ {slot}
      /\ UNCHANGED <<urcs, sent, ril, smsok, slot, executed, failures, givenUp>>
  BY DEF Shape, SlotOK
<1>2. \A s \in Slots : inbox'[s] = IF s = slot THEN Nobody ELSE inbox[s]
  BY <1>1 DEF TypeOK
<1>3. TypeOK'
  BY <1>1 DEF TypeOK
<1>4. Shape' /\ ExecutedOnce'
  BY <1>1 DEF Shape, SlotOK, TextOK, HandledMessageStays, ExecutedOnce
<1>5. Storage'
  BY <1>1, <1>2 DEF Storage, OneSlotEach, StoredWasSent, UnsentIsFresh
<1>6. OnlyFailuresStay'
  BY <1>1, <1>2 DEF OnlyFailuresStay, Handling
<1>7. ASSUME NEW s \in Slots, s # slot, inbox[s] # Nobody,
             executed[inbox[s]] > failures[inbox[s]]
      PROVE  Quiet(s)'
  <2>1. text # inbox[s]
    BY <1>1, <1>7 DEF Shape, HandledMessageStays, Storage, OneSlotEach
  <2>2. Quiet(s)
    BY <1>7, <2>1 DEF Owed
  <2> QED
    BY <1>1, <2>2 DEF Quiet
<1>8. Owed'
  BY <1>1, <1>2, <1>7 DEF Owed
<1> QED
  BY <1>3, <1>4, <1>5, <1>6, <1>8

LEMMA DeleteFailsKeeps ==
    ASSUME IInv, DeleteFails
    PROVE  IInv'
<1> USE DEF IInv, DeleteFails, modemVars, bootVars
<1>1. /\ pc = "delete" /\ pc' = "idle" /\ slot \in Slots /\ text' = Nobody
      /\ UNCHANGED <<inbox, unread, urcs, sent, ril, smsok, slot, executed>>
  BY DEF Shape, SlotOK
<1>2. /\ givenUp \subseteq givenUp' /\ givenUp' \subseteq Messages
      /\ inbox[slot] = Nobody \/ inbox[slot] \in givenUp'
  BY <1>1 DEF GiveUp, TypeOK
<1>3. /\ failures' \in [Messages -> Nat]
      /\ \A m \in Messages : failures'[m] = IF m = text THEN failures[m] + 1 ELSE failures[m]
  BY SmsInboxAssumption DEF TypeOK
<1>4. TypeOK'
  BY <1>1, <1>2, <1>3 DEF TypeOK
<1>5. Shape' /\ Storage'
  BY <1>1 DEF Shape, SlotOK, TextOK, HandledMessageStays, Storage, OneSlotEach, StoredWasSent,
              UnsentIsFresh
<1>6. ASSUME NEW m \in Messages
      PROVE  executed[m] \in Nat /\ failures[m] \in Nat /\ failures'[m] \in Nat
  BY <1>3 DEF TypeOK
<1>7. ExecutedOnce'
  BY <1>1, <1>3, <1>6 DEF ExecutedOnce
<1>8. OnlyFailuresStay'
  BY <1>1, <1>2 DEF OnlyFailuresStay, Handling
<1>9. ASSUME NEW s \in Slots, inbox[s] # Nobody, executed[inbox[s]] > failures'[inbox[s]]
      PROVE  Quiet(s)'
  <2>1. inbox[s] \in Messages
    BY <1>9 DEF TypeOK
  <2>2. inbox[s] # text
    BY <1>3, <1>6, <1>9, <2>1 DEF ExecutedOnce
  <2>3. Quiet(s)
    BY <1>3, <1>9, <2>1, <2>2 DEF Owed
  <2> QED
    BY <1>1, <2>3 DEF Quiet
<1>10. Owed'
  BY <1>1, <1>9 DEF Owed
<1> QED
  BY <1>4, <1>5, <1>7, <1>8, <1>10

LEMMA StepHolds == IInv /\ [Next]_vars => IInv'
<1> SUFFICES ASSUME IInv, [Next]_vars PROVE IInv'
  OBVIOUS
<1>1. CASE UNCHANGED vars
  BY <1>1 DEF vars, modemVars, bootVars, taskVars, history, IInv, TypeOK, Shape, SlotOK, TextOK,
        HandledMessageStays, Storage, OneSlotEach, StoredWasSent, UnsentIsFresh, Owed, Quiet,
        ExecutedOnce, OnlyFailuresStay, Handling
<1>2. CASE Modem
  BY <1>2, ArriveKeeps, RestartKeeps DEF Modem
<1>3. CASE Scan \/ Poll
  BY <1>3, ScanKeeps, ScanPickKeeps DEF Scan
<1>4. CASE Handler
  BY <1>4, ReadFailsKeeps, ReadKeeps, ExecuteKeeps, DeleteKeeps, DeleteFailsKeeps DEF Handler
<1> QED
  BY <1>1, <1>2, <1>3, <1>4, RilReadyKeeps, SmsInitKeeps, TakeUrcKeeps DEF Next, Task

-----------------------------------------------------------------------------
\* The inductive invariant holds of every behaviour.
THEOREM Inductive == Spec => []IInv
  BY InitHolds, StepHolds, PTL DEF Spec

\* Every variable of the SMS channel keeps its type.
THEOREM TypeCorrect == Spec => []TypeOK
<1>1. IInv => TypeOK
  BY DEF IInv
<1> QED
  BY <1>1, Inductive, PTL

\* A command runs once, and again only for each time its deletion failed.
THEOREM RunsOnce == Spec => []ExecutedOnce
<1>1. IInv => ExecutedOnce
  BY DEF IInv
<1> QED
  BY <1>1, Inductive, PTL

\* A slot that stays taken holds a message that a failed read, a failed deletion
\* or a reset has given up.
THEOREM FailuresStay == Spec => []OnlyFailuresStay
<1>1. IInv => OnlyFailuresStay
  BY DEF IInv
<1> QED
  BY <1>1, Inductive, PTL

\* A stored command is lost unexecuted only to the cleanup or to the deletion
\* that follows an empty read.
THEOREM LossIsKnown == Spec => LostOnlyAfterEmptyRead
<1> DEFINE Lost(m, s) ==
      inbox[s] = m /\ inbox'[s] # m /\ executed[m] = 0 =>
          smsok' # smsok \/ (pc = "delete" /\ text = Nobody)
<1>1. IInv /\ [Next]_vars =>
        [\A m \in Commands, s \in Slots :
          inbox[s] = m /\ inbox'[s] # m /\ executed[m] = 0 =>
             \/ smsok' # smsok
             \/ pc = "delete" /\ text = Nobody]_vars
  <2> SUFFICES ASSUME IInv, Next, NEW m \in Commands, NEW s \in Slots
               PROVE  Lost(m, s)
    OBVIOUS
  <2>1. m # Nobody /\ inbox \in [Slots -> Messages \cup {Nobody}]
    BY SmsInboxAssumption DEF Messages, IInv, TypeOK
  <2>2. ASSUME NEW m2 \in Messages, NEW t \in Slots, NEW a \in BOOLEAN, Arrive(m2, t, a)
        PROVE  Lost(m, s)
    BY <2>1, <2>2 DEF Arrive
  <2>3. ASSUME NEW ok \in BOOLEAN, SmsInit(ok)
        PROVE  Lost(m, s)
    BY <2>3 DEF SmsInit, IInv, TypeOK
  <2>4. CASE Delete
    <3>1. CASE text # Nobody /\ s = slot /\ inbox[s] = m
      <4>1. text = m /\ executed[m] > 0
        BY <2>4, <3>1 DEF Delete, IInv, Shape, HandledMessageStays, TextOK
      <4>2. executed[m] \in Nat
        BY DEF IInv, TypeOK, Messages
      <4> QED
        BY <4>1, <4>2
    <3> QED
      BY <2>1, <2>4, <3>1 DEF Delete
  <2>5. CASE Restart \/ RilReady \/ Poll \/ Scan \/ (\E ok \in BOOLEAN : TakeUrc(ok))
             \/ ReadFails \/ ReadNothing \/ ReadMessage \/ Execute \/ DeleteFails
    <3>1. inbox' = inbox
      BY <2>5 DEF Restart, RilReady, Poll, Scan, ScanSkip, ScanPick, ScanEnd, TakeUrc, ReadFails,
                  ReadNothing, ReadMessage, Execute, DeleteFails, modemVars
    <3> QED
      BY <3>1
  <2> QED
    BY <2>2, <2>3, <2>4, <2>5 DEF Next, Modem, Task, Handler
<1> QED
  BY <1>1, Inductive, PTL DEF Spec, LostOnlyAfterEmptyRead
=============================================================================
