----------------------------- MODULE SmsCommand -----------------------------
(***************************************************************************)
(* What a command message does: the check of its sender (sms_auth.c,       *)
(* sms_phone.c), the translation of the keys that SMS users see to those   *)
(* of the parser (sms_compact.c), and the parser itself (com/com.c), which *)
(* the serial port shares. The phone numbers that decide who is heard are  *)
(* parameters, set by the same commands.                                   *)
(*                                                                         *)
(* A text is a sequence of characters; a word that is only compared as a   *)
(* whole (a name, an alias) is one element. What does not fit a buffer is  *)
(* rejected, cut or dropped as the code does it; that two of the buffers   *)
(* are one or two bytes too short for what is rejected later (sms_phone.c, *)
(* line 111, sms_compact.c, line 240) is left out.                         *)
(***************************************************************************)
EXTENDS Integers, Sequences, FiniteSets, SequencesExt

CONSTANTS
    Characters, \* what a text is made of, the words included
    Numbers,    \* what the sender field of a message can hold
    Messages,   \* texts sent by SMS
    Lines,      \* commands given over the serial port
    CC,         \* SMS_DEFAULT_CC
    Owner,      \* default value of the phone parameters
    MaxCommand, \* COM_CMD_MAX_LEN
    MaxKey,     \* sizeof(key_token)
    MaxPhone    \* SMS_PHONE_MAX_LEN

Text == Seq(Characters)

Figure ==
    [d \in 0 .. 9 |->
       <<"0", "1", "2", "3", "4", "5", "6", "7", "8", "9">>[d + 1]]

Figures == {Figure[d] : d \in DOMAIN Figure}

\* g_sms_list_map: the alias and the parameter of each number.
ListMap ==
    <<[alias |-> "Relay1", key |-> 7], [alias |-> "Relay2", key |-> 8],
      [alias |-> "Relay3", key |-> 9], [alias |-> "Relay4", key |-> 10],
      [alias |-> "power", key |-> 6], [alias |-> "phone1", key |-> 15],
      [alias |-> "phone2", key |-> 16], [alias |-> "phone3", key |-> 17]>>

\* The country code is a number that does not start with 0, the keys of the list
\* fit their buffer, and a number of one character fits its own.
ASSUME SmsCommandAssumption ==
    /\ Figures \cup {"S", "s", "G", "g", "+", ",", "!"} \subseteq Characters
    /\ \A i \in DOMAIN ListMap : ListMap[i].alias \in Characters
    /\ Numbers \subseteq Text /\ Messages \subseteq Text /\ Lines \subseteq Text
    /\ Owner \in Text
    /\ CC \in Seq(Figures) /\ CC # <<>> /\ Head(CC) # "0"
    /\ MaxCommand \in Nat /\ MaxKey \in Nat /\ MaxPhone \in Nat
    /\ MaxKey > 6 /\ MaxPhone > 1

Nothing == [from |-> <<>>, text |-> <<>>]

VARIABLES
    table,      \* the value of each parameter
    message     \* the message read by sms_handle_new_sms, or Nothing

vars == <<table, message>>

-----------------------------------------------------------------------------
\* ParamKey_e and g_param_config

ParamName ==
    [k \in 0 .. 17 |->
       <<"apn", "mqtt host", "device id", "mqtt port", "io state", "net rssi",
         "power", "Relay-1", "Relay-2", "Relay-3", "Relay-4", "io exp in0",
         "io exp in1", "io exp in2", "io exp in3", "phone 1", "phone 2",
         "phone 3">>[k + 1]]

Keys == DOMAIN ParamName

PhoneKeys == 15 .. 17

StringKeys == 0 .. 2 \cup PhoneKeys

Default(k) ==
    IF k \in PhoneKeys THEN Owner ELSE IF k \in StringKeys THEN <<>> ELSE 0

-----------------------------------------------------------------------------
\* Text

Digit == [c \in Figures |-> CHOOSE d \in DOMAIN Figure : Figure[d] = c]

IsDigit(c) == c \in Figures

\* The decimal of %d, up to the number of parameters.
Decimal(n) ==
    IF n < 10 THEN <<Figure[n]>> ELSE <<Figure[n \div 10], Figure[n % 10]>>

\* The characters that an element stands for: those of a word, or itself.
Width(c) ==
    CASE c = "apn" -> 3
      [] c = "power" -> 5
      [] c \in {"Relay1", "Relay2", "Relay3", "Relay4", "phone1", "phone2",
                "phone3"} -> 6
      [] c \in {"Relay-1", "Relay-2", "Relay-3", "Relay-4", "phone 1",
                "phone 2", "phone 3"} -> 7
      [] c \in {"io state", "net rssi"} -> 8
      [] c \in {"mqtt host", "device id", "mqtt port"} -> 9
      [] c \in {"io exp in0", "io exp in1", "io exp in2", "io exp in3"} -> 10
      [] OTHER -> 1

\* Ql_strlen
Size(t) ==
    LET size[i \in 0 .. Len(t)] ==
          IF i = 0 THEN 0 ELSE size[i - 1] + Width(t[i])
    IN  size[Len(t)]

\* sms_trim_text
Trimmed(t) ==
    LET solid == {i \in DOMAIN t : t[i] # " "}
    IN  IF solid = {} THEN <<>>
        ELSE SubSeq(t, CHOOSE i \in solid : \A j \in solid : i <= j,
                       CHOOSE i \in solid : \A j \in solid : i >= j)

\* The numbers that Ql_atoi surely holds. What it makes of a text with a longer
\* one is not known.
AtoiLimit == 1000000000

OutOfRange(t) == (CHOOSE f \in [Text -> Int] : TRUE)[t]

\* What the digits up to the first other character stand for.
Natural(t) ==
    LET value[i \in 0 .. Len(t)] ==
          IF i = 0 THEN 0
          ELSE IF \A j \in 1 .. i : IsDigit(t[j])
            THEN 10 * value[i - 1] + Digit[t[i]]
            ELSE value[i - 1]
    IN  value[Len(t)]

\* Ql_atoi: blanks, a sign and the number.
Atoi(t) ==
    LET text == Trimmed(t)
        signed == text # <<>> /\ Head(text) \in {"+", "-"}
        size == Natural(IF signed THEN Tail(text) ELSE text)
    IN  IF size >= AtoiLimit THEN OutOfRange(t)
        ELSE IF signed /\ Head(text) = "-" THEN -size
        ELSE size

\* The conversions (s8) and (s16).
Signed(n, range) == ((n + range \div 2) % range) - range \div 2

-----------------------------------------------------------------------------
\* Senders

\* sms_sanitize_phone
Sanitized(t) ==
    LET kept[i \in 0 .. Len(t)] ==
          IF i = 0 THEN <<>>
          ELSE LET output == kept[i - 1]
               IN  IF /\ IsDigit(t[i]) \/ (t[i] = "+" /\ output = <<>>)
                      /\ Len(output) < MaxPhone - 1
                     THEN Append(output, t[i]) ELSE output
    IN  kept[Len(t)]

\* sms_add_candidate: what is too long is dropped.
Short(forms) == {n \in forms : Len(n) < MaxPhone}

\* Mutant: a national number is also compared without its leading 0.
ShortCandidates(t) ==
    LET n == Sanitized(t)
    IN  IF n = <<>> THEN {}
        ELSE IF Head(n) = "+" THEN {n}
        ELSE Short({n, <<"+">> \o n}
                   \cup IF Head(n) = "0" /\ Len(n) > 1
                         THEN {Tail(n), <<"+">> \o CC \o Tail(n)} ELSE {})

\* Mutant: the forms are cut to the size of the buffer less one.
NarrowCandidates(t) ==
    LET n == Sanitized(t)
    IN  IF n = <<>> THEN {}
        ELSE IF Head(n) = "+" THEN {n}
        ELSE {m \in Short({n, <<"+">> \o n}
                            \cup IF Head(n) = "0" /\ Len(n) > 1
                                  THEN {<<"+">> \o CC \o Tail(n)} ELSE {}) :
                Len(m) < MaxPhone - 1}

\* sms_build_candidates: the forms under which a number is known.
Candidates(t) ==
    LET n == Sanitized(t)
    IN  IF n = <<>> THEN {}
        ELSE IF Head(n) = "+" THEN {n}
        ELSE Short({n, <<"+">> \o n}
                   \cup IF Head(n) = "0" /\ Len(n) > 1
                         THEN {<<"+">> \o CC \o Tail(n)} ELSE {})

\* sms_is_authorized_sender
Authorized(sender) ==
    \E k \in PhoneKeys : Candidates(sender) \cap Candidates(table[k]) # {}

-----------------------------------------------------------------------------
\* The translation of SMS keys

\* sms_find_map_key: the entries that a token names. An alias in any case of
\* letters is the same word here.
Entries(token) ==
    {i \in DOMAIN ListMap :
       \/ (\A j \in DOMAIN token : IsDigit(token[j])) /\ Atoi(token) = i
       \/ token = <<ListMap[i].alias>>}

\* The first field of a text and what follows it.
Field(t, ends) ==
    LET stops == {i \in DOMAIN t : t[i] \in ends}
        end == IF stops = {} THEN Len(t) + 1
               ELSE CHOOSE i \in stops : \A j \in stops : i <= j
    IN  [is |-> SubSeq(t, 1, end - 1), rest |-> SubSeq(t, end, Len(t))]

Addressed(t) ==
    Len(t) >= 2 /\ t[1] \in {"G", "g", "S", "s"} /\ t[2] = ","

Rejected == <<>>

\* Mutant: a key that is not listed is left to the parser.
LenientTranslate(t) ==
    LET key == Field(SubSeq(t, 3, Len(t)), {",", "!"})
        value == Field(Tail(key.rest), {"!"})
        entries == Entries(key.is)
        number == Decimal(ListMap[CHOOSE i \in entries : TRUE].key)
    IN  IF ~Addressed(t) \/ entries = {} THEN t
        ELSE IF t[1] \in {"G", "g"}
          THEN IF key.rest = <<"!">> THEN <<"G", ",">> \o number \o <<"!">>
                                     ELSE Rejected
        ELSE IF key.rest[1] = "," /\ value.is # <<>> /\ value.rest = <<"!">>
          THEN <<"S", ",">> \o number \o <<",">> \o value.is \o <<"!">>
          ELSE Rejected

\* sms_translate_param_command: the command for the parser, or Rejected.
Translate(t) ==
    LET key == Field(SubSeq(t, 3, Len(t)), {",", "!"})
        value == Field(Tail(key.rest), {"!"})
        entries == Entries(key.is)
        number == Decimal(ListMap[CHOOSE i \in entries : TRUE].key)
    IN  IF ~Addressed(t) THEN t
        ELSE IF key.is = <<>> \/ Size(key.is) >= MaxKey \/ entries = {}
                  \/ key.rest = <<>>
          THEN Rejected
        ELSE IF t[1] \in {"G", "g"}
          THEN IF key.rest = <<"!">> THEN <<"G", ",">> \o number \o <<"!">>
                                     ELSE Rejected
        ELSE IF key.rest[1] = "," /\ value.is # <<>> /\ value.rest = <<"!">>
          THEN <<"S", ",">> \o number \o <<",">> \o value.is \o <<"!">>
          ELSE Rejected

-----------------------------------------------------------------------------
\* The parser

\* The tokens that simple_strtok finds: it skips empty ones.
Tokens(t) ==
    LET tokens[i \in 0 .. Len(t)] ==
          IF i = 0 THEN <<>>
          ELSE LET found == tokens[i - 1]
               IN  IF t[i] = "," THEN found
                   ELSE IF i = 1 \/ t[i - 1] = "," THEN Append(found, <<t[i]>>)
                   ELSE [found EXCEPT ![Len(found)] = Append(@, t[i])]
    IN  tokens[Len(t)]

\* parse_param_key: the parameters that a token names, none or one.
KeyOf(token) ==
    IF IsDigit(Head(token)) /\ Atoi(token) \in Keys THEN {Atoi(token)}
    ELSE {k \in Keys : token = <<ParamName[k]>>}

\* Mutant: a number is not cut to the width of its parameter.
UncutValue(k, t) == IF k \in StringKeys THEN t ELSE Atoi(t)

\* The value that cmd_set_parameter passes to the setter of the type.
ValueFor(k, t) ==
    IF k \in StringKeys THEN t
    ELSE IF k = 3 THEN Signed(Atoi(t), 2^16) ELSE Signed(Atoi(t), 2^8)

\* com_process_command_internal: only S changes a parameter.
Process(t) ==
    LET command == IF t # <<>> /\ t[Len(t)] = "!" THEN Front(t) ELSE t
        tokens == Tokens(command)
    IN  IF Size(t) < MaxCommand /\ Len(tokens) >= 3 /\ tokens[1][1] \in {"S", "s"}
          THEN table' = [k \in Keys |-> IF k \in KeyOf(tokens[2])
                                          THEN ValueFor(k, tokens[3])
                                          ELSE table[k]]
          ELSE UNCHANGED table

-----------------------------------------------------------------------------
Init ==
    /\ table = [k \in Keys |-> Default(k)]
    /\ message = Nothing

\* A message is read from the storage of the modem. The task handles nothing
\* else until it has dealt with it.
ReadSms(from, text) ==
    /\ message = Nothing
    /\ message' = [from |-> from, text |-> text]
    /\ UNCHANGED table

\* The terminator is added where there is room for it.
Terminated(t) ==
    IF t[Len(t)] = "!" \/ Size(t) >= MaxCommand - 1 THEN t ELSE Append(t, "!")

\* sms_handle_new_sms, from the text on.
HandleSms ==
    /\ message # Nothing
    /\ message' = Nothing
    /\ LET text == Trimmed(message.text)
       IN  IF \/ Size(message.text) >= MaxCommand \/ text = <<>>
              \/ ~Authorized(message.from)
             THEN UNCHANGED table
           ELSE LET command == Translate(Terminated(text))
                IN  IF command = Rejected THEN UNCHANGED table
                                          ELSE Process(command)

\* A command from the serial port.
Serial(line) ==
    /\ message = Nothing
    /\ Process(line)
    /\ UNCHANGED message

Next ==
    \/ \E from \in Numbers, text \in Messages : ReadSms(from, text)
    \/ HandleSms
    \/ \E line \in Lines : Serial(line)

Spec == Init /\ [][Next]_vars
=============================================================================
