-------------------------- MODULE SmsCommandProps --------------------------
(***************************************************************************)
(* What the commands by SMS promise, over SmsCommand.                      *)
(***************************************************************************)
EXTENDS SmsCommand

TypeOK ==
    /\ DOMAIN table = Keys
    /\ \A k \in StringKeys : table[k] \in Text
    /\ \A k \in Keys \ (StringKeys \cup {3}) : table[k] \in -(2^7) .. 2^7 - 1
    /\ table[3] \in -(2^15) .. 2^15 - 1
    /\ message.from \in Text /\ message.text \in Text

-----------------------------------------------------------------------------
\* When two ways of writing a number mean the same subscriber, said without
\* the candidates of the code: the country code stands for the leading 0 of a
\* national number, and the + may be missing. A stored "+0..." is taken for
\* the national number with a + typed before it.

\* The digits that the buffer keeps.
Digits(t) ==
    LET n == Sanitized(t) IN IF n # <<>> /\ Head(n) = "+" THEN Tail(n) ELSE n

International(t) ==
    LET d == Digits(t)
    IN  IF Sanitized(t)[1] = "0" /\ Len(d) > 1 THEN CC \o Tail(d) ELSE d

SameSubscriber(a, b) ==
    /\ Sanitized(a) # <<>> /\ Sanitized(b) # <<>>
    /\ Digits(a) = Digits(b) \/ International(a) = International(b)

IsOwner(from) == \E k \in PhoneKeys : SameSubscriber(from, table[k])

Handled == message # Nothing /\ message' = Nothing

\* A message changes a parameter only if one of the three numbers, as they are
\* when the message is handled, is its sender, whatever was set before and in
\* whatever form the numbers were written.
OnlyOwnersCommand ==
    [][Handled /\ table' # table => IsOwner(message.from)]_vars

-----------------------------------------------------------------------------
\* How an owner can write the number or the name of entry i.
NamesOf(i) == {<<Figure[i]>>, <<ListMap[i].alias>>}

SettingText(c, name, v, end) == <<c, ",">> \o name \o <<",">> \o v \o end

\* The texts that set entry i of the list to v.
TextsToSet(i, v) ==
    {SettingText(c, name, v, end) :
       c \in {"S", "s"}, end \in {<<>>, <<"!">>}, name \in NamesOf(i)}

Switched == [v \in {<<"0">>, <<"1">>} |-> Digit[v[1]]]

\* A value that neither the translation nor the parser cuts.
Plain(v) == v # <<>> /\ \A j \in DOMAIN v : v[j] \notin {",", "!", " "}

\* The text leaves room for a terminator and a second digit, and the sender's
\* number for the country code.
Fits(m) ==
    /\ Size(m.text) + 2 < MaxCommand
    /\ Len(Sanitized(m.from)) + Len(CC) < MaxPhone \/ Head(m.from) = "+"

\* An owner who sets a line of the list, under its number or its name, sets
\* the parameter that the list shows there and no other, to the value he
\* wrote: the translation and the parser agree on every text between them, up to
\* the last length that fits.
OwnersSetWhatIsListed ==
    [][Handled /\ IsOwner(message.from) /\ Fits(message) =>
         \A i \in DOMAIN ListMap :
           LET k == ListMap[i].key
           IN  IF k \in PhoneKeys
                 THEN \A v \in Numbers :
                        Plain(v) /\ message.text \in TextsToSet(i, v)
                          => table' = [table EXCEPT ![k] = v]
                 ELSE \A v \in DOMAIN Switched :
                        message.text \in TextsToSet(i, v)
                          => table' = [table EXCEPT ![k] = Switched[v]]]_vars

\* How a message can name entry i: its number, after any 0s, or its name. A
\* number of ten digits or more is whatever Ql_atoi makes of it.
NamesEntry(token, i) ==
    \/ token = <<ListMap[i].alias>>
    \/ token # <<>> /\ Last(token) = Figure[i]
       /\ \A j \in 1 .. Len(token) - 1 : token[j] = "0"
    \/ Len(token) > 9 /\ OutOfRange(token) = i

Names(text, i) ==
    \E n \in 3 .. Len(text) - 1 :
       NamesEntry(SubSeq(text, 3, n), i) /\ text[n + 1] = ","

\* A message that addresses a parameter changes none but the line of the list
\* that it names, whatever its other fields hold: the numbers and the names of
\* the parser, which mean other parameters, do not get through the translation.
OnlyTheNamedLineChanges ==
    [][Handled /\ Addressed(Trimmed(message.text)) =>
         \A k \in Keys : table'[k] # table[k] =>
           \E i \in DOMAIN ListMap :
              ListMap[i].key = k /\ Names(Trimmed(message.text), i)]_vars
=============================================================================
