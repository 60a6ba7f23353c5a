---------------------------- MODULE MCSmsCommand ----------------------------
(***************************************************************************)
(* SmsCommand on small texts: numbers written in every form the code tells *)
(* apart, and commands whose fields are right, unlisted, empty or torn, or *)
(* of the last length that fits and of the next one.                       *)
(***************************************************************************)
EXTENDS SmsCommandProps

MCCharacters == STRING

MCCC == <<"9", "8">>

MCOwner == <<"+", "9", "8", "1">>

\* The subscriber's number without +, of which n characters are dashes.
Dashed(n) == <<"9", "8">> \o [i \in 1 .. n |-> "-"] \o <<"1">>

\* One subscriber in four forms, a number that differs from his by the 0, one
\* whose international form is too long, and nobody's.
MCNumbers ==
    {<<"+", "9", "8", "1">>, Dashed(5), <<"0", "1">>,
     <<"+", "0", "1">>, <<"1">>, <<"0", "1", "1", "1">>, <<"x">>}

Fields ==
    {<<"1">>, <<"0", "1">>, <<"Relay1">>, <<"6">>, <<"phone1">>,
     <<"7">>, <<"9">>, <<"5">>, <<"Relay-1">>, <<>>}

SetTo(c, name, v) == c \o <<",">> \o name \o <<",">> \o v

\* Fields as they should be and as they should not.
MCMessages ==
    {SetTo(<<"S">>, name, v) : name \in Fields, v \in {<<"1">>, <<"0", "1">>}}
    \cup {SetTo(<<"s">>, name, <<"0", "!">>) : name \in {<<"1">>, <<"5">>}}
    \cup {SetTo(<<"S">>, <<"phone2">>, v) : v \in {<<"0", "1">>, <<"x">>}}
    \cup {SetTo(c, <<"5">>, <<"1">>) :
            c \in {<<"S", "x">>, <<",", "S">>, <<" ", "S">>, <<"G">>}}
    \cup {SetTo(<<"S">>, <<"1">>, v) :
            v \in {<<>>, <<",">>, <<",", "1">>, <<"1", ",", "0">>,
                   <<"1", "!", "!">>, <<"+", "9", "8", "1">>}}
    \cup {SetTo(<<"S">>, <<"6">>, Dashed(n)) : n \in {5, 6}}
    \cup {<<"G", ",", "1", "!">>, <<"S", "!">>, <<" ">>}

MCLines ==
    {SetTo(<<"S">>, <<"1", "5">>, v \o <<"!">>) : v \in MCNumbers}
    \cup {SetTo(<<"S">>, <<"1", "7">>, <<"x", "!">>),
          SetTo(<<"S">>, <<"Relay-1">>, <<"2", "5", "5", "!">>),
          <<"G", ",", "7", "!">>}
=============================================================================
