------------------------------- MODULE MCFota -------------------------------
(***************************************************************************)
(* Fota with small URLs: with and without port, user and password, longer  *)
(* in host, path or user than another, too long, without a file, and bare. *)
(***************************************************************************)
EXTENDS FotaProps

Url(host, path, file, at, user, password) ==
    [host |-> host, path |-> path, file |-> file, port |-> at, user |-> user,
     password |-> password]

MCUrls ==
    {Url(<<"h">>, <<"/", "p">>, <<"f">>, <<"2">>, <<"u", "u">>, <<"w">>),
     Url(<<"g", "h">>, <<"/", "p">>, <<"f">>, <<>>, <<"v">>, <<"w">>),
     Url(<<"h">>, <<"/", "p", "p">>, <<"f">>, <<>>, <<"v">>, <<>>),
     Url(<<"h">>, <<>>, <<"f">>, <<"2">>, <<>>, <<>>),
     Url(<<"h">>, <<>>, <<"f", "f", "f", "f">>, <<>>, <<"v">>, <<"w">>),
     Url(<<"g", "h">>, <<>>, <<>>, <<"2">>, <<>>, <<>>),
     Url(<<"h">>, <<>>, <<"f">>, <<>>, <<>>, <<>>)}

MCLimit == [host |-> 3, path |-> 5, file |-> 3, user |-> 4, password |-> 3]
=============================================================================
