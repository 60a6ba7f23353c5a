----------------------------- MODULE FotaProps -----------------------------
(***************************************************************************)
(* What upgrades over the air promise, over Fota.                          *)
(***************************************************************************)
EXTENDS Fota

Reporters == {"url", "timer", "stray timer", "socket"}

MainTypeOK ==
    /\ step \in {"idle", "head", "body", "copy", "finish", "reboot", "fault"}
    /\ told \in {"none", "started", "failed", "ready"}
    /\ misled \subseteq Reporters \X {"started", "ready"}
    /\ attempt \in 0 .. MaxAttempts /\ size \in Sizes
    /\ image \in Seq(Nat)

HttpTypeOK ==
    /\ sock \in {"none", "resolving", "open"} /\ old \in BOOLEAN
    /\ response = None \/ \E n \in Sizes : response \in Responses(n)
    /\ used \in 0 .. got /\ got \in 0 .. sent /\ sent \in 0 .. Units(response)
    /\ got <= used + Buffer
    /\ hung \in BOOLEAN /\ buf \in BOOLEAN
    /\ total \in Nat /\ received \in Nat
    /\ header \in [known : BOOLEAN, length : Nat]
    /\ timer \in BOOLEAN /\ timerOn \in BOOLEAN

Letters == Characters \cup {"/", ":", "@", End, "1", "2"}

FtpTypeOK ==
    /\ target \in [Fields -> Seq(Letters)] /\ port \in Seq(Letters)
    /\ url \in Urls \cup {NoUrl} /\ before \subseteq Urls \cup {NoUrl}
    /\ getting \in BOOLEAN /\ toCopy \in Nat

TypeOK == MainTypeOK /\ HttpTypeOK /\ FtpTypeOK

Outcome == INSTANCE Upgrade
    WITH state <- IF step = "reboot" THEN "applied" ELSE told

\* Whatever segments the network makes of a response, whatever an attempt finds
\* of those before it, and whenever a timer or a socket interferes: pieces are
\* stored in order and once, only while the attempt runs, and only the whole
\* file is ready or applied.
ImplementsUpgrade == Outcome!Spec

\* Of a first attempt that goes on, no failure is reported but that of a URL
\* that cannot be decoded, when its empty name is looked up all the same. Of an
\* image that is ready only two things report one: the timer that a wait for
\* more data has started and nothing stops, and the socket nobody closes.
FalseAlarmsAreLeftovers ==
    attempt = 1 =>
        misled \subseteq {<<"url", "started">>, <<"stray timer", "ready">>,
                         <<"socket", "ready">>}

\* No URL before had a longer part of this kind.
Longest(f) == \A u \in before : Len(u[f]) <= Len(url[f])

\* The modem is sent to where the URL says, with the names it gives: always as
\* to port and password, and as to host, path, file and user unless an earlier
\* URL had a longer one. A URL that gives no user keeps the one before it.
AddressIsTheUrls ==
    getting =>
        /\ port = IF url.port = <<>> THEN DefaultPort ELSE url.port
        /\ url.password # <<>> => AsString(target.password) = url.password
        /\ Longest("host") => AsString(target.host) = url.host
        /\ Longest("path") => AsString(target.path) = Append(url.path, "/")
        /\ Longest("file") => AsString(target.file) = url.file
        /\ Longest("user") /\ url.user # <<>> => AsString(target.user) = url.user

\* Every attempt that has started comes to an end that the caller learns of, or
\* to a reset. An FTP download does so because the modem reports one; a bare URL
\* faults before its attempt starts.
EveryAttemptEnds == told = "started" ~> told # "started" \/ step = "reboot"
=============================================================================
