------------------------------ MODULE FotaFtp ------------------------------
(***************************************************************************)
(* The FTP transport of custom/fota (fota_ftp.c): the URL is cut into      *)
(* static buffers, the modem fetches the file to RAM and says so in a URC, *)
(* and the firmware copies it.                                             *)
(*                                                                         *)
(* A URL is given by its parts, an absent one empty, and its text is what  *)
(* fota_main.h says of them; ftp:// and upper case are left out. No part   *)
(* fills its buffer exactly, which would leave the buffer without an end.  *)
(***************************************************************************)
EXTENDS FotaMain

CONSTANTS
    Characters,  \* that the parts of URLs are made of
    Urls,        \* the URLs that attempts are given
    Limit,       \* FTP_SERVERADD_LEN and the like
    Chunk        \* UP_DATA_BUFFER_LEN, in pieces

Fields == {"host", "path", "file", "user", "password"}

End == "NUL"

ASSUME FtpAssumption ==
    /\ Chunk \in Nat \ {0}
    /\ Characters \cap {"/", ":", "@", End} = {}
    /\ Limit \in [Fields -> Nat]
    /\ \A u \in Urls :
          /\ DOMAIN u = Fields \cup {"port"}
          /\ \A f \in DOMAIN u \ {"path"} : u[f] \in Seq(Characters)
          /\ u.path \in Seq(Characters \cup {"/"})
          /\ u.path # <<>> => u.path[1] = "/" /\ u.path[Len(u.path)] # "/"
          /\ u.file = <<>> => u.path = <<>> /\ u.user = <<>>
          /\ u.user = <<>> => u.password = <<>>
          /\ \A f \in Fields : Len(u[f]) # Limit[f]
          /\ Len(u.path) + 1 # Limit.path

VARIABLES
    target,   \* ServerAdder, FilePath, appBin_fName, Ftp_userName, Ftp_Possword
    port,     \* SerPort, by its digits
    url,      \* history: the URL of this attempt
    before,   \* history: the URLs of attempts before it
    getting,  \* FtpGet_IND_CB is set: the modem fetches the file
    toCopy    \* filesize in DoUpgrade

ftpVars == <<target, port, url, before, getting, toCopy>>

NoUrl == [f \in Fields \cup {"port"} |-> <<>>]

Part(mark, w) == IF w = <<>> THEN <<>> ELSE <<mark>> \o w

\* hostname/filePath/fileName:port@username:password
Text(u) ==
    u.host \o (u.path \o (Part("/", u.file) \o
       (Part(":", u.port) \o (Part("@", u.user) \o Part(":", u.password)))))

-----------------------------------------------------------------------------
\* FTP_DecodeURL

\* How many characters come before the first of these marks, or the end.
Cut(t, marks) ==
    CHOOSE n \in 0 .. Len(t) :
       /\ \A k \in 1 .. n : t[k] \notin marks
       /\ n = Len(t) \/ t[n + 1] \in marks

Start(t, n) == SubSeq(t, 1, n)
Rest(t, n) == SubSeq(t, n + 1, Len(t))

\* Where the last / is, or 0.
Slash(t) ==
    CHOOSE n \in 0 .. Len(t) :
       /\ n = 0 \/ t[n] = "/"
       /\ \A k \in n + 1 .. Len(t) : t[k] # "/"

\* The rows of characters that the parser finds: the name with path and file,
\* and port, login and key with the mark before them.
Rows(t) ==
    LET name == Rest(t, Cut(t, {"/", ":"}))
        more == Rest(name, Cut(name, {":", "@"}))
        ported == more # <<>> /\ more[1] = ":"
        user == IF ported THEN Rest(more, Cut(more, {"@"})) ELSE more
    IN  [host  |-> Start(t, Cut(t, {"/", ":"})),
         name  |-> Start(name, Cut(name, {":", "@"})),
         port  |-> IF ported THEN Start(more, Cut(more, {"@"})) ELSE <<>>,
         login |-> Start(user, Cut(user, {":"})),
         key   |-> Rest(user, Cut(user, {":"}))]

Path(name) == Start(name, Slash(name) - 1)
File(name) == Rest(name, Slash(name))

\* Without a name the length of the file comes to -1, that is too much.
HostFits(r) == Len(r.host) <= Limit.host

NameFits(r) ==
    /\ r.name # <<>>
    /\ Len(File(r.name)) <= Limit.file /\ Len(Path(r.name)) <= Limit.path

LoginFits(r) ==
    IF r.key = <<>> THEN Len(r.login) <= Limit.user
    ELSE Len(r.login) - 1 <= Limit.user /\ Len(r.key) <= Limit.password

\* With neither port nor user it copies a port of length -1: a fault.
Bare(r) == r.port = <<>> /\ r.login = <<>>

Decodes(r) == HostFits(r) /\ NameFits(r) /\ LoginFits(r)

\* A copy to a static buffer: what a longer one left there stays behind it.
Overlay(old, new) == new \o SubSeq(old, Len(new) + 1, Len(old))

\* FilePath is made to end with a / whatever the outcome is.
EndPath(fields) ==
    IF fields.path # <<>> /\ fields.path[Len(fields.path)] = "/" THEN fields
    ELSE [fields EXCEPT !.path = Append(@, "/")]

\* What the buffers hold afterwards. A failure leaves those before it copied.
\* A user without password, and a password, bring the end of their string with
\* them; host, path, file and a user with password do not.
Copied(r) ==
    LET located == [target EXCEPT !.host = Overlay(@, r.host)]
        named == [located EXCEPT !.path = Overlay(@, Path(r.name)),
                                 !.file = Overlay(@, File(r.name))]
        alone == [named EXCEPT !.user = Overlay(@, Tail(Append(r.login, End)))]
        keyed == [named EXCEPT !.user = Overlay(@, Tail(r.login)),
                               !.password = Overlay(@, Tail(Append(r.key, End)))]
    IN  EndPath(IF ~HostFits(r) THEN target
                ELSE IF ~NameFits(r) THEN located
                ELSE IF Bare(r) \/ ~LoginFits(r) THEN named
                ELSE IF r.key = <<>> THEN alone
                ELSE keyed)

DefaultPort == <<"2", "1">>

\* Mutant: the port of an earlier URL is not reset.
PortKept(r) == IF r.port = <<>> THEN port ELSE Tail(r.port)

Port(r) == IF r.port = <<>> THEN DefaultPort ELSE Tail(r.port)

\* What a function of the RIL reads from a buffer.
AsString(b) == Start(b, Cut(b, {End}))

-----------------------------------------------------------------------------
InitFtp ==
    /\ target = [f \in Fields |-> <<>>] /\ port = <<>>
    /\ url = NoUrl /\ before = {}
    /\ getting = FALSE /\ toCopy = 0

\* FTP_FotaMain: the commands to the modem block, so that it runs to its end.
\* The URL cannot be decoded, five attempts to open fail, or the get is
\* refused; or the modem fetches.
StartFtp(u) ==
    /\ Begin /\ misled' = {}
    /\ image' = <<>>
    /\ url' = u /\ before' = before \cup {url}
    /\ LET r == Rows(Text(u))
       IN  /\ target' = Copied(r)
           /\ port' = Port(r)
           /\ IF HostFits(r) /\ NameFits(r) /\ Bare(r)
                THEN told' = "none" /\ step' = "fault" /\ UNCHANGED getting
                ELSE \/ Failed /\ getting' = FALSE
                     \/ Decodes(r) /\ Started /\ getting' = TRUE
    /\ UNCHANGED toCopy

\* FTP_Callback_OnDownload up to the copy. The get may have failed, the file
\* be missing, or memory for the copy. That its size or handle is an error code
\* goes unnoticed, both being unsigned: the first read fails.
Downloaded ==
    /\ step = "idle" /\ getting
    /\ getting' = FALSE
    /\ \/ Failed /\ UNCHANGED toCopy
       \/ step' = "copy" /\ toCopy' = size /\ UNCHANGED told
    /\ UNCHANGED <<misled, attempt, size, image, target, port, url, before>>

\* DoUpgrade: one read and one write.
Copy(n) ==
    /\ step = "copy" /\ n <= toCopy
    /\ \/ Failed /\ toCopy' = 0 /\ UNCHANGED image
       \/ /\ image' = image \o [i \in 1 .. n |-> size - toCopy + i]
          /\ toCopy' = toCopy - n
          /\ step' = IF toCopy' = 0 THEN "finish" ELSE "copy"
          /\ UNCHANGED told
    /\ UNCHANGED <<misled, attempt, size, target, port, url, before, getting>>

FtpNext ==
    \/ \E u \in Urls : StartFtp(u)
    \/ Downloaded
    \/ \E n \in 1 .. Chunk : Copy(n)
=============================================================================
