----------------------------- MODULE FotaProofs -----------------------------
(***************************************************************************)
(* Proofs about Fota, for files of any sizes, any number of attempts,      *)
(* buffers and chunks of any size and any URLs.                            *)
(***************************************************************************)
EXTENDS FotaProps, FiniteSetTheorems, SequenceTheorems, TLAPS

\* Which transport an attempt is in, and where in it.
Phases ==
    /\ step = "head" => buf /\ total = 0
    /\ step = "body" => buf /\ total # 0
    /\ step \in {"copy", "finish"} => told = "started" /\ ~getting
    /\ buf => told = "started" /\ ~getting /\ step \in {"idle", "head", "body"}
    /\ getting => told = "started" /\ step = "idle"
    /\ sock = "resolving" =>
          told = "started" /\ step = "idle" /\ ~buf /\ ~getting

\* What has been made of the response: of its lines nothing was written, and
\* after them each piece once.
HttpImage ==
    /\ sock = "resolving" => total = 0 /\ image = <<>>
    /\ buf => response \in Responses(size)
    /\ buf /\ total = 0 =>
          /\ image = <<>>
          /\ HeaderEnds(got) = {}
          /\ used = Cardinality(Decoded(got))
    /\ buf /\ total # 0 =>
          /\ Len(response.lines) <= used
          /\ image = Whole(used - Len(response.lines))
    /\ header.known => header.length > 0

FtpImage ==
    /\ getting => image = <<>>
    /\ step = "copy" => toCopy <= size /\ image = Whole(size - toCopy)

\* What can interfere in the first attempt: nothing, unless it made it itself.
NothingLeft ==
    /\ attempt = 0 => told = "none" /\ sock = "none" /\ ~timer
    /\ attempt <= 1 => ~old
    /\ attempt = 1 /\ told = "started" /\ step = "idle" /\ ~buf =>
          sock # "open" /\ ~timer
    /\ attempt <= 1 /\ timerOn =>
          step = "idle" /\ (told = "failed" \/ (told = "started" /\ buf))

\* As far as a buffer holds no end, some URL had a part as long; and so far the
\* path, but for the / put after it.
Buffers ==
    /\ \A f \in {"host", "file", "user"} : \A i \in 1 .. Len(target[f]) :
          target[f][i] # End => \E v \in before \cup {url} : i <= Len(v[f])
    /\ \A i \in 1 .. Len(target.path) :
          \E v \in before \cup {url} :
             i <= Len(v.path) \/ (target.path[i] = "/" /\ i = Len(v.path) + 1)

IInv ==
    /\ TypeOK
    /\ Phases
    /\ HttpImage
    /\ FtpImage
    /\ NothingLeft /\ FalseAlarmsAreLeftovers
    /\ Buffers /\ AddressIsTheUrls

-----------------------------------------------------------------------------
\* Responses and their headers

Lines == {"1xx", "2xx", "3xx", "length", "chunked", "end", "part"}

\* A blank line ends the header, or it is the second and ends an interim one.
LEMMA ResponseShape ==
    ASSUME NEW n \in Nat \ {0}, NEW r \in Responses(n)
    PROVE  /\ r.lines \in Seq(Lines) /\ r.length \in Nat /\ r.pieces \in 0 .. n
           /\ \A q \in DOMAIN r.lines : r.lines[q] = "length" => r.length > 0
           /\ \A q \in DOMAIN r.lines : r.lines[q] = "end" =>
                 q = Len(r.lines) \/ (q = 2 /\ r.lines[1] = "1xx")
<1> DEFINE parts == [i \in 1 .. Buffer + 1 |-> "part"]
           answer(lines, length, pieces) ==
              [lines |-> lines, length |-> length, pieces |-> pieces]
<1>1. ASSUME NEW long, long = <<"2xx">> \o parts, r = answer(long, n, 0)
      PROVE  /\ r.lines \in Seq(Lines) /\ r.length \in Nat /\ r.pieces \in 0 .. n
             /\ \A q \in DOMAIN r.lines : r.lines[q] \notin {"length", "end"}
  <2>1. /\ parts \in Seq({"2xx", "part"}) /\ <<"2xx">> \in Seq({"2xx", "part"})
        /\ parts \in Seq(Lines) /\ <<"2xx">> \in Seq(Lines)
    BY BufferAssumption DEF Lines
  <2>2. <<"2xx">> \o parts \in Seq(Lines)
    BY ONLY <2>1, ConcatProperties
  <2>3. <<"2xx">> \o parts \in Seq({"2xx", "part"})
    BY ONLY <2>1, ConcatProperties
  <2> HIDE DEF parts
  <2>4. long \in Seq(Lines) /\ long \in Seq({"2xx", "part"})
    BY <1>1, <2>2, <2>3
  <2>5. \A q \in DOMAIN long : long[q] \in {"2xx", "part"}
    BY <2>4
  <2>6. r.lines = long /\ r.length = n /\ r.pieces = 0
    BY ONLY <1>1
  <2>7. QED
    BY <2>4, <2>5, <2>6
<1>2. CASE r = answer(<<"1xx", "end", "2xx", "length", "end">>, n, n)
  BY <1>2 DEF Lines
<1>3. CASE \E m \in {n, n - 1} : r = answer(<<"2xx", "length", "end">>, n, m)
  BY <1>3 DEF Lines
<1>4. CASE r = answer(<<"2xx", "end">>, n, n)
  BY <1>4 DEF Lines
<1>5. CASE r = answer(<<"2xx", "chunked", "end">>, n, n)
  BY <1>5 DEF Lines
<1>6. CASE r = answer(<<"3xx", "end">>, n, 0)
  BY <1>6 DEF Lines
<1>7. QED
  BY <1>1, <1>2, <1>3, <1>4, <1>5, <1>6 DEF Responses

LEMMA EndIsLast ==
    ASSUME size \in Sizes, response \in Responses(size),
           NEW q \in DOMAIN response.lines, HeaderEnd(q)
    PROVE  q = Len(response.lines)
<1>1. size \in Nat \ {0}
  BY FotaAssumption
<1>2. response.lines[q] = "end" /\ StatusAt(q) # "1xx"
  BY DEF HeaderEnd
<1>3. CASE q = 2 /\ response.lines[1] = "1xx"
  <2>1. {p \in 1 .. 2 : response.lines[p] \in {"1xx", "2xx", "3xx"}} = {1}
    BY <1>2, <1>3
  <2>2. (CHOOSE p \in {1} : \A r \in {1} : r <= p) = 1
    OBVIOUS
  <2>3. StatusAt(2) = "1xx"
    BY <1>3, <2>1, <2>2 DEF StatusAt
  <2>4. QED BY <1>2, <1>3, <2>3
<1>4. QED
  BY <1>1, <1>2, <1>3, ResponseShape

\* The decoder never counts more lines than have arrived.
LEMMA DecodedCount ==
    ASSUME response.lines \in Seq(Lines), NEW p \in Nat
    PROVE  /\ Cardinality(Decoded(p)) \in 0 .. p
           /\ \A q \in Nat : p <= q =>
                 Cardinality(Decoded(p)) <= Cardinality(Decoded(q))
<1>1. \A q \in Nat : Decoded(q) \in SUBSET (1 .. q)
  BY DEF Decoded
<1>2. \A q \in Nat : IsFiniteSet(1 .. q) /\ Cardinality(1 .. q) = q
  BY FS_Interval
<1>3. \A q \in Nat : /\ IsFiniteSet(Decoded(q))
                     /\ Cardinality(Decoded(q)) \in Nat
                     /\ Cardinality(Decoded(q)) <= q
  BY <1>1, <1>2, FS_Subset, FS_CardinalityType
<1>4. \A q \in Nat : p <= q => Decoded(p) \in SUBSET Decoded(q)
  BY DEF Decoded
<1>5. \A q \in Nat :
         p <= q => Cardinality(Decoded(p)) <= Cardinality(Decoded(q))
  BY <1>3, <1>4, FS_Subset
<1>6. QED
  BY <1>3, <1>5

\* What httpheader holds stays a header, and a length that is known is one.
LEMMA HeaderAfterShape ==
    ASSUME size \in Sizes, response \in Responses(size), NEW p,
           header \in [known : BOOLEAN, length : Nat],
           header.known => header.length > 0
    PROVE  /\ HeaderAfter(p) \in [known : BOOLEAN, length : Nat]
           /\ HeaderAfter(p).known => HeaderAfter(p).length > 0
<1>1. size \in Nat \ {0}
  BY FotaAssumption
<1>2. response.length \in Nat
      /\ \A q \in Decoded(p) : response.lines[q] = "length" => response.length > 0
  BY <1>1, ResponseShape DEF Decoded
<1>3. CASE \E q \in Decoded(p) : response.lines[q] = "length"
  BY <1>2, <1>3 DEF HeaderAfter
<1>4. CASE /\ ~\E q \in Decoded(p) : response.lines[q] = "length"
           /\ \E q \in Decoded(p) : response.lines[q] = "chunked"
  <2>1. HeaderAfter(p) = [header EXCEPT !.known = FALSE]
    BY <1>4 DEF HeaderAfter
  <2>2. QED BY <2>1
<1>5. CASE /\ ~\E q \in Decoded(p) : response.lines[q] = "length"
           /\ ~\E q \in Decoded(p) : response.lines[q] = "chunked"
  BY <1>5 DEF HeaderAfter
<1>6. QED
  BY <1>3, <1>4, <1>5

-----------------------------------------------------------------------------
\* Pieces and fields

LEMMA WholeGrows ==
    ASSUME NEW k \in Nat, NEW n \in Nat
    PROVE  /\ Whole(k) \in Seq(Nat) /\ Len(Whole(k)) = k
           /\ Whole(k) \o [i \in 1 .. n |-> k + i] = Whole(k + n)
<1>1. Whole(k) \in Seq(Nat) /\ Len(Whole(k)) = k
  BY DEF Whole
<1>2. DEFINE more == [i \in 1 .. n |-> k + i]
<1>3. more \in Seq(Nat) /\ Len(more) = n
  OBVIOUS
<1>4. Whole(k + n) \in Seq(Nat) /\ Len(Whole(k + n)) = k + n
  BY DEF Whole
<1> HIDE DEF more
<1>5. /\ Whole(k) \o more \in Seq(Nat)
      /\ Len(Whole(k) \o more) = Len(Whole(k)) + Len(more)
      /\ \A i \in 1 .. Len(Whole(k)) + Len(more) : (Whole(k) \o more)[i] =
            IF i <= Len(Whole(k)) THEN Whole(k)[i] ELSE more[i - Len(Whole(k))]
  BY ONLY <1>1, <1>3, ConcatProperties
<1> USE DEF more
<1>6. /\ Len(Whole(k) \o more) = Len(Whole(k + n))
      /\ \A i \in 1 .. Len(Whole(k) \o more) :
            (Whole(k) \o more)[i] = Whole(k + n)[i]
  <2>1. \A i \in 1 .. k + n :
           Whole(k + n)[i] = IF i <= k THEN Whole(k)[i] ELSE more[i - k]
    BY DEF Whole
  <2> HIDE DEF more
  <2>2. QED
    BY <1>1, <1>3, <1>4, <1>5, <2>1
<1> HIDE DEF more
<1>7. Whole(k) \o more = Whole(k + n)
  BY ONLY <1>4, <1>5, <1>6, SeqEqual
<1> USE DEF more
<1>8. QED
  BY <1>1, <1>7

-----------------------------------------------------------------------------
\* The parser

LEMMA SubSeqIs ==
    ASSUME NEW S, NEW t \in Seq(S), NEW w \in Seq(S), NEW a \in Nat, NEW b \in Nat,
           b <= Len(t), Len(w) = b - a,
           \A i \in 1 .. Len(w) : w[i] = t[a + i]
    PROVE  SubSeq(t, a + 1, b) = w
<1> DEFINE n == Len(w)
           c == a + 1
           x == SubSeq(t, c, b)
<1>1. n \in Nat /\ n = b - a /\ c \in Int /\ b \in Int /\ c = a + 1
  OBVIOUS
<1>2. \A i \in c .. b : t[i] \in S
  BY LenProperties
<1> HIDE DEF n, c
<1>3. x \in Seq(S) /\ Len(x) = (IF c <= b THEN b - c + 1 ELSE 0)
      /\ \A i \in 1 .. b - c + 1 : x[i] = t[c + i - 1]
  BY ONLY <1>1, <1>2, SubSeqProperties
<1> HIDE DEF x
<1>4. Len(x) = n
  BY ONLY <1>1, <1>3, a \in Nat, b \in Nat
<1>5. ASSUME NEW i \in 1 .. n
      PROVE  x[i] = w[i]
  <2>1. c + i - 1 = a + i /\ i \in 1 .. b - c + 1
    BY ONLY <1>1, a \in Nat, b \in Nat, i \in 1 .. n
  <2>2. x[i] = t[a + i]
    BY ONLY <1>3, <2>1
  <2>3. QED BY <2>2 DEF n
<1>6. x = w
  BY ONLY <1>3, <1>4, <1>5, w \in Seq(S), SeqEqual DEF n
<1>7. QED
  BY <1>6 DEF x, c

\* The parts of a concatenation.
LEMMA Joined ==
    ASSUME NEW S, NEW s \in Seq(S), NEW r \in Seq(S)
    PROVE  /\ s \o r \in Seq(S) /\ Len(s \o r) = Len(s) + Len(r)
           /\ \A i \in 1 .. Len(s) : (s \o r)[i] = s[i]
           /\ \A i \in 1 .. Len(r) : (s \o r)[Len(s) + i] = r[i]
           /\ Start(s \o r, Len(s)) = s /\ Rest(s \o r, Len(s)) = r
<1> DEFINE t == s \o r
           n == Len(s)
           m == Len(r)
<1>1. /\ t \in Seq(S) /\ Len(t) = n + m
      /\ \A i \in 1 .. n + m : t[i] = IF i <= n THEN s[i] ELSE r[i - n]
  BY ConcatProperties
<1>2. n \in Nat /\ m \in Nat
  OBVIOUS
<1> HIDE DEF t, n, m
<1>3. ASSUME NEW i \in 1 .. n PROVE t[i] = s[i]
  <2>1. i \in 1 .. n + m /\ i <= n
    BY ONLY <1>2, i \in 1 .. n
  <2>2. QED BY ONLY <1>1, <2>1
<1>4. ASSUME NEW i \in 1 .. m PROVE t[n + i] = r[i]
  <2> DEFINE j == n + i
  <2>1. j \in 1 .. n + m /\ ~(j <= n) /\ j - n = i
    BY ONLY <1>2, i \in 1 .. m
  <2> HIDE DEF j
  <2>2. t[j] = r[j - n]
    BY ONLY <1>1, <2>1
  <2>3. QED BY <2>1, <2>2 DEF j
<1>5. SubSeq(t, 0 + 1, n) = s
  <2>1. 0 \in Nat /\ n \in Nat /\ n <= Len(t) /\ n = n - 0
    BY <1>1, <1>2
  <2>2. \A i \in 1 .. Len(s) : s[i] = t[0 + i]
    BY <1>2, <1>3 DEF n
  <2>3. QED BY ONLY <1>1, <2>1, <2>2, s \in Seq(S), SubSeqIs DEF n
<1>6. SubSeq(t, n + 1, Len(t)) = r
  <2>1. n \in Nat /\ Len(t) \in Nat /\ Len(t) <= Len(t) /\ m = Len(t) - n
    BY <1>1, <1>2
  <2>2. \A i \in 1 .. Len(r) : r[i] = t[n + i]
    BY <1>4 DEF m
  <2>3. QED BY ONLY <1>1, <2>1, <2>2, r \in Seq(S), SubSeqIs DEF m
<1>7. QED
  BY <1>1, <1>3, <1>4, <1>5, <1>6 DEF Start, Rest, t, n, m

LEMMA CutIs ==
    ASSUME NEW S, NEW t \in Seq(S), NEW marks, NEW n \in 0 .. Len(t),
           \A k \in 1 .. n : t[k] \notin marks,
           n = Len(t) \/ t[n + 1] \in marks
    PROVE  Cut(t, marks) = n
<1>1. Len(t) \in Nat
  OBVIOUS
<1>2. ASSUME NEW k \in 0 .. Len(t), \A j \in 1 .. k : t[j] \notin marks,
             k = Len(t) \/ t[k + 1] \in marks
      PROVE  k = n
  <2>1. ~(k < n)
    <3>1. k < n => k + 1 \in 1 .. n /\ k # Len(t)
      BY ONLY <1>1, n \in 0 .. Len(t), k \in 0 .. Len(t)
    <3>2. QED BY <1>2, <3>1
  <2>2. ~(n < k)
    <3>1. n < k => n + 1 \in 1 .. k /\ n # Len(t)
      BY ONLY <1>1, n \in 0 .. Len(t), k \in 0 .. Len(t)
    <3>2. QED BY <1>2, <3>1
  <2>3. QED BY ONLY <1>1, <2>1, <2>2, n \in 0 .. Len(t), k \in 0 .. Len(t)
<1>3. QED
  BY <1>2 DEF Cut

\* A mark that comes after what has none cuts there.
LEMMA CutAt ==
    ASSUME NEW S, NEW s \in Seq(S), NEW r \in Seq(S), NEW marks,
           \A k \in 1 .. Len(s) : s[k] \notin marks,
           r = <<>> \/ r[1] \in marks
    PROVE  /\ Start(s \o r, Cut(s \o r, marks)) = s
           /\ Rest(s \o r, Cut(s \o r, marks)) = r
<1> DEFINE t == s \o r
           n == Len(s)
           m == Len(r)
<1>1. /\ t \in Seq(S) /\ Len(t) = n + m
      /\ \A i \in 1 .. n : t[i] = s[i]
      /\ \A i \in 1 .. m : t[n + i] = r[i]
      /\ Start(t, n) = s /\ Rest(t, n) = r
  BY ONLY s \in Seq(S), r \in Seq(S), Joined
<1>2. n \in Nat /\ m \in Nat
  OBVIOUS
<1>3. m = 0 \/ r[1] \in marks
  OBVIOUS
<1> HIDE DEF t, m
<1>4. /\ n \in 0 .. Len(t) /\ \A k \in 1 .. n : t[k] \notin marks
      /\ n = Len(t) \/ t[n + 1] \in marks
  <2>1. CASE m = 0
    BY <1>1, <1>2, <2>1
  <2>2. CASE m # 0
    <3>1. 1 \in 1 .. m
      BY <1>2, <2>2
    <3>2. t[n + 1] = r[1]
      BY <1>1, <3>1
    <3>3. QED BY <1>1, <1>2, <1>3, <2>2, <3>2
  <2>3. QED BY <2>1, <2>2
<1> HIDE DEF n
<1>5. t \in Seq(S)
  BY <1>1
<1>6. Cut(t, marks) = n
  BY ONLY <1>4, <1>5, CutIs
<1>7. QED
  BY <1>1, <1>6 DEF t

\* What is before the last / and what is after it.
LEMMA SlashAt ==
    ASSUME NEW S, NEW s \in Seq(S), NEW w \in Seq(S), "/" \in S,
           \A k \in 1 .. Len(w) : w[k] # "/"
    PROVE  /\ s \o (<<"/">> \o w) \in Seq(S) \ {<<>>}
           /\ Path(s \o (<<"/">> \o w)) = s
           /\ File(s \o (<<"/">> \o w)) = w
<1> DEFINE one == <<"/">>
           x == one \o w
           t == s \o x
           n == Len(s)
           m == Len(w)
<1>1. one \in Seq(S) /\ Len(one) = 1 /\ one[1] = "/"
  OBVIOUS
<1>2. n \in Nat /\ m \in Nat
  OBVIOUS
<1> HIDE DEF one
<1>a. /\ x \in Seq(S) /\ Len(x) = Len(one) + m
      /\ \A i \in 1 .. Len(one) : x[i] = one[i]
      /\ \A i \in 1 .. m : x[Len(one) + i] = w[i]
  BY ONLY <1>1, w \in Seq(S), Joined, ZenonT(30)
<1> HIDE DEF x
<1>3. /\ x \in Seq(S) /\ Len(x) = 1 + m
      /\ \A i \in 1 .. 1 : x[i] = one[i]
      /\ \A i \in 1 .. m : x[1 + i] = w[i]
  BY <1>1, <1>a
<1>4. /\ t \in Seq(S) /\ Len(t) = n + Len(x)
      /\ \A i \in 1 .. Len(x) : t[n + i] = x[i]
      /\ Start(t, n) = s
  <2>1. x \in Seq(S)
    BY <1>3
  <2>2. QED BY ONLY <2>1, s \in Seq(S), Joined, ZenonT(30)
<1> HIDE DEF t, n
<1>5. t[n + 1] = "/"
  <2>1. x[1] = "/" /\ 1 \in 1 .. Len(x)
    BY <1>1, <1>2, <1>3
  <2>2. QED BY <1>4, <2>1
<1>6. ASSUME NEW i \in 1 .. m PROVE t[(n + 1) + i] = w[i]
  <2>1. 1 + i \in 1 .. Len(x) /\ n + (1 + i) = (n + 1) + i
    BY ONLY <1>2, <1>3, i \in 1 .. m
  <2>2. QED BY <1>3, <1>4, <2>1
<1>7. Len(t) = n + 1 + m
  BY <1>2, <1>3, <1>4
<1>8. ASSUME NEW k \in n + 2 .. Len(t) PROVE t[k] # "/"
  <2> DEFINE i == k - (n + 1)
  <2>1. i \in 1 .. m /\ k = (n + 1) + i
    <3> HIDE DEF m
    <3>1. QED BY ONLY <1>2, <1>7, k \in n + 2 .. Len(t)
  <2> HIDE DEF i
  <2>2. QED BY <1>6, <2>1
<1>9. Slash(t) = n + 1
  <2>1. n + 1 \in 0 .. Len(t) /\ n + 1 + 1 = n + 2
    BY <1>2, <1>7
  <2>2. ASSUME NEW k \in 0 .. Len(t), k = 0 \/ t[k] = "/",
               \A j \in k + 1 .. Len(t) : t[j] # "/"
        PROVE  k = n + 1
    <3>1. ~(k < n + 1)
      <4>1. k < n + 1 => n + 1 \in k + 1 .. Len(t)
        BY ONLY <1>2, <1>7, k \in 0 .. Len(t)
      <4>2. QED BY <1>5, <2>2, <4>1
    <3>2. ~(k > n + 1)
      <4>1. k > n + 1 => k \in n + 2 .. Len(t) /\ k # 0
        BY ONLY <1>2, <1>7, k \in 0 .. Len(t)
      <4>2. QED BY <1>8, <2>2, <4>1
    <3>3. QED BY ONLY <1>2, <1>7, <3>1, <3>2, k \in 0 .. Len(t)
  <2>3. QED BY <1>5, <1>8, <2>1, <2>2 DEF Slash
<1>10. SubSeq(t, (n + 1) + 1, Len(t)) = w
  <2>1. n + 1 \in Nat /\ Len(t) \in Nat /\ Len(t) <= Len(t) /\ m = Len(t) - (n + 1)
    BY <1>2, <1>7
  <2>2. \A i \in 1 .. Len(w) : w[i] = t[(n + 1) + i]
    BY <1>6
  <2>3. QED BY ONLY <1>4, <2>1, <2>2, w \in Seq(S), SubSeqIs
<1>11. t # <<>>
  BY <1>2, <1>4, <1>7
<1> DEFINE c == n + 1
<1>12. c - 1 = n /\ Slash(t) = c /\ SubSeq(t, c + 1, Len(t)) = w
  BY <1>2, <1>9, <1>10
<1> HIDE DEF c
<1>13. Path(t) = s /\ File(t) = w
  BY ONLY <1>4, <1>12 DEF Path, File, Rest
<1>14. QED
  BY <1>4, <1>11, <1>13 DEF t, x, one

\* What a concatenation begins with, and what it has nothing of.
LEMMA FirstOf ==
    ASSUME NEW S, NEW s \in Seq(S), NEW r \in Seq(S)
    PROVE  /\ s \o r \in Seq(S)
           /\ s = <<>> => s \o r = r
           /\ s # <<>> => s \o r # <<>> /\ (s \o r)[1] = s[1]
<1>1. s = <<>> => s \o r = r
  BY ConcatEmptySeq
<1>2. CASE s # <<>>
  <2>1. 1 \in 1 .. Len(s)
    BY <1>2, EmptySeq
  <2>2. (s \o r)[1] = s[1] /\ Len(s \o r) = Len(s) + Len(r)
    BY <2>1, Joined
  <2>3. Len(s) \in Nat /\ Len(r) \in Nat
    OBVIOUS
  <2>4. s \o r # <<>>
    <3>1. Len(s \o r) # 0
      BY ONLY <2>1, <2>2, <2>3
    <3>2. QED BY <3>1
  <2>5. QED BY <1>2, <2>2, <2>4
<1>3. QED
  BY <1>1, <1>2, Joined

LEMMA AllOf ==
    ASSUME NEW S, NEW s \in Seq(S), NEW r \in Seq(S), NEW marks,
           \A k \in 1 .. Len(s) : s[k] \notin marks,
           \A k \in 1 .. Len(r) : r[k] \notin marks
    PROVE  s \o r \in Seq(S) /\ \A k \in 1 .. Len(s \o r) : (s \o r)[k] \notin marks
<1> DEFINE t == s \o r
           n == Len(s)
           m == Len(r)
<1>1. /\ t \in Seq(S) /\ Len(t) = n + m
      /\ \A i \in 1 .. n : t[i] = s[i]
      /\ \A i \in 1 .. m : t[n + i] = r[i]
  BY ONLY s \in Seq(S), r \in Seq(S), Joined
<1>2. n \in Nat /\ m \in Nat
  OBVIOUS
<1> HIDE DEF t
<1>3. ASSUME NEW k \in 1 .. Len(t) PROVE t[k] \notin marks
  <2>1. CASE k <= n
    BY <1>1, <1>2, <2>1
  <2>2. CASE k > n
    <3> DEFINE i == k - n
    <3> HIDE DEF n, m
    <3>1. i \in 1 .. m /\ k = n + i
      BY ONLY <1>1, <1>2, <2>2, k \in 1 .. Len(t)
    <3> HIDE DEF i
    <3>2. QED BY <1>1, <3>1 DEF m
  <2>3. QED BY <1>2, <2>1, <2>2
<1>4. QED
  BY <1>1, <1>3 DEF t

\* What a URL is made of: no part has a mark in it.
LEMMA PartsOfUrl ==
    ASSUME NEW u \in Urls
    PROVE  /\ \A f \in {"host", "path", "file", "port", "user", "password"} :
                 u[f] \in Seq(Letters)
           /\ \A f \in {"host", "file", "port", "user", "password"} :
                 \A k \in 1 .. Len(u[f]) : u[f][k] \notin {"/", ":", "@", End}
           /\ \A k \in 1 .. Len(u.path) : u.path[k] \notin {":", "@", End}
           /\ u.path # <<>> => u.path[1] = "/" /\ u.path[Len(u.path)] # "/"
           /\ u.file = <<>> => u.path = <<>> /\ u.user = <<>>
           /\ u.user = <<>> => u.password = <<>>
<1>1. /\ \A f \in {"host", "file", "port", "user", "password"} : u[f] \in Seq(Characters)
      /\ u.path \in Seq(Characters \cup {"/"})
  BY FtpAssumption DEF Fields
<1>2. Characters \subseteq Letters /\ Characters \cup {"/"} \subseteq Letters
  BY DEF Letters
<1>3. /\ \A c \in Characters : c \notin {"/", ":", "@", End}
      /\ \A c \in Characters \cup {"/"} : c \notin {":", "@", End}
  BY FtpAssumption DEF End
<1>4. \A f \in {"host", "path", "file", "port", "user", "password"} :
         u[f] \in Seq(Letters)
  BY <1>1, <1>2, SeqMonotonic
<1>5. \A f \in {"host", "file", "port", "user", "password"} :
         \A k \in 1 .. Len(u[f]) : u[f][k] \in Characters
  BY <1>1, ElementOfSeq
<1>6. \A k \in 1 .. Len(u.path) : u.path[k] \in Characters \cup {"/"}
  BY <1>1, ElementOfSeq
<1>7. QED
  BY <1>3, <1>4, <1>5, <1>6, FtpAssumption

\* A part with its mark before it.
LEMMA PartIs ==
    ASSUME NEW S, NEW w \in Seq(S), NEW mark \in S
    PROVE  /\ Part(mark, w) \in Seq(S)
           /\ Part(mark, w) = <<>> <=> w = <<>>
           /\ w # <<>> => /\ Part(mark, w)[1] = mark
                          /\ Len(Part(mark, w)) = 1 + Len(w)
                          /\ Tail(Part(mark, w)) = w
<1>1. CASE w = <<>>
  BY <1>1 DEF Part
<1>2. CASE w # <<>>
  <2> DEFINE one == <<mark>>
             x == one \o w
  <2>1. one \in Seq(S) /\ Len(one) = 1 /\ one[1] = mark
    OBVIOUS
  <2> HIDE DEF one
  <2>2. /\ x \in Seq(S) /\ Len(x) = Len(one) + Len(w)
        /\ \A i \in 1 .. Len(one) : x[i] = one[i]
        /\ \A i \in 1 .. Len(w) : x[Len(one) + i] = w[i]
        /\ Rest(x, Len(one)) = w
    BY ONLY <2>1, w \in Seq(S), Joined, ZenonT(30)
  <2> HIDE DEF x
  <2>3. /\ Len(x) = 1 + Len(w) /\ x[1] = mark
        /\ \A i \in 1 .. Len(w) : x[1 + i] = w[i]
    BY <2>1, <2>2
  <2>4. x # <<>>
    BY <2>3
  <2>5. Tail(x) = w
    <3>1. Tail(x) = SubSeq(x, 2, Len(x))
      BY <2>2, <2>4, TailIsSubSeq
    <3>2. Rest(x, 1) = SubSeq(x, 2, Len(x))
      BY DEF Rest
    <3>3. QED BY <2>1, <2>2, <3>1, <3>2
  <2>7. Part(mark, w) = x
    BY <1>2 DEF Part, x, one
  <2>8. QED
    BY <1>2, <2>2, <2>3, <2>4, <2>5, <2>7
<1>3. QED
  BY <1>1, <1>2

LEMMA PartLacks ==
    ASSUME NEW S, NEW w \in Seq(S), NEW mark \in S, NEW marks, mark \notin marks,
           \A k \in 1 .. Len(w) : w[k] \notin marks
    PROVE  \A k \in 1 .. Len(Part(mark, w)) : Part(mark, w)[k] \notin marks
<1>1. CASE w = <<>>
  BY <1>1 DEF Part
<1>2. CASE w # <<>>
  <2> DEFINE one == <<mark>>
  <2>1. one \in Seq(S) /\ \A k \in 1 .. Len(one) : one[k] \notin marks
    OBVIOUS
  <2> HIDE DEF one
  <2>2. \A k \in 1 .. Len(one \o w) : (one \o w)[k] \notin marks
    BY <2>1, AllOf
  <2>3. Part(mark, w) = one \o w
    BY <1>2 DEF Part, one
  <2>4. QED BY <2>2, <2>3
<1>3. QED
  BY <1>1, <1>2

\* The parser finds the parts that the text is made of.
LEMMA RowsOfText ==
    ASSUME NEW u \in Urls
    PROVE  Rows(Text(u)) = [host  |-> u.host,
                            name  |-> u.path \o Part("/", u.file),
                            port  |-> Part(":", u.port),
                            login |-> Part("@", u.user),
                            key   |-> Part(":", u.password)]
<1> DEFINE key == Part(":", u.password)
           login == Part("@", u.user)
           at == Part(":", u.port)
           file == Part("/", u.file)
           path == u.path
           host == u.host
           user == login \o key
           more == at \o user
           name == path \o file
           rest == name \o more
<1>1. {"/", ":", "@"} \subseteq Letters
  BY DEF Letters
<1>2. /\ u.password \in Seq(Letters) /\ u.user \in Seq(Letters)
      /\ u.port \in Seq(Letters) /\ u.file \in Seq(Letters)
      /\ path \in Seq(Letters) /\ host \in Seq(Letters)
  BY PartsOfUrl
<1>3. /\ key \in Seq(Letters) /\ (key = <<>> \/ key[1] = ":")
      /\ login \in Seq(Letters) /\ (login = <<>> \/ login[1] = "@")
      /\ at \in Seq(Letters) /\ (at = <<>> \/ at[1] = ":")
      /\ file \in Seq(Letters) /\ (file = <<>> \/ file[1] = "/")
  <2>1. ASSUME NEW w \in Seq(Letters), NEW mark \in {"/", ":", "@"}
        PROVE  /\ Part(mark, w) \in Seq(Letters)
               /\ Part(mark, w) = <<>> \/ Part(mark, w)[1] = mark
    BY <1>1, PartIs
  <2>2. QED BY <1>2, <2>1
<1>4. /\ key = <<>> <=> u.password = <<>>
      /\ login = <<>> <=> u.user = <<>>
      /\ file = <<>> <=> u.file = <<>>
  <2>1. ASSUME NEW w \in Seq(Letters), NEW mark \in {"/", ":", "@"}
        PROVE  Part(mark, w) = <<>> <=> w = <<>>
    BY <1>1, PartIs
  <2>2. QED BY <1>2, <2>1
<1>5. /\ path = <<>> \/ path[1] = "/"
      /\ login = <<>> => key = <<>>
      /\ file = <<>> => path = <<>> /\ login = <<>> /\ key = <<>>
  BY <1>4, PartsOfUrl
<1>6. /\ \A k \in 1 .. Len(host) : host[k] \notin {"/", ":"}
      /\ \A k \in 1 .. Len(path) : path[k] \notin {":", "@"}
      /\ \A k \in 1 .. Len(u.file) : u.file[k] \notin {":", "@"}
      /\ \A k \in 1 .. Len(u.port) : u.port[k] \notin {"@"}
      /\ \A k \in 1 .. Len(u.user) : u.user[k] \notin {":"}
  BY PartsOfUrl
<1>7. \A k \in 1 .. Len(file) : file[k] \notin {":", "@"}
  BY <1>1, <1>2, <1>6, "/" \notin {":", "@"}, PartLacks
<1>8. \A k \in 1 .. Len(at) : at[k] \notin {"@"}
  BY <1>1, <1>2, <1>6, ":" \notin {"@"}, PartLacks
<1>9. \A k \in 1 .. Len(login) : login[k] \notin {":"}
  BY <1>1, <1>2, <1>6, "@" \notin {":"}, PartLacks
<1> HIDE DEF key, login, at, file, path, host
<1>10. user \in Seq(Letters) /\ (user = <<>> \/ user[1] = "@")
  <2>1. /\ user \in Seq(Letters) /\ (login = <<>> => user = key)
        /\ login # <<>> => user[1] = login[1]
    BY <1>3, FirstOf
  <2>2. QED BY <1>3, <1>5, <2>1
<1> HIDE DEF user
<1>11. /\ more \in Seq(Letters)
       /\ at = <<>> => more = user
       /\ at # <<>> => more # <<>> /\ more[1] = ":"
  <2>1. /\ more \in Seq(Letters) /\ (at = <<>> => more = user)
        /\ at # <<>> => more # <<>> /\ more[1] = at[1]
    BY <1>3, <1>10, FirstOf
  <2>2. QED BY <1>3, <2>1
<1>12. user = <<>> => more = at
  BY <1>3, ConcatEmptySeq
<1> HIDE DEF more
<1>13. name \in Seq(Letters) /\ \A k \in 1 .. Len(name) : name[k] \notin {":", "@"}
  BY <1>2, <1>3, <1>6, <1>7, AllOf
<1>14. name = <<>> \/ name[1] = "/"
  <2>1. /\ path = <<>> => name = file
        /\ path # <<>> => name[1] = path[1]
    BY <1>2, <1>3, FirstOf
  <2>2. QED BY <1>3, <1>5, <2>1
<1>15. name = <<>> => user = <<>>
  <2>1. name = <<>> => file = <<>>
    BY <1>2, <1>3, ConcatEqualIffEmpty
  <2>2. login = <<>> /\ key = <<>> => user = <<>>
    BY DEF user
  <2>3. QED BY <1>5, <2>1, <2>2
<1>16. Text(u) = host \o rest
  <2>1. Text(u) = host \o (path \o (file \o more))
    BY DEF Text, host, path, file, more, at, user, login, key
  <2>2. path \o (file \o more) = rest
    <3>1. path \in Seq(Letters) /\ file \in Seq(Letters) /\ more \in Seq(Letters)
      BY <1>2, <1>3, <1>11
    <3>2. (path \o file) \o more = path \o (file \o more)
      BY ONLY <3>1, ConcatAssociative
    <3>3. QED BY <3>2
  <2>3. QED BY <2>1, <2>2
<1> HIDE DEF name
<1>17. rest \in Seq(Letters) /\ (rest = <<>> \/ rest[1] \in {"/", ":"})
  <2>1. /\ rest \in Seq(Letters) /\ (name = <<>> => rest = more)
        /\ name # <<>> => rest[1] = name[1]
    BY <1>11, <1>13, FirstOf
  <2>2. name = <<>> => rest = <<>> \/ rest[1] = ":"
    BY <1>3, <1>12, <1>15, <2>1
  <2>3. QED BY <1>14, <2>1, <2>2
<1> HIDE DEF rest
<1>18. /\ Start(host \o rest, Cut(host \o rest, {"/", ":"})) = host
       /\ Rest(host \o rest, Cut(host \o rest, {"/", ":"})) = rest
  BY <1>2, <1>6, <1>17, CutAt
<1>19. /\ Start(rest, Cut(rest, {":", "@"})) = name
       /\ Rest(rest, Cut(rest, {":", "@"})) = more
  <2>1. more = <<>> \/ more[1] \in {":", "@"}
    BY <1>10, <1>11
  <2>2. QED BY <1>11, <1>13, <2>1, CutAt DEF rest
<1>20. /\ Start(more, Cut(more, {"@"})) = at
       /\ Rest(more, Cut(more, {"@"})) = user
  <2>1. user = <<>> \/ user[1] \in {"@"}
    BY <1>10
  <2>2. QED BY <1>3, <1>8, <1>10, <2>1, CutAt DEF more
<1>21. /\ Start(user, Cut(user, {":"})) = login
       /\ Rest(user, Cut(user, {":"})) = key
  <2>1. key = <<>> \/ key[1] \in {":"}
    BY <1>3
  <2>2. QED BY <1>3, <1>9, <2>1, CutAt DEF user
<1> DEFINE ported == more # <<>> /\ more[1] = ":"
<1>22. ported <=> at # <<>>
  BY <1>10, <1>11
<1>23. /\ user = IF ported THEN Rest(more, Cut(more, {"@"})) ELSE more
       /\ at = IF ported THEN Start(more, Cut(more, {"@"})) ELSE <<>>
  BY <1>11, <1>20, <1>22
<1>24. Rows(host \o rest) = [host |-> host, name |-> name, port |-> at,
                             login |-> login, key |-> key]
  BY ONLY <1>18, <1>19, <1>21, <1>23, Zenon DEF Rows, ported
<1>25. QED
  BY <1>16, <1>24 DEF host, name, path, file, at, login, key

LEMMA RowPort ==
    ASSUME NEW u \in Urls
    PROVE  Rows(Text(u)).port = Part(":", u.port)
<1>1. Rows(Text(u)) = [host  |-> u.host,
                       name  |-> u.path \o Part("/", u.file),
                       port  |-> Part(":", u.port),
                       login |-> Part("@", u.user),
                       key   |-> Part(":", u.password)]
  BY ONLY u \in Urls, RowsOfText, Zenon
<1>2. QED
  BY ONLY <1>1

-----------------------------------------------------------------------------
\* The buffers

LEMMA OverlayFacts ==
    ASSUME NEW S, NEW o \in Seq(S), NEW n \in Seq(S)
    PROVE  /\ Overlay(o, n) \in Seq(S)
           /\ Len(Overlay(o, n)) = IF Len(o) <= Len(n) THEN Len(n) ELSE Len(o)
           /\ \A i \in 1 .. Len(n) : Overlay(o, n)[i] = n[i]
           /\ \A i \in Len(n) + 1 .. Len(o) : Overlay(o, n)[i] = o[i]
<1> DEFINE k == Len(n)
           l == Len(o)
           tail == SubSeq(o, k + 1, l)
           x == n \o tail
<1>1. k \in Nat /\ l \in Nat
  OBVIOUS
<1>2. \A i \in k + 1 .. l : o[i] \in S
  BY <1>1, ElementOfSeq
<1> HIDE DEF k, l
<1>3. /\ tail \in Seq(S)
      /\ Len(tail) = IF k + 1 <= l THEN l - (k + 1) + 1 ELSE 0
      /\ \A i \in 1 .. l - (k + 1) + 1 : tail[i] = o[k + 1 + i - 1]
  <2> DEFINE c == k + 1
  <2>1. c \in Int /\ l \in Int
    BY <1>1
  <2> HIDE DEF c
  <2>2. QED BY ONLY <1>2, <2>1, SubSeqProperties DEF c
<1> HIDE DEF tail
<1>4. /\ x \in Seq(S) /\ Len(x) = k + Len(tail)
      /\ \A i \in 1 .. k : x[i] = n[i]
      /\ \A i \in 1 .. Len(tail) : x[k + i] = tail[i]
  <2>1. tail \in Seq(S)
    BY <1>3
  <2>2. QED BY ONLY <2>1, n \in Seq(S), Joined, ZenonT(30) DEF k
<1> HIDE DEF x
<1>5. Len(x) = IF l <= k THEN k ELSE l
  BY <1>1, <1>3, <1>4
<1>6. ASSUME NEW i \in k + 1 .. l PROVE x[i] = o[i]
  <2> DEFINE j == i - k
  <2>1. /\ j \in 1 .. l - (k + 1) + 1 /\ j \in 1 .. Len(tail)
        /\ k + 1 + j - 1 = i /\ k + j = i
    BY <1>1, <1>3
  <2> HIDE DEF j
  <2>2. tail[j] = o[i]
    BY <1>3, <2>1
  <2>3. QED BY <1>4, <2>1, <2>2
<1>7. QED
  BY <1>4, <1>5, <1>6 DEF Overlay, x, tail, k, l

\* A buffer that begins with a name, and has an end after it, is that name.
LEMMA AsStringIs ==
    ASSUME NEW S, NEW b \in Seq(S), NEW w \in Seq(S), Len(w) <= Len(b),
           \A i \in 1 .. Len(w) : w[i] = b[i] /\ w[i] # End,
           Len(b) = Len(w) \/ b[Len(w) + 1] = End
    PROVE  AsString(b) = w
<1> DEFINE n == Len(w)
<1>1. n \in 0 .. Len(b) /\ n \in Nat /\ 0 \in Nat /\ n = n - 0 /\ n <= Len(b)
  OBVIOUS
<1>2. \A i \in 1 .. n : b[i] \notin {End}
  OBVIOUS
<1>3. n = Len(b) \/ b[n + 1] \in {End}
  OBVIOUS
<1>4. \A i \in 1 .. Len(w) : w[i] = b[0 + i]
  OBVIOUS
<1> HIDE DEF n
<1>5. Cut(b, {End}) = n
  BY <1>1, <1>2, <1>3, CutIs
<1>6. SubSeq(b, 0 + 1, n) = w
  BY ONLY <1>1, <1>4, b \in Seq(S), w \in Seq(S), SubSeqIs DEF n
<1>7. QED
  <2>1. Start(b, n) = w
    BY <1>6 DEF Start
  <2>2. QED BY <1>5, <2>1 DEF AsString

\* What is copied with its end is what is read, and so is what is copied
\* without it to where no longer name was.
LEMMA OverlayReads ==
    ASSUME NEW S, NEW o \in Seq(S), NEW w \in Seq(S), End \in S,
           \A i \in 1 .. Len(w) : w[i] # End
    PROVE  /\ AsString(Overlay(o, Append(w, End))) = w
           /\ (\A i \in 1 .. Len(o) : o[i] # End => i <= Len(w))
                 => AsString(Overlay(o, w)) = w
<1> DEFINE e == Append(w, End)
           b == Overlay(o, e)
           c == Overlay(o, w)
           n == Len(w)
<1>1. n \in Nat /\ Len(o) \in Nat
  OBVIOUS
<1>2. /\ e \in Seq(S) /\ Len(e) = n + 1
      /\ \A i \in 1 .. n : e[i] = w[i]
      /\ e[n + 1] = End
  BY AppendProperties
<1> HIDE DEF e
<1>3. /\ b \in Seq(S) /\ Len(b) = IF Len(o) <= Len(e) THEN Len(e) ELSE Len(o)
      /\ \A i \in 1 .. Len(e) : b[i] = e[i]
  BY <1>2, OverlayFacts
<1>4. /\ c \in Seq(S) /\ Len(c) = IF Len(o) <= n THEN n ELSE Len(o)
      /\ \A i \in 1 .. n : c[i] = w[i]
      /\ \A i \in n + 1 .. Len(o) : c[i] = o[i]
  BY OverlayFacts
<1> HIDE DEF b, c
<1>5. AsString(b) = w
  <2> HIDE DEF n
  <2>1. n <= Len(b)
    BY <1>1, <1>2, <1>3
  <2>2. \A i \in 1 .. n : w[i] = b[i]
    <3>1. \A i \in 1 .. n : i \in 1 .. Len(e)
      BY <1>1, <1>2
    <3>2. QED BY <1>2, <1>3, <3>1
  <2>3. b[n + 1] = End
    <3>1. n + 1 \in 1 .. Len(e)
      BY <1>1, <1>2
    <3>2. QED BY <1>2, <1>3, <3>1
  <2>4. QED BY <1>3, <2>1, <2>2, <2>3, AsStringIs DEF n
<1>6. ASSUME \A i \in 1 .. Len(o) : o[i] # End => i <= n
      PROVE  AsString(c) = w
  <2>1. Len(c) = n \/ c[n + 1] = End
    <3>1. CASE Len(o) <= n
      BY <1>4, <3>1
    <3>2. CASE n < Len(o)
      <4> HIDE DEF n
      <4>1. n + 1 \in 1 .. Len(o) /\ n + 1 \in n + 1 .. Len(o) /\ ~(n + 1 <= n)
        BY <1>1, <3>2
      <4>2. o[n + 1] = End
        BY <1>6, <4>1
      <4>3. QED BY <1>4, <4>1, <4>2
    <3>3. QED BY <1>1, <3>1, <3>2
  <2>2. n <= Len(c)
    BY <1>1, <1>4
  <2>3. QED BY <1>4, <2>1, <2>2, AsStringIs
<1>7. QED
  BY <1>5, <1>6 DEF b, c, e

\* A path with a / after it, unless it ends with one.
Ended(path) ==
    IF path # <<>> /\ path[Len(path)] = "/" THEN path ELSE Append(path, "/")

LEMMA UrlFields ==
    ASSUME FtpTypeOK, NEW v \in Urls \cup {NoUrl}, NEW f \in Fields
    PROVE  v[f] \in Seq(Letters) /\ Len(v[f]) \in Nat
<1>1. CASE v \in Urls
  BY <1>1, PartsOfUrl DEF Fields
<1>2. CASE v = NoUrl
  BY <1>2 DEF NoUrl
<1>3. QED
  BY <1>1, <1>2

\* What decoding makes of the buffers.
LEMMA CopiedFacts ==
    ASSUME FtpTypeOK, NEW u \in Urls, NEW r, r = Rows(Text(u))
    PROVE  /\ Copied(r) \in [Fields -> Seq(Letters)]
           /\ \A f \in {"host", "file", "user"} :
                 \/ Copied(r)[f] = target[f]
                 \/ Copied(r)[f] = Overlay(target[f], u[f])
                 \/ Copied(r)[f] = Overlay(target[f], Append(u[f], End))
           /\ \/ Copied(r).path = Ended(target.path)
              \/ Copied(r).path = Ended(Overlay(target.path, u.path))
           /\ Decodes(r) /\ ~Bare(r) =>
                 /\ Copied(r).host = Overlay(target.host, u.host)
                 /\ Copied(r).file = Overlay(target.file, u.file)
                 /\ Copied(r).path = Ended(Overlay(target.path, u.path))
                 /\ \/ Copied(r).user = Overlay(target.user, u.user)
                    \/ Copied(r).user = Overlay(target.user, Append(u.user, End))
                 /\ u.password # <<>> =>
                       Copied(r).password =
                          Overlay(target.password, Append(u.password, End))
<1> DEFINE located == [target EXCEPT !.host = Overlay(@, u.host)]
           named == [located EXCEPT !.path = Overlay(@, u.path),
                                    !.file = Overlay(@, u.file)]
           login == Tail(Append(r.login, End))
           key == Append(u.password, End)
           alone == [named EXCEPT !.user = Overlay(@, login)]
           keyed == [named EXCEPT !.user = Overlay(@, u.user),
                                  !.password = Overlay(@, key)]
<1>1. /\ r.host = u.host /\ r.name = u.path \o Part("/", u.file)
      /\ r.port = Part(":", u.port) /\ r.login = Part("@", u.user)
      /\ r.key = Part(":", u.password)
  <2>1. r = [host  |-> u.host,
             name  |-> u.path \o Part("/", u.file),
             port  |-> Part(":", u.port),
             login |-> Part("@", u.user),
             key   |-> Part(":", u.password)]
    BY ONLY r = Rows(Text(u)), u \in Urls, RowsOfText, Zenon
  <2>2. QED BY ONLY <2>1
<1>2. /\ {"/", ":", "@", End} \subseteq Letters
      /\ \A f \in Fields : u[f] \in Seq(Letters) /\ target[f] \in Seq(Letters)
      /\ target \in [Fields -> Seq(Letters)]
  BY PartsOfUrl DEF Letters, Fields, FtpTypeOK
<1>3. /\ u.host \in Seq(Letters) /\ u.path \in Seq(Letters)
      /\ u.file \in Seq(Letters) /\ u.user \in Seq(Letters)
      /\ u.password \in Seq(Letters)
  BY <1>2 DEF Fields
<1>p. ASSUME NEW w \in Seq(Letters), NEW mark \in {":", "@"}
      PROVE  /\ Part(mark, w) \in Seq(Letters)
             /\ Part(mark, w) = <<>> <=> w = <<>>
             /\ w # <<>> => Tail(Part(mark, w)) = w
  <2>1. mark \in Letters
    BY <1>2
  <2>2. QED BY ONLY <2>1, w \in Seq(Letters), PartIs
<1>4. NameFits(r) => Path(r.name) = u.path /\ File(r.name) = u.file
  <2>1. CASE u.file = <<>>
    <3>1. u.path = <<>> /\ Part("/", u.file) = <<>>
      BY <2>1, PartsOfUrl DEF Part
    <3>2. r.name = <<>>
      BY <1>1, <3>1, <<>> \in Seq(Letters), ConcatEmptySeq
    <3>3. QED BY <3>2 DEF NameFits
  <2>2. CASE u.file # <<>>
    <3>1. r.name = u.path \o (<<"/">> \o u.file)
      BY <1>1, <2>2 DEF Part
    <3>2. \A k \in 1 .. Len(u.file) : u.file[k] # "/"
      BY PartsOfUrl
    <3>3. "/" \in Letters
      BY <1>2
    <3>4. u.path \in Seq(Letters) /\ u.file \in Seq(Letters)
      BY <1>3
    <3>5. QED BY ONLY <3>1, <3>2, <3>3, <3>4, SlashAt
  <2>3. QED BY <2>1, <2>2
<1>5. r.key # <<>> => /\ Tail(r.login) = u.user
                      /\ Tail(Append(r.key, End)) = key
  <2>1. r.key # <<>> => u.password # <<>> /\ u.user # <<>>
    BY <1>1, PartsOfUrl DEF Part
  <2>2. u.user # <<>> => Tail(r.login) = u.user
    BY <1>1, <1>3, <1>p
  <2>3. /\ r.key \in Seq(Letters)
        /\ u.password # <<>> => Tail(r.key) = u.password
    BY <1>1, <1>3, <1>p
  <2>4. r.key # <<>> => Tail(Append(r.key, End)) = Append(Tail(r.key), End)
    BY <2>3, HeadTailAppend
  <2>5. QED BY <2>1, <2>2, <2>3, <2>4
<1>6. login = u.user \/ login = Append(u.user, End)
  <2>1. r.login \in Seq(Letters)
    BY <1>1, <1>3, <1>p
  <2>2. CASE r.login = <<>>
    <3>1. u.user = <<>>
      BY <1>1, <1>3, <1>p, <2>2
    <3>2. QED BY <2>1, <2>2, <3>1, HeadTailAppend
  <2>3. CASE r.login # <<>>
    <3>1. Tail(r.login) = u.user
      BY <1>1, <1>3, <1>p, <2>3
    <3>2. QED BY <2>1, <2>3, <3>1, HeadTailAppend
  <2>4. QED BY <2>2, <2>3
<1>7. u.password # <<>> => r.key # <<>>
  BY <1>1, <1>3, <1>p
<1>8. login \in Seq(Letters) /\ key \in Seq(Letters)
  <2>1. End \in Letters
    BY <1>2
  <2>2. \A w \in Seq(Letters) : Append(w, End) \in Seq(Letters)
    BY ONLY <2>1, AppendProperties
  <2>3. QED BY <1>3, <1>6, <2>2
<1> HIDE DEF login, key
<1>9. ASSUME NEW f \in Fields
      PROVE  /\ Overlay(target[f], u[f]) \in Seq(Letters)
             /\ Overlay(target[f], login) \in Seq(Letters)
             /\ Overlay(target[f], key) \in Seq(Letters)
  BY <1>2, <1>8, OverlayFacts
<1>10. /\ located \in [Fields -> Seq(Letters)] /\ named \in [Fields -> Seq(Letters)]
       /\ alone \in [Fields -> Seq(Letters)] /\ keyed \in [Fields -> Seq(Letters)]
  BY <1>2, <1>9 DEF Fields
<1>11. ASSUME NEW fields \in [Fields -> Seq(Letters)]
       PROVE  /\ EndPath(fields) \in [Fields -> Seq(Letters)]
              /\ EndPath(fields).path = Ended(fields.path)
              /\ \A f \in Fields \ {"path"} : EndPath(fields)[f] = fields[f]
  <2>1. Append(fields.path, "/") \in Seq(Letters)
    BY <1>2, AppendProperties DEF Fields
  <2>2. EndPath(fields) = [fields EXCEPT !.path = Ended(@)]
    BY DEF EndPath, Ended
  <2>3. Ended(fields.path) \in Seq(Letters) /\ "path" \in Fields
    BY <2>1 DEF Ended, Fields
  <2>4. QED BY <2>2, <2>3
<1>12. Copied(r) = EndPath(IF ~HostFits(r) THEN target
                           ELSE IF ~NameFits(r) THEN located
                           ELSE IF Bare(r) \/ ~LoginFits(r) THEN named
                           ELSE IF r.key = <<>> THEN alone
                           ELSE keyed)
  BY <1>1, <1>4, <1>5 DEF Copied, login, key
<1>13. /\ located.host = Overlay(target.host, u.host)
       /\ \A f \in Fields \ {"host"} : located[f] = target[f]
       /\ named.host = Overlay(target.host, u.host)
       /\ named.path = Overlay(target.path, u.path)
       /\ named.file = Overlay(target.file, u.file)
       /\ \A f \in {"user", "password"} : named[f] = target[f]
       /\ alone.user = Overlay(target.user, login)
       /\ \A f \in Fields \ {"user"} : alone[f] = named[f]
       /\ keyed.user = Overlay(target.user, u.user)
       /\ keyed.password = Overlay(target.password, key)
       /\ \A f \in {"host", "path", "file"} : keyed[f] = named[f]
  BY <1>2 DEF Fields
<1> HIDE DEF located, named, alone, keyed
<1>14. /\ "host" \in Fields \ {"path"} /\ "file" \in Fields \ {"path"}
       /\ "user" \in Fields \ {"path"} /\ "password" \in Fields \ {"path"}
  BY DEF Fields
<1>15. CASE ~HostFits(r)
  BY <1>2, <1>11, <1>12, <1>14, <1>15 DEF Decodes
<1>16. CASE HostFits(r) /\ ~NameFits(r)
  <2>1. Copied(r) = EndPath(located)
    BY <1>12, <1>16
  <2>2. ~Decodes(r)
    BY <1>16 DEF Decodes
  <2>3. QED BY <1>10, <1>11, <1>13, <1>14, <2>1, <2>2 DEF Fields
<1>17. CASE HostFits(r) /\ NameFits(r) /\ (Bare(r) \/ ~LoginFits(r))
  <2>1. Copied(r) = EndPath(named)
    BY <1>12, <1>17
  <2>2. ~(Decodes(r) /\ ~Bare(r))
    BY <1>17 DEF Decodes
  <2>3. QED BY <1>10, <1>11, <1>13, <1>14, <2>1, <2>2 DEF Fields
<1>18. CASE Decodes(r) /\ ~Bare(r) /\ r.key = <<>>
  <2>1. Copied(r) = EndPath(alone)
    BY <1>12, <1>18 DEF Decodes
  <2>2. u.password = <<>>
    BY <1>7, <1>18
  <2>3. \/ alone.user = Overlay(target.user, u.user)
        \/ alone.user = Overlay(target.user, Append(u.user, End))
    BY <1>6, <1>13
  <2>4. QED BY <1>10, <1>11, <1>13, <1>14, <2>1, <2>2, <2>3 DEF Fields
<1>19. CASE Decodes(r) /\ ~Bare(r) /\ r.key # <<>>
  <2>1. Copied(r) = EndPath(keyed)
    BY <1>12, <1>19 DEF Decodes
  <2>2. QED BY <1>10, <1>11, <1>13, <1>14, <2>1 DEF Fields, key
<1>20. QED
  BY <1>15, <1>16, <1>17, <1>18, <1>19 DEF Decodes

-----------------------------------------------------------------------------
\* As long as the response is the same, so is what the decoder makes of it.
LEMMA DecoderKept ==
    ASSUME response' = response
    PROVE  /\ HeaderEnds(got)' = HeaderEnds(got')
           /\ Decoded(got)' = Decoded(got')
<1>1. Decoded(got)' = Decoded(got')
  BY DEF Decoded
<1>2. \A q : StatusAt(q)' = StatusAt(q)
  BY DEF StatusAt
<1>3. QED
  BY <1>1, <1>2 DEF HeaderEnds, HeaderEnd

\* A response that is none, or the answer for some file, is lines and pieces.
LEMMA ResponseType ==
    ASSUME NEW r, r = None \/ \E n \in Sizes : r \in Responses(n)
    PROVE  /\ r.lines \in Seq(Lines) /\ r.pieces \in Nat
           /\ Units(r) = Len(r.lines) + r.pieces /\ Units(r) \in Nat
<1>1. r.lines \in Seq(Lines) /\ r.pieces \in Nat
  <2>1. CASE r = None
    BY <2>1 DEF None, Lines
  <2>2. ASSUME NEW n \in Sizes, r \in Responses(n)
        PROVE  r.lines \in Seq(Lines) /\ r.pieces \in Nat
    BY <2>2, ResponseShape, FotaAssumption
  <2>3. QED BY <2>1, <2>2
<1>2. QED
  BY <1>1 DEF Units

\* What a read of the header comes to: more of it, the body, or the end.
LEMMA HeadRead ==
    ASSUME IInv, NEW n \in 1 .. Buffer, RecvHead(n)
    PROVE  /\ buf /\ total = 0 /\ told = "started" /\ image = <<>>
           /\ got' = got + n /\ got' <= sent /\ got' <= used' + Buffer
           /\ used' \in 0 .. got'
           /\ header' \in [known : BOOLEAN, length : Nat]
           /\ header'.known => header'.length > 0
           /\ UNCHANGED <<image, size, attempt, misled, response, sent, hung,
                          sock, old, received, timerVars>>
           /\ \/ /\ HeaderEnds(got') = {} /\ used' = Cardinality(Decoded(got'))
                 /\ UNCHANGED <<step, told, buf, total>>
              \/ /\ used' = Len(response.lines)
                 /\ step' = "body" /\ total' \in Nat \ {0}
                 /\ UNCHANGED <<told, buf>>
              \/ Failed /\ buf' = FALSE /\ UNCHANGED total
<1>1. /\ TypeOK /\ step = "head" /\ buf /\ total = 0 /\ told = "started"
      /\ image = <<>> /\ response \in Responses(size) /\ HeaderEnds(got) = {}
      /\ used = Cardinality(Decoded(got))
      /\ header.known => header.length > 0
      /\ Buffer \in Nat \ {0} /\ size \in Sizes
  BY BufferAssumption
  DEF IInv, TypeOK, MainTypeOK, HttpTypeOK, Phases, HttpImage, RecvHead
<1>2. /\ response.lines \in Seq(Lines) /\ Units(response) \in Nat
  BY <1>1, ResponseType
<1>3. /\ got \in Nat /\ sent \in Nat /\ used \in Nat /\ used <= got
      /\ header \in [known : BOOLEAN, length : Nat]
  BY <1>1, <1>2 DEF TypeOK, HttpTypeOK
<1>4. /\ got' = got + n /\ got' <= sent /\ got' <= used + Buffer
      /\ UNCHANGED <<response, sent, hung>>
  BY <1>1, <1>3 DEF RecvHead, Recv, Room
<1>5. UNCHANGED <<image, size, attempt, misled, sock, old, received, timerVars>>
  BY DEF RecvHead
<1>6. CASE HeaderEnds(got + n) = {}
  <2>1. /\ used' = Cardinality(Decoded(got + n))
        /\ header' = HeaderAfter(got + n)
        /\ UNCHANGED <<step, told, buf, total>>
    BY <1>6 DEF RecvHead
  <2> DEFINE lines == Cardinality(Decoded(got + n))
  <2>2. lines \in 0 .. got + n /\ used <= lines
    <3>1. got + n \in Nat /\ got <= got + n
      BY <1>1, <1>3
    <3>2. QED
      BY <1>1, <1>2, <1>3, <3>1, DecodedCount
  <2> HIDE DEF lines
  <2>3. used' \in 0 .. got' /\ got' <= used' + Buffer
    <3>1. used' = lines
      BY <2>1 DEF lines
    <3>2. QED
      BY <1>1, <1>3, <1>4, <2>2, <3>1
  <2>4. /\ header' \in [known : BOOLEAN, length : Nat]
        /\ header'.known => header'.length > 0
    BY <1>1, <1>3, <2>1, HeaderAfterShape
  <2>5. QED
    BY <1>1, <1>4, <1>5, <1>6, <2>1, <2>3, <2>4
<1>7. CASE HeaderEnds(got + n) # {}
  <2> DEFINE last == CHOOSE p \in HeaderEnds(got + n) :
                        \A q \in HeaderEnds(got + n) : p <= q
  <2>1. \A q \in HeaderEnds(got + n) : q = Len(response.lines)
    BY <1>1, EndIsLast DEF HeaderEnds
  <2>2. Len(response.lines) \in HeaderEnds(got + n)
    BY <1>7, <2>1
  <2>3. last = Len(response.lines)
    BY <1>2, <2>1, <2>2
  <2>4. Len(response.lines) <= got + n /\ Len(response.lines) > got
    BY <1>1, <1>2, <1>3, <2>2 DEF HeaderEnds
  <2>5. /\ used' = last /\ header' = HeaderAfter(last)
        /\ IF StatusAt(last) = "2xx" /\ header'.known
             THEN /\ total' = header'.length
                  /\ step' = "body"
                  /\ UNCHANGED <<told, buf>>
             ELSE GiveUp /\ UNCHANGED total
    BY <1>7 DEF RecvHead
  <2>6. /\ header' \in [known : BOOLEAN, length : Nat]
        /\ header'.known => header'.length > 0
    BY <1>1, <1>3, <2>5, HeaderAfterShape
  <2> HIDE DEF last
  <2>7. used' \in 0 .. got' /\ got' <= used' + Buffer
    BY <1>1, <1>2, <1>3, <1>4, <2>3, <2>4, <2>5
  <2>8. \/ /\ step' = "body" /\ total' \in Nat \ {0}
           /\ UNCHANGED <<told, buf>>
        \/ Failed /\ buf' = FALSE /\ UNCHANGED total
    BY <2>5, <2>6 DEF GiveUp
  <2>9. QED
    BY <1>1, <1>4, <1>5, <2>3, <2>5, <2>6, <2>7, <2>8
<1>8. QED
  BY <1>6, <1>7

\* What a read of the body comes to: the next pieces of the file, or the end.
LEMMA BodyRead ==
    ASSUME IInv, NEW n \in 1 .. Buffer, RecvBody(n)
    PROVE  /\ buf /\ total # 0 /\ told = "started"
           /\ got' = got + n /\ got' <= sent /\ used' = got'
           /\ Len(response.lines) <= used' /\ used < used' /\ used' \in Nat
           /\ image = Whole(used - Len(response.lines))
           /\ UNCHANGED <<size, attempt, misled, response, sent, hung, header,
                          sock, old, total, timerVars>>
           /\ \/ Failed /\ buf' = FALSE /\ UNCHANGED <<image, received>>
              \/ /\ image' = Whole(used' - Len(response.lines))
                 /\ used' - Len(response.lines) <= size
                 /\ received' \in Nat
                 /\ told' = told
                 /\ \/ step' = "finish" /\ buf' = FALSE
                    \/ step' = "body" /\ buf' = TRUE
<1>1. /\ TypeOK /\ step = "body" /\ buf /\ total # 0 /\ told = "started"
      /\ response \in Responses(size)
      /\ Len(response.lines) <= used
      /\ image = Whole(used - Len(response.lines))
      /\ Buffer \in Nat \ {0} /\ size \in Sizes
  BY BufferAssumption
  DEF IInv, TypeOK, MainTypeOK, HttpTypeOK, Phases, HttpImage, RecvBody
<1>2. /\ response.lines \in Seq(Lines) /\ Units(response) \in Nat
      /\ Units(response) = Len(response.lines) + response.pieces
      /\ Len(response.lines) \in Nat
  BY <1>1, ResponseType
<1>3. /\ got \in Nat /\ sent \in Nat /\ used \in Nat /\ used <= got
      /\ sent <= Units(response) /\ received \in Nat /\ total \in Nat
      /\ buf \in BOOLEAN
  BY <1>1, <1>2 DEF TypeOK, HttpTypeOK
<1>4. response.pieces \in 0 .. size /\ size \in Nat
  BY <1>1, FotaAssumption, ResponseShape
<1>5. /\ got' = got + n /\ got' <= sent /\ used' = got'
      /\ UNCHANGED <<response, sent, hung, size, attempt, misled, header, sock,
                     old, total, timerVars>>
  BY <1>1, <1>3 DEF RecvBody, Recv
<1>6. /\ Len(response.lines) <= used' /\ used < used' /\ used' \in Nat
      /\ used' - Len(response.lines) <= size
  BY <1>1, <1>2, <1>3, <1>4, <1>5
<1>7. CASE GiveUp /\ UNCHANGED <<image, received>>
  BY <1>1, <1>5, <1>6, <1>7 DEF GiveUp
<1>8. CASE /\ image' = image \o Pieces(used, got + n)
           /\ received' = received + (got + n - used)
           /\ step' = IF received' >= total THEN "finish" ELSE "body"
           /\ buf' = (received' < total)
           /\ UNCHANGED told
  <2>1. Pieces(used, got + n) =
           [i \in 1 .. got + n - used |-> used - Len(response.lines) + i]
    BY <1>2, <1>3 DEF Pieces
  <2>2. /\ used - Len(response.lines) \in Nat /\ got + n - used \in Nat
        /\ (used - Len(response.lines)) + (got + n - used) =
             used' - Len(response.lines)
    BY <1>1, <1>2, <1>3, <1>5
  <2> DEFINE k == used - Len(response.lines)
             m == got + n - used
  <2>a. Whole(k) \o [i \in 1 .. m |-> k + i] = Whole(k + m)
    <3> HIDE DEF k, m
    <3>1. QED BY <2>2, WholeGrows DEF k, m
  <2>3. image' = Whole(used' - Len(response.lines))
    <3>1. image' = Whole(k) \o [i \in 1 .. m |-> k + i]
      BY <1>1, <1>8, <2>1
    <3>2. QED BY <2>2, <2>a, <3>1
  <2>4. received' \in Nat
    BY <1>3, <1>8, <2>2
  <2>5. (step' = "finish" /\ buf' = FALSE) \/ (step' = "body" /\ buf' = TRUE)
    <3>1. CASE received' < total
      <4>1. ~(received' >= total)
        BY <1>3, <2>4, <3>1
      <4>2. QED BY <1>8, <3>1, <4>1, Zenon
    <3>2. CASE ~(received' < total)
      <4>1. received' >= total
        BY <1>3, <2>4, <3>2
      <4>2. (received' < total) = FALSE
        BY <3>2, <1>3, <2>4
      <4>3. QED BY <1>8, <4>1, <4>2, Zenon
    <3>3. QED BY <3>1, <3>2
  <2>6. QED
    BY <1>1, <1>5, <1>6, <1>8, <2>3, <2>4, <2>5
<1>9. QED
  BY <1>7, <1>8 DEF RecvBody

-----------------------------------------------------------------------------
\* Types

LEMMA MainTypeStep ==
    ASSUME IInv, [Next]_vars
    PROVE  MainTypeOK'
<1>a. MainTypeOK /\ HttpTypeOK /\ FtpTypeOK /\ Phases /\ FtpImage
  BY DEF IInv, TypeOK
<1>b. /\ Sizes \subseteq Nat \ {0} /\ MaxAttempts \in Nat
      /\ size \in Nat /\ attempt \in Nat
  BY <1>a, FotaAssumption DEF MainTypeOK
<1>c. Begin => attempt' \in 0 .. MaxAttempts /\ size' \in Sizes
  BY <1>b DEF Begin
<1>1. CASE StartHttp \/ \E u \in Urls : StartFtp(u)
  <2>1. Begin /\ image' = <<>> /\ told' \in {"none", "started", "failed"}
        /\ step' \in {"idle", "fault"} /\ misled' \in {{}, {<<"url", "started">>}}
    BY <1>1 DEF StartHttp, StartFtp, Failed, Started
  <2>2. image' \in Seq(Nat)
    BY <2>1
  <2>3. misled' \subseteq Reporters \X {"started", "ready"}
    <3>1. <<"url", "started">> \in Reporters \X {"started", "ready"}
      BY DEF Reporters
    <3>2. QED BY <2>1, <3>1
  <2>4. QED BY <1>c, <2>1, <2>2, <2>3 DEF MainTypeOK
<1>2. CASE Refuse
  <2>1. image' \in Seq(Nat)
    <3>1. <<>> \in Seq(Nat) /\ image \in Seq(Nat)
      BY <1>a DEF MainTypeOK
    <3>2. QED BY <1>2, <3>1 DEF Refuse
  <2>2. QED
    BY <1>2, <1>c, <2>1 DEF Refuse, Failed, MainTypeOK
<1>3. CASE Resolved \/ ReadCallback \/ WouldBlock \/ RecvFails
  BY <1>3, <1>a
  DEF Resolved, ReadCallback, WouldBlock, RecvFails, GiveUp, Failed, MainTypeOK
<1>4. ASSUME NEW n \in 1 .. Buffer, RecvHead(n) PROVE MainTypeOK'
  BY <1>4, <1>a, HeadRead DEF Failed, MainTypeOK
<1>5. ASSUME NEW n \in 1 .. Buffer, RecvBody(n) PROVE MainTypeOK'
  <2>1. image' \in Seq(Nat)
    <3>1. CASE image' = image
      BY <1>a, <3>1 DEF MainTypeOK
    <3>2. CASE image' = Whole(used' - Len(response.lines))
      <4>1. used' - Len(response.lines) \in Nat
        <5>1. response.lines \in Seq(Lines)
          BY <1>a, ResponseType DEF HttpTypeOK
        <5>2. used' \in Nat /\ Len(response.lines) <= used'
          BY <1>5, BodyRead
        <5>3. QED BY <5>1, <5>2
      <4>2. QED BY <3>2, <4>1, WholeGrows
    <3>3. QED BY <1>5, <3>1, <3>2, BodyRead
  <2>2. QED
    BY <1>5, <1>a, <2>1, BodyRead DEF Failed, MainTypeOK
<1>6. ASSUME NEW by \in {"timer", "stray timer", "socket"}, Alarm(by)
      PROVE  MainTypeOK'
  <2>1. misled' \subseteq Reporters \X {"started", "ready"}
    <3>1. CASE misled' = misled \cup {<<by, told>>} /\ told \in {"started", "ready"}
      <4>1. by \in Reporters
        BY DEF Reporters
      <4>2. <<by, told>> \in Reporters \X {"started", "ready"}
        BY <3>1, <4>1
      <4>3. QED BY <1>a, <3>1, <4>2 DEF MainTypeOK
    <3>2. CASE misled' = misled
      BY <1>a, <3>2 DEF MainTypeOK
    <3>3. QED BY <1>6, <3>1, <3>2 DEF Alarm
  <2>2. QED
    BY <1>6, <1>a, <2>1 DEF Alarm, MainTypeOK
<1>7. CASE Downloaded \/ Conclude \/ UpdateLater
  BY <1>7, <1>a DEF Downloaded, Conclude, UpdateLater, Failed, MainTypeOK
<1>8. ASSUME NEW n \in 1 .. Chunk, Copy(n) PROVE MainTypeOK'
  <2>1. n \in Nat /\ toCopy \in Nat /\ n <= toCopy /\ toCopy <= size
        /\ image = Whole(size - toCopy)
    BY <1>8, <1>a, FtpAssumption DEF Copy, FtpTypeOK, FtpImage
  <2>2. image' \in Seq(Nat)
    <3>1. CASE image' = image
      BY <1>a, <3>1 DEF MainTypeOK
    <3>2. CASE image' = image \o [i \in 1 .. n |-> size - toCopy + i]
      <4> DEFINE k == size - toCopy
      <4>1. k \in Nat /\ k + n \in Nat
        BY <1>b, <2>1
      <4>2. image' = Whole(k) \o [i \in 1 .. n |-> k + i]
        BY <2>1, <3>2
      <4> HIDE DEF k
      <4>3. QED BY <2>1, <4>1, <4>2, WholeGrows
    <3>3. QED BY <1>8, <3>1, <3>2 DEF Copy
  <2>3. QED
    BY <1>8, <1>a, <2>2 DEF Copy, Failed, MainTypeOK
<1>9. CASE Server \/ UNCHANGED vars
  BY <1>9, <1>a DEF Server, vars, mainVars, MainTypeOK
<1>10. QED
  BY <1>1, <1>2, <1>3, <1>4, <1>5, <1>6, <1>7, <1>8, <1>9
  DEF Next, HttpNext, FtpNext, Receive, TimerFires, SocketError

LEMMA HttpTypeStep ==
    ASSUME IInv, [Next]_vars
    PROVE  HttpTypeOK'
<1>a. HttpTypeOK /\ Phases /\ HttpImage
  BY DEF IInv, TypeOK
<1>b. /\ response.lines \in Seq(Lines) /\ Units(response) \in Nat
      /\ got \in Nat /\ sent \in Nat /\ used \in Nat /\ Buffer \in Nat
  BY <1>a, ResponseType, BufferAssumption DEF HttpTypeOK
<1>c. response' = response => Units(response)' = Units(response)
  BY DEF Units
<1>1. ASSUME Ask, size' \in Sizes, sock' \in {"none", "resolving", "open"},
             old' \in BOOLEAN, total' \in Nat, received' \in Nat, header' = header
      PROVE  HttpTypeOK'
  <2>1. Units(response') \in Nat
    BY <1>1, ResponseType DEF Ask
  <2>2. /\ sent' = 0 /\ got' = 0 /\ used' = 0
        /\ hung' \in BOOLEAN /\ buf' \in BOOLEAN
        /\ timer' \in BOOLEAN /\ timerOn' \in BOOLEAN
        /\ response' \in Responses(size')
    BY <1>1 DEF Ask
  <2>3. /\ used' \in 0 .. got' /\ got' \in 0 .. sent'
        /\ sent' \in 0 .. Units(response)' /\ got' <= used' + Buffer
    BY <1>b, <2>1, <2>2
  <2>4. QED
    BY <1>1, <1>a, <2>2, <2>3 DEF HttpTypeOK
<1>2. CASE StartHttp
  <2>1. /\ size' \in Sizes /\ sock' \in {"none", "resolving", "open"}
        /\ old' \in BOOLEAN /\ total' = 0 /\ received' = 0 /\ header' = header
    BY <1>2, <1>a DEF StartHttp, Begin, Ask, HttpTypeOK
  <2>2. CASE Ask
    BY <1>1, <2>1, <2>2
  <2>3. CASE ~Ask
    <3>1. /\ buf' \in BOOLEAN /\ timer' \in BOOLEAN /\ timerOn' \in BOOLEAN
          /\ UNCHANGED <<response, sent, got, used, hung>>
      BY <1>2, <1>a, <2>3 DEF StartHttp, streamVars, HttpTypeOK
    <3>2. QED
      BY <1>a, <1>c, <2>1, <3>1 DEF HttpTypeOK
  <2>4. QED BY <2>2, <2>3
<1>3. CASE Resolved
  <2>1. /\ size' = size /\ sock' \in {"none", "open"}
        /\ UNCHANGED <<old, total, received, header>>
    BY <1>3 DEF Resolved, Ask
  <2>2. CASE Ask
    <3>1. size' \in Sizes
      BY <2>1 DEF IInv, TypeOK, MainTypeOK
    <3>2. QED BY <1>a, <1>1, <2>1, <2>2, <3>1 DEF HttpTypeOK
  <2>3. CASE ~Ask
    BY <1>3, <1>a, <1>b, <1>c, <2>1, <2>3
    DEF Resolved, streamVars, timerVars, HttpTypeOK
  <2>4. QED BY <2>2, <2>3
<1>4. CASE ReadCallback \/ WouldBlock \/ RecvFails \/ TimerFires \/ SocketError
  BY <1>4, <1>a, <1>b, <1>c
  DEF ReadCallback, WouldBlock, RecvFails, GiveUp, TimerFires, SocketError, Alarm,
      streamVars, transferVars, timerVars, HttpTypeOK
<1>5. ASSUME NEW n \in 1 .. Buffer, RecvHead(n) PROVE HttpTypeOK'
  <2>1. /\ got' = got + n /\ got' <= sent /\ sent' = sent
        /\ used' \in 0 .. got' /\ got' <= used' + Buffer
        /\ response' = response /\ hung' = hung /\ buf' \in BOOLEAN
        /\ total' \in Nat /\ header' \in [known : BOOLEAN, length : Nat]
        /\ UNCHANGED <<sock, old, received, timer, timerOn>>
    BY <1>5, <1>a, HeadRead DEF timerVars, HttpTypeOK
  <2>2. got' \in 0 .. sent' /\ sent' \in 0 .. Units(response)'
    BY <1>a, <1>b, <1>c, <2>1 DEF HttpTypeOK
  <2>3. QED
    BY <1>a, <2>1, <2>2 DEF HttpTypeOK
<1>6. ASSUME NEW n \in 1 .. Buffer, RecvBody(n) PROVE HttpTypeOK'
  <2>1. /\ got' = got + n /\ got' <= sent /\ sent' = sent /\ used' = got'
        /\ response' = response /\ hung' = hung /\ buf' \in BOOLEAN
        /\ total' = total /\ received' \in Nat
        /\ UNCHANGED <<sock, old, header, timer, timerOn>>
    BY <1>6, <1>a, BodyRead DEF timerVars, HttpTypeOK
  <2>2. /\ got' \in 0 .. sent' /\ sent' \in 0 .. Units(response)'
        /\ used' \in 0 .. got' /\ got' <= used' + Buffer
    BY <1>a, <1>b, <1>c, <2>1 DEF HttpTypeOK
  <2>3. QED
    BY <1>a, <2>1, <2>2 DEF HttpTypeOK
<1>7. CASE Server
  <2>1. /\ sent' = sent \/ sent' \in sent + 1 .. Units(response)
        /\ hung' \in BOOLEAN
        /\ UNCHANGED <<response, got, used, transferVars, timerVars>>
    BY <1>7, <1>a DEF Server, Arrive, HangUp, HttpTypeOK
  <2>2. got' \in 0 .. sent' /\ sent' \in 0 .. Units(response)'
    BY <1>a, <1>b, <1>c, <2>1 DEF HttpTypeOK
  <2>3. QED
    BY <1>a, <2>1, <2>2 DEF transferVars, timerVars, HttpTypeOK
<1>8. CASE UNCHANGED httpVars
  BY <1>8, <1>a, <1>c
  DEF httpVars, streamVars, transferVars, timerVars, HttpTypeOK
<1>9. QED
  BY <1>2, <1>3, <1>4, <1>5, <1>6, <1>7, <1>8 DEF Next, HttpNext, Receive, vars

LEMMA FtpTypeStep ==
    ASSUME IInv, [Next]_vars
    PROVE  FtpTypeOK'
<1>a. MainTypeOK /\ FtpTypeOK
  BY DEF IInv, TypeOK
<1>1. ASSUME NEW u \in Urls, StartFtp(u) PROVE FtpTypeOK'
  <2>1. target' \in [Fields -> Seq(Letters)]
    BY <1>1, <1>a, CopiedFacts DEF StartFtp
  <2>4. port' \in Seq(Letters)
    <3>1. Rows(Text(u)).port = Part(":", u.port)
      BY RowPort
    <3>2. ":" \in Letters /\ u.port \in Seq(Letters)
      BY PartsOfUrl DEF Letters
    <3>3. /\ Part(":", u.port) = <<>> <=> u.port = <<>>
          /\ u.port # <<>> => Tail(Part(":", u.port)) = u.port
      BY ONLY <3>2, PartIs
    <3>4. DefaultPort \in Seq(Letters)
      BY DEF DefaultPort, Letters
    <3>5. port' = Port(Rows(Text(u)))
      BY <1>1 DEF StartFtp
    <3>6. QED BY <3>1, <3>2, <3>3, <3>4, <3>5 DEF Port
  <2>2. getting' \in BOOLEAN
    BY <1>1, <1>a DEF StartFtp, FtpTypeOK
  <2>3. QED
    BY <1>1, <1>a, <2>1, <2>2, <2>4 DEF StartFtp, FtpTypeOK
<1>2. CASE Downloaded
  <2>1. size \in Nat
    BY <1>a, FotaAssumption DEF MainTypeOK
  <2>2. QED
    BY <1>2, <1>a, <2>1 DEF Downloaded, FtpTypeOK
<1>3. ASSUME NEW n \in 1 .. Chunk, Copy(n) PROVE FtpTypeOK'
  <2>1. n \in Nat /\ n <= toCopy /\ toCopy \in Nat
    BY <1>3, <1>a, FtpAssumption DEF Copy, FtpTypeOK
  <2>2. QED
    BY <1>3, <1>a, <2>1 DEF Copy, FtpTypeOK
<1>4. CASE UNCHANGED ftpVars
  BY <1>4, <1>a DEF ftpVars, FtpTypeOK
<1>5. QED
  BY <1>1, <1>2, <1>3, <1>4 DEF Next, FtpNext, vars

-----------------------------------------------------------------------------
\* The parts of the invariant

LEMMA PhasesStep ==
    ASSUME IInv, [Next]_vars
    PROVE  Phases'
<1>a. MainTypeOK /\ HttpTypeOK /\ FtpTypeOK /\ Phases
  BY DEF IInv, TypeOK
<1>1. CASE HttpNext /\ UNCHANGED ftpVars
  <2>1. CASE StartHttp \/ Resolved
    BY <1>1, <1>a, <2>1
    DEF Phases, HttpTypeOK, StartHttp, Resolved, Begin, Ask, Started, Failed,
        streamVars, ftpVars
  <2>2. CASE ReadCallback \/ WouldBlock \/ RecvFails
    BY <1>1, <1>a, <2>2
    DEF Phases, MainTypeOK, ReadCallback, WouldBlock, RecvFails, Reading, GiveUp,
        Failed, streamVars, transferVars, ftpVars
  <2>3. ASSUME NEW n \in 1 .. Buffer, RecvHead(n) PROVE Phases'
    BY <1>1, <1>a, <2>3, HeadRead DEF Phases, RecvHead, Failed, ftpVars
  <2>4. ASSUME NEW n \in 1 .. Buffer, RecvBody(n) PROVE Phases'
    BY <1>1, <1>a, <2>4, BodyRead DEF Phases, RecvBody, Failed, ftpVars
  <2>5. CASE TimerFires \/ SocketError \/ Server
    BY <1>1, <1>a, <2>5
    DEF Phases, HttpTypeOK, TimerFires, SocketError, Alarm, Server, Arrive, HangUp,
        mainVars, transferVars, ftpVars
  <2>6. QED BY <1>1, <2>1, <2>2, <2>3, <2>4, <2>5 DEF HttpNext, Receive
<1>2. CASE FtpNext /\ UNCHANGED httpVars
  <2>1. ASSUME NEW u \in Urls, StartFtp(u) PROVE Phases'
    BY <1>2, <1>a, <2>1
    DEF Phases, FtpTypeOK, StartFtp, Begin, Started, Failed, httpVars, transferVars
  <2>2. CASE Downloaded
    BY <1>2, <1>a, <2>2 DEF Phases, Downloaded, Failed, httpVars, transferVars
  <2>3. ASSUME NEW n \in 1 .. Chunk, Copy(n) PROVE Phases'
    BY <1>2, <1>a, <2>3 DEF Phases, Copy, Failed, httpVars, transferVars
  <2>4. QED BY <1>2, <2>1, <2>2, <2>3 DEF FtpNext
<1>3. CASE (Refuse \/ Conclude \/ UpdateLater) /\ UNCHANGED <<httpVars, ftpVars>>
  BY <1>3, <1>a
  DEF Phases, Refuse, Begin, Conclude, UpdateLater, Failed, httpVars,
      transferVars, ftpVars
<1>4. CASE UNCHANGED vars
  BY <1>4, <1>a DEF Phases, vars, mainVars, httpVars, transferVars, ftpVars
<1>5. QED
  BY <1>1, <1>2, <1>3, <1>4 DEF Next

LEMMA NothingLeftStep ==
    ASSUME IInv, [Next]_vars
    PROVE  NothingLeft'
<1>a. MainTypeOK /\ HttpTypeOK /\ Phases /\ NothingLeft
  BY DEF IInv, TypeOK
<1>b. attempt \in Nat
  BY <1>a, FotaAssumption DEF MainTypeOK
<1>c. ASSUME Begin
      PROVE  attempt' # 0 /\ (attempt' <= 1 => attempt = 0)
  BY <1>b, <1>c DEF Begin
<1>d. attempt = 0 => sock = "none" /\ ~timer /\ ~old /\ ~timerOn
  BY <1>a, <1>b DEF NothingLeft
<1>1. CASE HttpNext /\ UNCHANGED ftpVars
  <2>1. CASE StartHttp
    <3>1. attempt' # 0 /\ (attempt' <= 1 => attempt = 0)
      BY <1>c, <2>1 DEF StartHttp
    <3>2. CASE attempt = 0
      <4>1. ~old'
        BY <1>d, <2>1, <3>2, Zenon DEF StartHttp
      <4>2. CASE Started /\ Ask
        <5>1. step' = "idle" /\ told' = "started" /\ buf' = TRUE
          BY <4>2 DEF Started, Ask
        <5>2. QED BY <3>1, <4>1, <5>1 DEF NothingLeft
      <4>3. CASE /\ timerOn' = FALSE /\ UNCHANGED timer
                 /\ sock' \in {"none", "resolving"}
        BY <1>d, <3>1, <3>2, <4>1, <4>3 DEF NothingLeft
      <4>4. QED BY <2>1, <4>2, <4>3 DEF StartHttp
    <3>3. CASE attempt # 0
      <4>1. attempt' # 0 /\ ~(attempt' <= 1) /\ attempt' # 1
        BY <1>b, <2>1, <3>1, <3>3 DEF StartHttp, Begin
      <4>2. QED BY <4>1 DEF NothingLeft
    <3>4. QED BY <3>2, <3>3
  <2>2. CASE Resolved
    BY <1>a, <1>b, <2>2
    DEF NothingLeft, Phases, Resolved, Ask, Failed, timerVars
  <2>3. CASE ReadCallback \/ WouldBlock \/ RecvFails
    BY <1>a, <1>b, <2>3
    DEF NothingLeft, Phases, HttpTypeOK, ReadCallback, WouldBlock, RecvFails,
        Reading, GiveUp, Failed, transferVars, timerVars
  <2>4. ASSUME NEW n \in 1 .. Buffer, RecvHead(n) \/ RecvBody(n)
        PROVE  NothingLeft'
    <3>1. /\ UNCHANGED <<attempt, sock, old, timer, timerOn>>
          /\ told = "started" /\ step \in {"head", "body"}
      BY <2>4, HeadRead, BodyRead DEF timerVars, RecvHead, RecvBody
    <3>2. \/ told' = "failed"
          \/ told' = "started" /\ step' \in {"head", "body", "finish"}
      BY <2>4, <3>1, HeadRead, BodyRead DEF Failed
    <3>3. QED
      BY <1>a, <1>b, <3>1, <3>2 DEF NothingLeft
  <2>5. CASE TimerFires
    BY <1>a, <1>b, <2>5 DEF NothingLeft, TimerFires, Alarm
  <2>6. CASE SocketError
    <3>1. told # "none" /\ UNCHANGED <<step, attempt, sock, old, timer, timerOn>>
      BY <2>6 DEF SocketError, Alarm, timerVars
    <3>2. CASE told = "started" /\ buf
      <4>1. told' = "failed"
        BY <2>6, <3>2 DEF SocketError, Alarm
      <4>2. QED BY <1>a, <3>1, <3>2, <4>1 DEF NothingLeft
    <3>3. CASE ~(told = "started" /\ buf)
      <4>1. told' = told /\ buf' = FALSE
        BY <2>6, <3>3 DEF SocketError, Alarm
      <4>2. told = "started" => ~buf
        BY <3>3
      <4>3. QED BY <1>a, <3>1, <4>1, <4>2 DEF NothingLeft
    <3>4. QED BY <3>2, <3>3
  <2>7. CASE Server
    BY <1>a, <2>7 DEF NothingLeft, Server, mainVars, transferVars, timerVars
  <2>8. QED BY <1>1, <2>1, <2>2, <2>3, <2>4, <2>5, <2>6, <2>7 DEF HttpNext, Receive
<1>2. CASE FtpNext /\ UNCHANGED httpVars
  <2>1. UNCHANGED <<sock, old, buf, timer, timerOn>>
    BY <1>2 DEF httpVars, transferVars, timerVars
  <2>2. ASSUME NEW u \in Urls, StartFtp(u) PROVE NothingLeft'
    <3>1. attempt' # 0 /\ (attempt' <= 1 => attempt = 0)
      BY <1>c, <2>2 DEF StartFtp
    <3>2. attempt' = 1 => attempt = 0
      BY <3>1
    <3>3. QED BY <1>d, <2>1, <3>1, <3>2 DEF NothingLeft
  <2>3. CASE Downloaded
    BY <1>a, <1>b, <2>1, <2>3 DEF NothingLeft, Phases, Downloaded, Failed
  <2>4. ASSUME NEW n \in 1 .. Chunk, Copy(n) PROVE NothingLeft'
    BY <1>a, <1>b, <2>1, <2>4 DEF NothingLeft, Phases, Copy, Failed
  <2>5. QED BY <1>2, <2>2, <2>3, <2>4 DEF FtpNext
<1>3. CASE Refuse /\ UNCHANGED httpVars
  <2>1. UNCHANGED <<sock, old, buf, timer, timerOn>>
    BY <1>3 DEF httpVars, transferVars, timerVars
  <2>2. attempt' # 0 /\ (attempt' <= 1 => attempt = 0)
    BY <1>c, <1>3 DEF Refuse
  <2>3. attempt' = 1 => attempt = 0
    BY <2>2
  <2>4. QED BY <1>d, <2>1, <2>2, <2>3 DEF NothingLeft
<1>4. CASE (Conclude \/ UpdateLater) /\ UNCHANGED httpVars
  BY <1>4, <1>a, <1>b
  DEF NothingLeft, Phases, Conclude, UpdateLater, Failed, httpVars, transferVars,
      timerVars
<1>5. CASE UNCHANGED vars
  BY <1>5, <1>a DEF NothingLeft, vars, mainVars, httpVars, transferVars, timerVars
<1>6. QED
  BY <1>1, <1>2, <1>3, <1>4, <1>5 DEF Next

LEMMA AlarmsStep ==
    ASSUME IInv, [Next]_vars
    PROVE  FalseAlarmsAreLeftovers'
<1>a. /\ MainTypeOK /\ HttpTypeOK /\ Phases /\ NothingLeft
      /\ FalseAlarmsAreLeftovers
  BY DEF IInv, TypeOK
<1>1. CASE StartHttp \/ (\E u \in Urls : StartFtp(u)) \/ Refuse
  <2>1. misled' \subseteq {<<"url", "started">>}
    BY <1>1 DEF StartHttp, StartFtp, Refuse
  <2>2. QED BY <2>1 DEF FalseAlarmsAreLeftovers
<1>2. ASSUME NEW by, Alarm(by),
             \/ by = "socket" /\ (sock = "open" \/ old)
             \/ timer /\ by = IF timerOn THEN "timer" ELSE "stray timer"
      PROVE  FalseAlarmsAreLeftovers'
  <2>1. SUFFICES ASSUME attempt = 1, misled' # misled
                 PROVE  <<by, told>> \in {<<"stray timer", "ready">>,
                                         <<"socket", "ready">>}
    BY <1>a, <1>2 DEF FalseAlarmsAreLeftovers, Alarm
  <2>2. step = "idle" /\ (told = "ready" \/ (told = "started" /\ ~buf))
    BY <1>2, <2>1 DEF Alarm
  <2>3. /\ ~old
        /\ told = "started" /\ ~buf => sock # "open" /\ ~timer
        /\ told = "ready" => ~timerOn
    BY <1>a, <2>1, <2>2 DEF NothingLeft
  <2>4. told = "ready" /\ by \in {"stray timer", "socket"}
    BY <1>2, <2>2, <2>3
  <2>5. QED BY <2>4
<1>3. CASE UNCHANGED <<misled, attempt>>
  BY <1>a, <1>3 DEF FalseAlarmsAreLeftovers
<1>4. CASE TimerFires \/ SocketError
  BY <1>2, <1>4 DEF TimerFires, SocketError
<1>5. ASSUME NEW n \in 1 .. Buffer, RecvHead(n) \/ RecvBody(n)
      PROVE  UNCHANGED <<misled, attempt>>
  BY <1>5, HeadRead, BodyRead
<1>6. CASE Resolved \/ ReadCallback \/ WouldBlock \/ RecvFails \/ Server
           \/ Downloaded \/ (\E n \in 1 .. Chunk : Copy(n)) \/ Conclude
           \/ UpdateLater \/ UNCHANGED vars
  BY <1>3, <1>6
  DEF Resolved, ReadCallback, WouldBlock, RecvFails, Server, Downloaded, Copy,
      Conclude, UpdateLater, vars, mainVars
<1>7. QED
  BY <1>1, <1>3, <1>4, <1>5, <1>6 DEF Next, HttpNext, FtpNext, Receive

\* A request begins with nothing decoded.
LEMMA AskIsFresh ==
    ASSUME Ask, size' \in Sizes
    PROVE  HeaderEnds(got)' = {} /\ used' = Cardinality(Decoded(got))'
<1>1. response' \in Responses(size') /\ got' = 0 /\ used' = 0
  BY DEF Ask
<1>2. response'.lines \in Seq(Lines)
  BY <1>1, ResponseType
<1>3. \A q \in DOMAIN response'.lines : ~(q <= 0)
  BY <1>2
<1>4. HeaderEnds(got)' = {} /\ Decoded(got)' = {}
  BY <1>1, <1>3 DEF HeaderEnds, Decoded
<1>5. QED
  BY <1>1, <1>4, FS_EmptySet

LEMMA HttpImageStep ==
    ASSUME IInv, [Next]_vars
    PROVE  HttpImage'
<1>a. MainTypeOK /\ HttpTypeOK /\ Phases /\ HttpImage
  BY DEF IInv, TypeOK
<1>b. ASSUME buf' = FALSE, header' = header, sock' # "resolving"
      PROVE  HttpImage'
  BY <1>a, <1>b DEF HttpImage
<1>c. ASSUME UNCHANGED <<response, size, image, got, used, total, header, sock>>,
             buf' => buf
      PROVE  HttpImage'
  BY <1>a, <1>c, DecoderKept DEF HttpImage
<1>1. CASE StartHttp
  <2>1. size' \in Sizes /\ image' = <<>> /\ total' = 0 /\ header' = header
    BY <1>1 DEF StartHttp, Begin
  <2>2. CASE Ask
    <3>1. response' \in Responses(size')
      BY <2>2 DEF Ask
    <3>2. QED
      BY <1>a, <2>1, <2>2, <3>1, AskIsFresh DEF HttpImage
  <2>3. CASE ~Ask
    BY <1>1, <1>a, <2>1, <2>3 DEF StartHttp, HttpImage
  <2>4. QED BY <2>2, <2>3
<1>2. CASE Resolved
  <2>1. /\ size' = size /\ size \in Sizes /\ image' = <<>> /\ total' = 0
        /\ header' = header
    BY <1>2, <1>a DEF Resolved, HttpImage, MainTypeOK
  <2>2. CASE Ask
    <3>1. response' \in Responses(size') /\ sock' = "open"
      BY <2>2 DEF Ask
    <3>2. QED
      BY <1>a, <2>1, <2>2, <3>1, AskIsFresh DEF HttpImage
  <2>3. CASE ~Ask
    <3>1. ~buf
      BY <1>2, <1>a DEF Resolved, Phases
    <3>2. sock' = "none" /\ buf' = buf
      BY <1>2, <2>3 DEF Resolved
    <3>3. QED
      BY <1>a, <2>1, <3>1, <3>2 DEF HttpImage
  <2>4. QED BY <2>2, <2>3
<1>3. CASE ReadCallback \/ WouldBlock \/ Server
  BY <1>3, <1>c
  DEF ReadCallback, WouldBlock, Server, Arrive, HangUp, mainVars, streamVars,
      transferVars
<1>4. CASE RecvFails \/ TimerFires \/ SocketError
  BY <1>4, <1>c DEF RecvFails, GiveUp, TimerFires, SocketError, Alarm, streamVars
<1>5. ASSUME NEW n \in 1 .. Buffer, RecvHead(n) PROVE HttpImage'
  <2>a. /\ buf /\ total = 0 /\ image = <<>> /\ response \in Responses(size)
        /\ sock # "resolving"
    BY <1>5, <1>a, HeadRead DEF Phases, HttpImage
  <2>b. /\ UNCHANGED <<image, size, response, sock>>
        /\ header'.known => header'.length > 0
    BY <1>5, HeadRead
  <2>1. CASE /\ HeaderEnds(got') = {} /\ used' = Cardinality(Decoded(got'))
             /\ total' = total
    BY <2>a, <2>b, <2>1, DecoderKept DEF HttpImage
  <2>2. CASE used' = Len(response.lines) /\ total' \in Nat \ {0}
    <3>1. response.lines \in Seq(Lines)
      BY <1>a, ResponseType DEF HttpTypeOK
    <3>2. Whole(used' - Len(response'.lines)) = <<>>
      BY <2>b, <2>2, <3>1 DEF Whole
    <3>3. Len(response'.lines) <= used'
      BY <2>b, <2>2, <3>1
    <3>4. QED
      BY <2>a, <2>b, <2>2, <3>2, <3>3 DEF HttpImage
  <2>3. CASE buf' = FALSE
    BY <2>a, <2>b, <2>3 DEF HttpImage
  <2>4. QED
    BY <1>5, <2>1, <2>2, <2>3, HeadRead
<1>6. ASSUME NEW n \in 1 .. Buffer, RecvBody(n) PROVE HttpImage'
  <2>a. /\ buf /\ total # 0 /\ response \in Responses(size)
        /\ UNCHANGED <<size, response, sock, total, header>>
        /\ Len(response.lines) <= used' /\ sock # "resolving"
    BY <1>6, <1>a, BodyRead DEF Phases, HttpImage
  <2>1. CASE buf' = FALSE
    BY <2>1, <2>a, <1>b
  <2>2. CASE image' = Whole(used' - Len(response.lines))
    BY <1>a, <2>a, <2>2 DEF HttpImage
  <2>3. QED
    BY <1>6, <2>1, <2>2, BodyRead
<1>7. CASE FtpNext /\ UNCHANGED httpVars
  <2>1. CASE Downloaded
    BY <1>7, <1>c, <2>1
    DEF Downloaded, httpVars, streamVars, transferVars
  <2>2. CASE (\E u \in Urls : StartFtp(u)) \/ (\E n \in 1 .. Chunk : Copy(n))
    <3>1. buf = FALSE /\ sock # "resolving"
      BY <1>a, <2>2 DEF StartFtp, Begin, Copy, Phases, HttpTypeOK
    <3>2. QED
      BY <1>7, <1>b, <3>1 DEF httpVars, transferVars
  <2>3. QED BY <1>7, <2>1, <2>2 DEF FtpNext
<1>8. CASE Refuse /\ UNCHANGED httpVars
  <2>1. buf = FALSE /\ sock # "resolving"
    BY <1>8, <1>a DEF Refuse, Begin, Phases, HttpTypeOK
  <2>2. QED
    BY <1>8, <1>b, <2>1 DEF httpVars, transferVars
<1>9. CASE ((Conclude \/ UpdateLater) /\ UNCHANGED httpVars) \/ UNCHANGED vars
  BY <1>9, <1>c
  DEF Conclude, UpdateLater, vars, mainVars, httpVars, streamVars, transferVars
<1>10. QED
  BY <1>1, <1>2, <1>3, <1>4, <1>5, <1>6, <1>7, <1>8, <1>9
  DEF Next, HttpNext, Receive

LEMMA FtpImageStep ==
    ASSUME IInv, [Next]_vars
    PROVE  FtpImage'
<1>a. MainTypeOK /\ FtpTypeOK /\ Phases /\ FtpImage
  BY DEF IInv, TypeOK
<1>b. size \in Nat /\ toCopy \in Nat
  BY <1>a, FotaAssumption DEF MainTypeOK, FtpTypeOK
<1>1. CASE HttpNext /\ UNCHANGED ftpVars
  <2>1. ~getting' \/ image' = image
    <3>1. CASE StartHttp
      BY <1>1, <1>a, <3>1 DEF StartHttp, Begin, Phases, ftpVars
    <3>2. ASSUME NEW n \in 1 .. Buffer, RecvHead(n) \/ RecvBody(n)
          PROVE  ~getting'
      BY <1>1, <1>a, <3>2 DEF RecvHead, RecvBody, Phases, ftpVars
    <3>3. CASE Resolved \/ ReadCallback \/ WouldBlock \/ RecvFails \/ TimerFires
               \/ SocketError \/ Server
      BY <3>3
      DEF Resolved, ReadCallback, WouldBlock, RecvFails, TimerFires, SocketError,
          Alarm, Server, mainVars
    <3>4. QED BY <1>1, <3>1, <3>2, <3>3 DEF HttpNext, Receive
  <2>2. step' # "copy"
    <3>1. CASE StartHttp \/ Resolved
      BY <3>1 DEF StartHttp, Resolved, Begin, Started, Failed
    <3>2. ASSUME NEW n \in 1 .. Buffer, RecvHead(n) \/ RecvBody(n)
          PROVE  step' # "copy"
      BY <3>2 DEF RecvHead, RecvBody, GiveUp, Failed
    <3>3. CASE ReadCallback \/ WouldBlock \/ RecvFails \/ TimerFires \/ SocketError
      BY <3>3
      DEF ReadCallback, WouldBlock, RecvFails, GiveUp, Failed, TimerFires,
          SocketError, Alarm
    <3>4. CASE Server
      BY <1>a, <3>4 DEF Server, Arrive, HangUp, Phases, mainVars
    <3>5. QED BY <1>1, <3>1, <3>2, <3>3, <3>4 DEF HttpNext, Receive
  <2>3. QED
    BY <1>1, <1>a, <2>1, <2>2 DEF FtpImage, ftpVars
<1>2. ASSUME NEW u \in Urls, StartFtp(u) PROVE FtpImage'
  BY <1>2 DEF StartFtp, Begin, Started, Failed, FtpImage
<1>3. CASE Downloaded
  <2>1. image = <<>> /\ ~getting' /\ image' = <<>> /\ size' = size
    BY <1>3, <1>a DEF Downloaded, FtpImage
  <2>2. step' = "copy" => toCopy' = size
    BY <1>3 DEF Downloaded, Failed
  <2>3. Whole(size - size) = <<>>
    BY <1>b DEF Whole
  <2>4. QED
    BY <1>b, <2>1, <2>2, <2>3 DEF FtpImage
<1>4. ASSUME NEW n \in 1 .. Chunk, Copy(n) PROVE FtpImage'
  <2>1. /\ n \in Nat /\ n <= toCopy /\ toCopy <= size
        /\ image = Whole(size - toCopy) /\ size' = size /\ ~getting'
    BY <1>4, <1>a, FtpAssumption DEF Copy, FtpImage, Phases
  <2>2. CASE Failed
    BY <2>1, <2>2 DEF Failed, FtpImage
  <2>3. CASE /\ image' = image \o [i \in 1 .. n |-> size - toCopy + i]
             /\ toCopy' = toCopy - n
    <3> DEFINE k == size - toCopy
    <3>1. k \in Nat /\ k + n = size - (toCopy - n)
      BY <1>b, <2>1
    <3>2. image' = Whole(k) \o [i \in 1 .. n |-> k + i]
      BY <2>1, <2>3
    <3> HIDE DEF k
    <3>3. image' = Whole(size - (toCopy - n))
      BY <2>1, <3>1, <3>2, WholeGrows
    <3>4. toCopy - n <= size
      BY <1>b, <2>1
    <3>5. QED
      BY <2>1, <2>3, <3>3, <3>4 DEF FtpImage
  <2>4. QED BY <1>4, <2>2, <2>3 DEF Copy
<1>5. CASE Refuse /\ UNCHANGED ftpVars
  BY <1>5, <1>a DEF Refuse, Begin, Failed, Phases, FtpImage, ftpVars
<1>6. CASE Conclude /\ UNCHANGED ftpVars
  BY <1>6, <1>a DEF Conclude, Failed, FtpImage, ftpVars
<1>7. CASE UpdateLater /\ UNCHANGED ftpVars
  BY <1>7, <1>a DEF UpdateLater, FtpImage, ftpVars
<1>8. CASE UNCHANGED vars
  BY <1>8, <1>a DEF FtpImage, vars, mainVars, ftpVars
<1>9. QED
  BY <1>1, <1>2, <1>3, <1>4, <1>5, <1>6, <1>7, <1>8 DEF Next, FtpNext

\* What decoding leaves in the buffers is of this URL or of those before.
LEMMA BuffersStep ==
    ASSUME FtpTypeOK, Buffers, NEW u \in Urls, StartFtp(u)
    PROVE  Buffers'
<1> DEFINE r == Rows(Text(u))
           all == before \cup {url} \cup {u}
<1>1. target' = Copied(r) /\ before' \cup {url'} = all
  BY DEF StartFtp
<1>2. /\ \A f \in {"host", "file", "user"} :
            \/ target'[f] = target[f]
            \/ target'[f] = Overlay(target[f], u[f])
            \/ target'[f] = Overlay(target[f], Append(u[f], End))
      /\ \/ target'.path = Ended(target.path)
         \/ target'.path = Ended(Overlay(target.path, u.path))
  BY <1>1, CopiedFacts
<1>3. /\ \A f \in Fields : u[f] \in Seq(Letters) /\ target[f] \in Seq(Letters)
      /\ End \in Letters /\ "/" \in Letters
  BY UrlFields DEF FtpTypeOK, Letters
<1>4. ASSUME NEW f \in {"host", "file", "user"}, NEW i \in 1 .. Len(target'[f]),
             target'[f][i] # End
      PROVE  \E v \in all : i <= Len(v[f])
  <2> DEFINE o == target[f]
             w == u[f]
             b == target'[f]
  <2>1. o \in Seq(Letters) /\ w \in Seq(Letters)
    BY <1>3 DEF Fields
  <2>2. \A j \in 1 .. Len(o) : o[j] # End => \E v \in all : j <= Len(v[f])
    BY DEF Buffers
  <2>3. b = o \/ b = Overlay(o, w) \/ b = Overlay(o, Append(w, End))
    BY <1>2
  <2>4. i \in 1 .. Len(b) /\ b[i] # End
    BY <1>4
  <2>5. i <= Len(w) => \E v \in all : i <= Len(v[f])
    BY DEF all
  <2> HIDE DEF o, w, b, all
  <2>6. CASE b = o
    BY <2>2, <2>4, <2>6
  <2>7. ASSUME NEW n \in Seq(Letters), b = Overlay(o, n),
               n = w \/ n = Append(w, End)
        PROVE  i <= Len(w) \/ (i \in 1 .. Len(o) /\ b[i] = o[i])
    <3>1. /\ Len(b) = IF Len(o) <= Len(n) THEN Len(n) ELSE Len(o)
          /\ \A j \in 1 .. Len(n) : b[j] = n[j]
          /\ \A j \in Len(n) + 1 .. Len(o) : b[j] = o[j]
      BY <2>1, <2>7, OverlayFacts
    <3>2. \/ Len(n) = Len(w)
          \/ Len(n) = Len(w) + 1 /\ n[Len(w) + 1] = End
      <4>1. Len(Append(w, End)) = Len(w) + 1 /\ Append(w, End)[Len(w) + 1] = End
        BY <1>3, <2>1, AppendProperties
      <4>2. QED BY <2>7, <4>1
    <3>3. Len(n) \in Nat /\ Len(w) \in Nat /\ Len(o) \in Nat
      BY <2>1, <2>7
    <3>4. CASE i \in 1 .. Len(n)
      <4>1. b[i] = n[i]
        BY <3>1, <3>4
      <4>2. i # Len(w) + 1 \/ Len(n) = Len(w)
        BY <2>4, <3>2, <4>1
      <4>3. QED BY ONLY <3>2, <3>3, <3>4, <4>2
    <3>5. CASE i \in Len(n) + 1 .. Len(o)
      <4>1. b[i] = o[i] /\ i \in 1 .. Len(o)
        BY <3>1, <3>3, <3>5
      <4>2. QED BY <4>1
    <3>6. i \in 1 .. Len(n) \/ i \in Len(n) + 1 .. Len(o)
      <4>1. Len(b) = Len(n) \/ Len(b) = Len(o)
        BY <3>1
      <4>2. QED BY ONLY <2>4, <3>3, <4>1
    <3>7. QED BY <3>4, <3>5, <3>6
  <2>8. w \in Seq(Letters) /\ Append(w, End) \in Seq(Letters)
    BY <1>3, <2>1, AppendProperties
  <2>9. CASE b = Overlay(o, w) \/ b = Overlay(o, Append(w, End))
    <3>1. i <= Len(w) \/ (i \in 1 .. Len(o) /\ b[i] = o[i])
      BY <2>7, <2>8, <2>9
    <3>2. QED BY <2>2, <2>4, <2>5, <3>1
  <2>10. QED BY <2>3, <2>6, <2>9
<1> DEFINE Long(i, c) ==
              \E v \in all : i <= Len(v.path) \/ (c = "/" /\ i = Len(v.path) + 1)
<1>5. ASSUME NEW x \in Seq(Letters), \A j \in 1 .. Len(x) : Long(j, x[j])
      PROVE  \A j \in 1 .. Len(Ended(x)) : Long(j, Ended(x)[j])
  <2>1. CASE Ended(x) = x
    BY <1>5, <2>1
  <2>2. CASE Ended(x) # x
    <3>1. /\ Ended(x) = Append(x, "/")
          /\ x = <<>> \/ x[Len(x)] # "/"
      BY <2>2 DEF Ended
    <3>2. /\ Len(Ended(x)) = Len(x) + 1 /\ Len(x) \in Nat
          /\ \A j \in 1 .. Len(x) : Ended(x)[j] = x[j]
          /\ Ended(x)[Len(x) + 1] = "/"
      BY <1>3, <3>1, AppendProperties
    <3>3. Long(Len(x) + 1, "/")
      <4>1. CASE x = <<>>
        <5>1. Len(u.path) \in Nat /\ u \in all /\ Len(x) = 0
          BY <1>3, <4>1 DEF Fields
        <5>2. 1 <= Len(u.path) \/ 1 = Len(u.path) + 1
          BY <5>1
        <5>3. QED BY <5>1, <5>2
      <4>2. CASE x # <<>>
        <5>1. Len(x) \in 1 .. Len(x) /\ x[Len(x)] # "/"
          BY <3>1, <4>2, EmptySeq
        <5>2. PICK v \in all : Len(x) <= Len(v.path)
          BY <1>5, <5>1
        <5>3. Len(v.path) \in Nat
          <6>1. v \in Urls \cup {NoUrl} /\ "path" \in Fields
            BY DEF FtpTypeOK, Fields
          <6>2. QED BY <6>1, UrlFields
        <5>4. Len(x) + 1 <= Len(v.path) \/ Len(x) + 1 = Len(v.path) + 1
          BY <3>2, <5>2, <5>3
        <5>5. QED BY <5>4
      <4>3. QED BY <4>1, <4>2
    <3> HIDE DEF Long
    <3>4. QED BY <1>5, <3>2, <3>3
  <2>3. QED BY <2>1, <2>2
<1>6. ASSUME NEW i \in 1 .. Len(target'.path)
      PROVE  Long(i, target'.path[i])
  <2> DEFINE o == target.path
             w == u.path
             b == Overlay(o, w)
  <2>1. o \in Seq(Letters) /\ w \in Seq(Letters)
    BY <1>3 DEF Fields
  <2>2. \A j \in 1 .. Len(o) : Long(j, o[j])
    BY DEF Buffers
  <2>3. \A j \in 1 .. Len(w) : \A c : Long(j, c)
    OBVIOUS
  <2>4. target'.path = Ended(o) \/ target'.path = Ended(b)
    BY <1>2
  <2> HIDE DEF o, w, Long
  <2>5. /\ b \in Seq(Letters)
        /\ Len(b) = IF Len(o) <= Len(w) THEN Len(w) ELSE Len(o)
        /\ \A j \in 1 .. Len(w) : b[j] = w[j]
        /\ \A j \in Len(w) + 1 .. Len(o) : b[j] = o[j]
    BY <2>1, OverlayFacts
  <2> HIDE DEF b
  <2>6. ASSUME NEW j \in 1 .. Len(b) PROVE Long(j, b[j])
    <3>1. CASE j \in 1 .. Len(w)
      BY <2>3, <3>1
    <3>2. CASE j \in Len(w) + 1 .. Len(o)
      <4>1. j \in 1 .. Len(o) /\ b[j] = o[j]
        BY <2>1, <2>5, <3>2
      <4>2. QED BY <2>2, <4>1
    <3>3. j \in 1 .. Len(w) \/ j \in Len(w) + 1 .. Len(o)
      <4>1. Len(w) \in Nat /\ Len(o) \in Nat /\ (Len(b) = Len(w) \/ Len(b) = Len(o))
        BY <2>1, <2>5
      <4>2. QED BY ONLY <4>1, j \in 1 .. Len(b)
    <3>4. QED BY <3>1, <3>2, <3>3
  <2>7. QED BY <1>5, <2>1, <2>2, <2>4, <2>5, <2>6
<1>7. QED
  BY <1>1, <1>4, <1>6 DEF Buffers

\* A path that was no longer before is the path of the URL, with a / after it.
LEMMA PathReads ==
    ASSUME NEW o \in Seq(Letters), NEW w \in Seq(Letters),
           \A k \in 1 .. Len(w) : w[k] # End, w # <<>> => w[Len(w)] # "/",
           \A i \in 1 .. Len(o) :
              i <= Len(w) \/ (o[i] = "/" /\ i <= Len(w) + 1)
    PROVE  AsString(Ended(Overlay(o, w))) = Append(w, "/")
<1> DEFINE b == Overlay(o, w)
           e == Append(w, "/")
           n == Len(w)
<1>1. n \in Nat /\ Len(o) \in Nat /\ "/" \in Letters /\ "/" # End
  BY DEF Letters, End
<1>2. /\ e \in Seq(Letters) /\ Len(e) = n + 1
      /\ \A i \in 1 .. n : e[i] = w[i]
      /\ e[n + 1] = "/"
  BY <1>1, AppendProperties
<1>3. /\ b \in Seq(Letters) /\ Len(b) = IF Len(o) <= n THEN n ELSE Len(o)
      /\ \A i \in 1 .. n : b[i] = w[i]
      /\ \A i \in n + 1 .. Len(o) : b[i] = o[i]
  BY OverlayFacts
<1> HIDE DEF e, b
<1>4. Ended(b) = e
  <2>1. CASE Len(o) <= n
    <3>1. b = w
      <4>1. Len(b) = Len(w) /\ \A i \in 1 .. Len(b) : b[i] = w[i]
        BY <1>3, <2>1
      <4>2. b \in Seq(Letters)
        BY <1>3
      <4>3. QED BY ONLY <4>1, <4>2, w \in Seq(Letters), SeqEqual
    <3>2. QED BY <3>1 DEF Ended, e
  <2>2. CASE n < Len(o)
    <3> HIDE DEF n
    <3>1. Len(o) = n + 1
      <4>1. Len(o) \in 1 .. Len(o)
        BY <1>1, <2>2
      <4>2. Len(o) <= n + 1
        BY <1>1, <4>1 DEF n
      <4>3. QED BY <1>1, <2>2, <4>2
    <3>2. o[n + 1] = "/"
      <4>1. n + 1 \in 1 .. Len(o) /\ ~(n + 1 <= n)
        BY <1>1, <3>1
      <4>2. QED BY <4>1 DEF n
    <3>3. Len(b) = n + 1 /\ b[n + 1] = "/"
      <4>1. n + 1 \in n + 1 .. Len(o) /\ ~(Len(o) <= n)
        BY <1>1, <3>1
      <4>2. QED BY <1>3, <3>1, <3>2, <4>1
    <3>4. b = e
      <4>1. \A i \in 1 .. Len(b) : b[i] = e[i]
        <5>1. \A i \in 1 .. n : b[i] = e[i]
          BY <1>2, <1>3
        <5>2. \A i \in 1 .. Len(b) : i \in 1 .. n \/ i = n + 1
          BY <1>1, <3>3
        <5>3. QED BY <1>2, <3>3, <5>1, <5>2
      <4>2. Len(b) = Len(e) /\ b \in Seq(Letters) /\ e \in Seq(Letters)
        BY <1>2, <1>3, <3>3
      <4>3. QED BY ONLY <4>1, <4>2, SeqEqual
    <3>5. b # <<>>
      BY <1>1, <3>3
    <3>6. QED BY <3>3, <3>4, <3>5 DEF Ended
  <2>3. QED BY <1>1, <2>1, <2>2
<1>5. \A i \in 1 .. Len(e) : e[i] # End
  <2>1. \A i \in 1 .. Len(e) : i \in 1 .. n \/ i = n + 1
    BY <1>1, <1>2
  <2>2. QED BY <1>1, <1>2, <2>1
<1>6. AsString(e) = e
  <2>1. Len(e) <= Len(e)
    BY <1>1, <1>2
  <2>2. \A i \in 1 .. Len(e) : e[i] = e[i] /\ e[i] # End
    BY <1>5
  <2>3. e \in Seq(Letters)
    BY <1>2
  <2>4. QED BY ONLY <2>1, <2>2, <2>3, AsStringIs
<1>7. QED
  BY <1>4, <1>6 DEF b, e

LEMMA TargetStep ==
    ASSUME IInv, [Next]_vars
    PROVE  (Buffers /\ AddressIsTheUrls)'
<1>a. FtpTypeOK /\ Phases /\ Buffers /\ AddressIsTheUrls
  BY DEF IInv, TypeOK
<1>1. ASSUME NEW u \in Urls, StartFtp(u)
      PROVE  (Buffers /\ AddressIsTheUrls)'
  <2> DEFINE r == Rows(Text(u))
             t == Copied(r)
             Short(f) == \A v \in before \cup {url} : Len(v[f]) <= Len(u[f])
  <2>1. /\ target' = t /\ port' = Port(r) /\ url' = u
        /\ before' = before \cup {url}
    BY <1>1 DEF StartFtp
  <2>2. getting' => Decodes(r) /\ ~Bare(r)
    BY <1>1, <1>a DEF StartFtp, Begin, Failed, Decodes, Phases
  <2>3. Buffers'
    BY <1>1, <1>a, BuffersStep
  <2>4. Port(r) = IF u.port = <<>> THEN DefaultPort ELSE u.port
    <3>1. r.port = Part(":", u.port)
      BY RowPort
    <3>2. ":" \in Letters /\ u.port \in Seq(Letters)
      BY PartsOfUrl DEF Letters
    <3>3. /\ Part(":", u.port) = <<>> <=> u.port = <<>>
          /\ u.port # <<>> => Tail(Part(":", u.port)) = u.port
      BY ONLY <3>2, PartIs
    <3> HIDE DEF r
    <3>4. QED BY <3>1, <3>3 DEF Port
  <2>5. Decodes(r) /\ ~Bare(r) =>
           /\ t.host = Overlay(target.host, u.host)
           /\ t.file = Overlay(target.file, u.file)
           /\ t.path = Ended(Overlay(target.path, u.path))
           /\ \/ t.user = Overlay(target.user, u.user)
              \/ t.user = Overlay(target.user, Append(u.user, End))
           /\ u.password # <<>> =>
                 t.password = Overlay(target.password, Append(u.password, End))
    BY <1>a, CopiedFacts
  <2> HIDE DEF r, t
  <2>6. \A f \in Fields : target[f] \in Seq(Letters) /\ u[f] \in Seq(Letters)
    BY <1>a, UrlFields DEF FtpTypeOK
  <2>7. \A f \in Fields : \A k \in 1 .. Len(u[f]) : u[f][k] # End
    BY PartsOfUrl DEF Fields
  <2>8. End \in Letters
    BY DEF Letters
  <2>9. ASSUME NEW f \in Fields
        PROVE  /\ AsString(Overlay(target[f], Append(u[f], End))) = u[f]
               /\ (\A i \in 1 .. Len(target[f]) :
                      target[f][i] # End => i <= Len(u[f]))
                     => AsString(Overlay(target[f], u[f])) = u[f]
    BY <2>6, <2>7, <2>8, OverlayReads
  <2>10. ASSUME NEW v \in before \cup {url}, NEW f \in Fields
         PROVE  Len(v[f]) \in Nat
    <3>1. v \in Urls \cup {NoUrl}
      BY <1>a DEF FtpTypeOK
    <3>2. QED BY <1>a, <3>1, UrlFields
  <2>11. ASSUME NEW f \in {"host", "file", "user"}, Short(f)
         PROVE  AsString(Overlay(target[f], u[f])) = u[f]
    <3>1. f \in Fields /\ Len(u[f]) \in Nat
      BY <2>6 DEF Fields
    <3>2. ASSUME NEW i \in 1 .. Len(target[f]), target[f][i] # End
          PROVE  i <= Len(u[f])
      <4>1. PICK v \in before \cup {url} : i <= Len(v[f])
        BY <1>a, <3>2 DEF Buffers
      <4>2. Len(v[f]) <= Len(u[f]) /\ Len(v[f]) \in Nat
        BY <2>10, <2>11, <3>1
      <4>3. QED BY <3>1, <4>1, <4>2
    <3>3. QED BY <2>9, <3>1, <3>2
  <2>12. ASSUME Short("path")
         PROVE  AsString(Ended(Overlay(target.path, u.path))) = Append(u.path, "/")
    <3>1. /\ "path" \in Fields /\ target.path \in Seq(Letters)
          /\ u.path \in Seq(Letters) /\ Len(u.path) \in Nat
      BY <2>6 DEF Fields
    <3>2. /\ \A k \in 1 .. Len(u.path) : u.path[k] # End
          /\ u.path # <<>> => u.path[Len(u.path)] # "/"
      BY PartsOfUrl
    <3>3. ASSUME NEW i \in 1 .. Len(target.path)
          PROVE  \/ i <= Len(u.path)
                 \/ target.path[i] = "/" /\ i <= Len(u.path) + 1
      <4>1. PICK v \in before \cup {url} :
               i <= Len(v.path) \/ (target.path[i] = "/" /\ i = Len(v.path) + 1)
        BY <1>a DEF Buffers
      <4>2. Len(v.path) <= Len(u.path) /\ Len(v.path) \in Nat
        BY <2>10, <2>12, <3>1
      <4>3. QED BY <3>1, <4>1, <4>2
    <3>4. QED BY <3>1, <3>2, <3>3, PathReads
  <2>13. \A f \in Fields : Longest(f)' => Short(f)
    BY <2>1 DEF Longest
  <2> HIDE DEF Short
  <2>14. "password" \in Fields /\ "user" \in Fields
    BY DEF Fields
  <2>15. AddressIsTheUrls'
    <3>1. SUFFICES ASSUME getting'
                   PROVE  /\ port' = IF u.port = <<>> THEN DefaultPort ELSE u.port
                          /\ u.password # <<>> => AsString(t.password) = u.password
                          /\ Longest("host")' => AsString(t.host) = u.host
                          /\ Longest("path")' => AsString(t.path) = Append(u.path, "/")
                          /\ Longest("file")' => AsString(t.file) = u.file
                          /\ Longest("user")' /\ u.user # <<>> =>
                                AsString(t.user) = u.user
      BY <2>1 DEF AddressIsTheUrls
    <3>2. u.password # <<>> => AsString(t.password) = u.password
      BY <2>2, <2>5, <2>9, <2>14, <3>1
    <3>3. /\ Longest("host")' => AsString(t.host) = u.host
          /\ Longest("file")' => AsString(t.file) = u.file
      BY <2>2, <2>5, <2>11, <2>13, <3>1 DEF Fields
    <3>4. Longest("path")' => AsString(t.path) = Append(u.path, "/")
      BY <2>2, <2>5, <2>12, <2>13, <3>1 DEF Fields
    <3>5. Longest("user")' => AsString(t.user) = u.user
      BY <2>2, <2>5, <2>9, <2>11, <2>13, <2>14, <3>1
    <3>6. QED BY <2>1, <2>4, <3>2, <3>3, <3>4, <3>5
  <2>16. QED BY <2>3, <2>15
<1>2. CASE UNCHANGED <<target, port, url, before>> /\ (getting' => getting)
  BY <1>a, <1>2 DEF Buffers, AddressIsTheUrls, Longest
<1>3. QED
  BY <1>1, <1>2 DEF Next, FtpNext, Downloaded, Copy, vars, ftpVars

-----------------------------------------------------------------------------
\* The theorems

LEMMA Initially == Init => IInv
<1> SUFFICES ASSUME Init PROVE IInv
  OBVIOUS
<1> USE DEF Init, InitMain, InitHttp, InitFtp
<1>1. MainTypeOK
  <2>1. attempt \in 0 .. MaxAttempts
    BY FotaAssumption
  <2>2. image \in Seq(Nat)
    OBVIOUS
  <2>3. QED
    BY <2>1, <2>2 DEF MainTypeOK
<1>2. HttpTypeOK
  <2>1. Units(response) \in Nat
    BY ResponseType
  <2>2. used \in 0 .. got /\ got \in 0 .. sent /\ sent \in 0 .. Units(response)
    BY <2>1
  <2>3. got <= used + Buffer
    BY BufferAssumption
  <2>4. header \in [known : BOOLEAN, length : Nat]
    OBVIOUS
  <2>5. QED
    BY <2>2, <2>3, <2>4 DEF HttpTypeOK
<1>3. FtpTypeOK
  <2>1. target \in [Fields -> Seq(Letters)] /\ port \in Seq(Letters)
    OBVIOUS
  <2>2. QED
    BY <2>1 DEF FtpTypeOK
<1>4. Phases /\ HttpImage /\ FtpImage
  BY DEF Phases, HttpImage, FtpImage
<1>5. NothingLeft /\ FalseAlarmsAreLeftovers
  BY DEF NothingLeft, FalseAlarmsAreLeftovers
<1>6. Buffers /\ AddressIsTheUrls
  <2>1. \A f \in Fields : Len(target[f]) = 0
    OBVIOUS
  <2>2. QED
    BY <2>1 DEF Buffers, AddressIsTheUrls, Fields
<1>7. QED
  BY <1>1, <1>2, <1>3, <1>4, <1>5, <1>6 DEF IInv, TypeOK

LEMMA IInvAlways == Spec => []IInv
<1>1. IInv /\ [Next]_vars => IInv'
  BY MainTypeStep, HttpTypeStep, FtpTypeStep, PhasesStep, HttpImageStep,
     FtpImageStep, NothingLeftStep, AlarmsStep, TargetStep DEF IInv, TypeOK
<1>2. QED
  BY Initially, <1>1, PTL DEF Spec

\* Every variable of the upgrade keeps its type; in particular the receive
\* buffer never holds more than fits.
THEOREM TypeCorrect == Spec => []TypeOK
<1>1. IInv => TypeOK
  BY DEF IInv
<1>2. QED
  BY IInvAlways, <1>1, PTL

\* In the first attempt no timer and no socket of another one is there: of what
\* goes on only the URL that cannot be decoded is reported, and of a ready image
\* only the timer that is not marked as running, or the socket left open.
THEOREM AlarmsAreLeftovers == Spec => []FalseAlarmsAreLeftovers
<1>1. IInv => FalseAlarmsAreLeftovers
  BY DEF IInv
<1>2. QED
  BY IInvAlways, <1>1, PTL

\* The parser finds host, path, file, port, user and password in the text of a
\* URL, and what it copies over the buffers of the URLs before reads as them
\* unless one of those was longer.
THEOREM Addresses == Spec => []AddressIsTheUrls
<1>1. IInv => AddressIsTheUrls
  BY DEF IInv
<1>2. QED
  BY IInvAlways, <1>1, PTL

-----------------------------------------------------------------------------
\* Fota implements Upgrade

\* A step that ends an attempt, and changes nothing of the store.
LEMMA FailStep ==
    ASSUME step # "reboot", told \in {"started", "ready"}, Failed,
           UNCHANGED <<size, image>>
    PROVE  Outcome!Next
<1>1. Outcome!Fail
  BY DEF Outcome!Fail, Failed
<1>2. QED BY <1>1 DEF Outcome!Next

\* A step that stores pieces.
LEMMA StoreStep ==
    ASSUME told = "started", told' = told, step # "reboot", step' # "reboot",
           size' = size, size \in Nat,
           NEW k \in Nat, image = Whole(k),
           NEW n \in k + 1 .. size, image' = Whole(n)
    PROVE  Outcome!Next
<1>1. Len(image) = k
  BY WholeGrows
<1>2. image' = Outcome!Whole(n)
  BY DEF Whole, Outcome!Whole
<1>3. Outcome!Store
  BY <1>1, <1>2 DEF Outcome!Store
<1>4. QED BY <1>3 DEF Outcome!Next

LEMMA StutterStep ==
    ASSUME step # "reboot", step' # "reboot", UNCHANGED <<told, size, image>>
    PROVE  UNCHANGED Outcome!vars
BY DEF Outcome!vars

LEMMA BeginStep ==
    ASSUME Begin, image' \in {<<>>, image}, step' # "reboot",
           told' \in {"started", "failed", "none"},
           told' = "started" => image' = <<>>,
           told \in {"none", "started", "failed", "ready"}
    PROVE  Outcome!Next
<1>1. Outcome!Begin
  BY DEF Outcome!Begin, Begin
<1>2. QED BY <1>1 DEF Outcome!Next

LEMMA RefinementStep ==
    ASSUME IInv, [Next]_vars
    PROVE  [Outcome!Next]_(Outcome!vars)
<1>a. MainTypeOK /\ HttpTypeOK /\ FtpTypeOK /\ Phases /\ HttpImage /\ FtpImage
  BY DEF IInv, TypeOK
<1>b. /\ size \in Nat \ {0} /\ told \in {"none", "started", "failed", "ready"}
  BY <1>a, FotaAssumption DEF MainTypeOK
<1>1. CASE StartHttp \/ (\E u \in Urls : StartFtp(u)) \/ Refuse
  <2>1. /\ Begin /\ image' \in {<<>>, image} /\ step' # "reboot"
        /\ told' \in {"started", "failed", "none"}
        /\ told' = "started" => image' = <<>>
    BY <1>1 DEF StartHttp, StartFtp, Refuse, Failed, Started
  <2>2. QED
    BY <1>b, <2>1, BeginStep
<1>2. CASE Resolved
  <2>1. told = "started" /\ step # "reboot" /\ UNCHANGED <<size, image>>
    BY <1>2, <1>a DEF Resolved, Phases
  <2>2. QED
    BY <1>2, <2>1, FailStep, StutterStep DEF Resolved
<1>3. CASE ReadCallback \/ WouldBlock \/ Server
  <2>1. UNCHANGED <<told, size, image>>
    BY <1>3 DEF ReadCallback, WouldBlock, Server, mainVars
  <2>2. step' = step \/ (step # "reboot" /\ step' # "reboot")
    BY <1>3 DEF ReadCallback, WouldBlock, Reading, Server, mainVars
  <2>3. QED
    BY <2>1, <2>2 DEF Outcome!vars
<1>4. CASE RecvFails
  <2>1. told = "started" /\ step # "reboot" /\ Failed /\ UNCHANGED <<size, image>>
    BY <1>4, <1>a DEF RecvFails, Reading, GiveUp, Phases
  <2>2. QED
    BY <2>1, FailStep
<1>5. ASSUME NEW n \in 1 .. Buffer, RecvHead(n)
      PROVE  [Outcome!Next]_(Outcome!vars)
  <2>1. told = "started" /\ step = "head" /\ UNCHANGED <<size, image>>
    BY <1>5, HeadRead DEF RecvHead
  <2>2. Failed \/ (UNCHANGED told /\ step' \in {"head", "body"})
    BY <1>5, <2>1, HeadRead
  <2>3. QED
    BY <2>1, <2>2, FailStep, StutterStep
<1>6. ASSUME NEW n \in 1 .. Buffer, RecvBody(n)
      PROVE  [Outcome!Next]_(Outcome!vars)
  <2>1. told = "started" /\ step = "body" /\ size' = size
    BY <1>6, BodyRead DEF RecvBody
  <2>2. CASE Failed /\ UNCHANGED image
    BY <2>1, <2>2, FailStep
  <2>3. CASE /\ image' = Whole(used' - Len(response.lines))
             /\ used' - Len(response.lines) <= size
             /\ told' = told /\ step' \in {"finish", "body"}
    <3> DEFINE k == used - Len(response.lines)
               m == used' - Len(response.lines)
    <3>1. image = Whole(k) /\ image' = Whole(m)
      BY <1>6, <2>3, BodyRead
    <3>2. /\ used \in Nat /\ Len(response.lines) \in Nat
          /\ Len(response.lines) <= used
      BY <1>6, <1>a, ResponseType DEF RecvBody, Phases, HttpImage, HttpTypeOK
    <3>3. k \in Nat
      BY <3>2
    <3>4. used' \in Nat /\ used < used'
      BY <1>6, BodyRead
    <3>5. m \in k + 1 .. size
      <4>1. size \in Nat /\ m <= size
        BY <1>b, <2>3
      <4>2. m \in Nat /\ k + 1 <= m
        <5>1. ASSUME NEW a \in Nat, NEW b \in Nat, NEW c \in Nat, c <= a, a < b
              PROVE  b - c \in Nat /\ a - c + 1 <= b - c
          BY ONLY <5>1
        <5>2. QED
          BY ONLY <3>2, <3>4, <5>1
      <4>3. QED
        BY ONLY <3>3, <4>1, <4>2
    <3> HIDE DEF k, m
    <3>6. Outcome!Next
      BY <1>b, <2>1, <2>3, <3>1, <3>3, <3>5, StoreStep
    <3>7. QED BY <3>6
  <2>4. QED
    BY <1>6, <2>2, <2>3, BodyRead
<1>7. CASE TimerFires \/ SocketError
  <2>1. PICK by : /\ Alarm(by) /\ step # "reboot" /\ step' = step
                  /\ UNCHANGED <<size, image>>
    BY <1>7 DEF TimerFires, SocketError, Alarm
  <2>2. CASE told = "started" /\ buf
    <3>1. Failed
      BY <2>1, <2>2 DEF Alarm, Failed
    <3>2. QED BY <2>1, <2>2, <3>1, FailStep
  <2>3. CASE ~(told = "started" /\ buf)
    <3>1. told' = told
      BY <2>1, <2>3 DEF Alarm
    <3>2. QED BY <2>1, <3>1, StutterStep
  <2>4. QED BY <2>2, <2>3
<1>8. CASE Downloaded
  <2>1. told = "started" /\ step # "reboot" /\ UNCHANGED <<size, image>>
    BY <1>8, <1>a DEF Downloaded, Phases
  <2>2. QED
    BY <1>8, <2>1, FailStep, StutterStep DEF Downloaded
<1>9. ASSUME NEW n \in 1 .. Chunk, Copy(n)
      PROVE  [Outcome!Next]_(Outcome!vars)
  <2>1. /\ told = "started" /\ step = "copy" /\ size' = size
        /\ n \in Nat \ {0} /\ n <= toCopy /\ toCopy <= size /\ toCopy \in Nat
        /\ image = Whole(size - toCopy)
    BY <1>9, <1>a, FtpAssumption DEF Copy, Phases, FtpImage, FtpTypeOK
  <2>2. CASE Failed /\ UNCHANGED image
    BY <2>1, <2>2, FailStep
  <2>3. CASE /\ image' = image \o [i \in 1 .. n |-> size - toCopy + i]
             /\ step' \in {"finish", "copy"} /\ UNCHANGED told
    <3> DEFINE k == size - toCopy
    <3>1. k \in Nat /\ k + n \in k + 1 .. size
      BY <1>b, <2>1
    <3>2. image = Whole(k) /\ image' = image \o [i \in 1 .. n |-> k + i]
      BY <2>1, <2>3
    <3> HIDE DEF k
    <3>3. image' = Whole(k + n)
      BY <2>1, <3>1, <3>2, WholeGrows
    <3>4. Outcome!Next
      BY <1>b, <2>1, <2>3, <3>1, <3>2, <3>3, StoreStep
    <3>5. QED BY <3>4
  <2>4. QED
    BY <1>9, <2>2, <2>3 DEF Copy
<1>10. CASE Conclude
  <2>1. told = "started" /\ step = "finish" /\ UNCHANGED <<size, image>>
    BY <1>10, <1>a DEF Conclude, Phases
  <2>2. CASE Failed
    BY <2>1, <2>2, FailStep
  <2>3. CASE image = Whole(size) /\ told' = "ready" /\ step' \in {"idle", "reboot"}
    <3>1. Outcome!Succeed
      BY <2>1, <2>3 DEF Outcome!Succeed, Outcome!Whole, Whole
    <3>2. QED BY <3>1 DEF Outcome!Next
  <2>4. QED
    BY <1>10, <2>2, <2>3 DEF Conclude
<1>11. CASE UpdateLater
  <2>1. Outcome!Apply
    BY <1>11 DEF UpdateLater, Outcome!Apply
  <2>2. QED BY <2>1 DEF Outcome!Next
<1>12. CASE UNCHANGED vars
  BY <1>12 DEF vars, mainVars, Outcome!vars
<1>13. QED
  BY <1>1, <1>2, <1>3, <1>4, <1>5, <1>6, <1>7, <1>8, <1>9, <1>10, <1>11, <1>12
  DEF Next, HttpNext, FtpNext, Receive

\* Whatever segments the network makes of a response, and whatever an attempt
\* finds of those before it: both transports do what Upgrade says.
THEOREM Refines == Spec => ImplementsUpgrade
<1>1. Init => Outcome!Init
  BY DEF Init, InitMain, Outcome!Init
<1>2. IInv /\ [Next]_vars => [Outcome!Next]_(Outcome!vars)
  BY RefinementStep
<1>3. QED
  BY <1>1, <1>2, IInvAlways, PTL DEF Spec, ImplementsUpgrade, Outcome!Spec
=============================================================================
