-------------------------- MODULE SmsCommandProofs --------------------------
(***************************************************************************)
(* Proofs of the properties of SmsCommandProps, for texts of any length,   *)
(* any numbers and any sizes of the buffers.                               *)
(*                                                                         *)
(* The invariant is simple: every parameter has a value of its type. What  *)
(* is hard is in one step, in what the loops of the code make of a text.   *)
(* So the proofs go through induction over the characters: SetInduction    *)
(* states it of sets instead of predicates, and Recursion says that the    *)
(* recursive functions of SmsCommand have the values their definitions     *)
(* say. On these rest, in order: lengths, numbers (Natural), the sender    *)
(* (Sanitized, CandidatesShare, OwnerIsAuthorized), the translation        *)
(* (Field, Translate), the tokens of the parser (SetTokens) and its effect *)
(* on the table (ProcessSet, ProcessValue).                                *)
(***************************************************************************)
EXTENDS SmsCommandProps, SequenceTheorems, WellFoundedInduction, TLAPS

-----------------------------------------------------------------------------
\* Induction over the naturals, for sets instead of predicates: a set of
\* naturals that is closed under the successor has no smallest element missing.

LEMMA SetInduction ==
    ASSUME NEW T \in SUBSET Nat, 0 \in T, \A n \in T : n + 1 \in T
    PROVE  T = Nat
<1> SUFFICES ASSUME T # Nat PROVE FALSE
  OBVIOUS
<1> DEFINE R == OpToRel(<, Nat)
           U == Nat \ T
<1>1. IsWellFoundedOn(R, Nat)
  BY NatLessThanWellFounded, Zenon
<1>2. U \subseteq Nat /\ U # {}
  OBVIOUS
<1> HIDE DEF R
<1>3. PICK m \in U : \A y \in U : ~ (<<y, m>> \in R)
  <2> HIDE DEF U
  <2>1. QED BY ONLY <1>1, <1>2, WFMin
<1>4. m # 0
  BY <1>3
<1>5. m - 1 \in Nat /\ m - 1 < m
  BY <1>2, <1>4
<1>6. <<m - 1, m>> \in R
  BY <1>5, <1>2 DEF R, OpToRel
<1>7. m - 1 \in T
  BY <1>3, <1>5, <1>6
<1>8. m \in T
  BY <1>7, <1>2, <1>5
<1>9. QED
  BY <1>8

\* The same up to a bound.
LEMMA BoundedInduction ==
    ASSUME NEW n \in Nat, NEW T, 0 \in T,
           \A i \in 0 .. n - 1 : i \in T => i + 1 \in T
    PROVE  \A i \in 0 .. n : i \in T
<1> DEFINE U == {i \in Nat : i <= n => i \in T}
<1>1. 0 \in U /\ U \in SUBSET Nat
  OBVIOUS
<1>2. \A i \in U : i + 1 \in U
  OBVIOUS
<1>3. U = Nat
  <2> HIDE DEF U
  <2>1. QED BY ONLY <1>1, <1>2, SetInduction
<1>4. QED
  BY <1>3

\* Every non-empty set of naturals has a smallest element.
LEMMA Smallest ==
    ASSUME NEW S \in SUBSET Nat, S # {}
    PROVE  \E i \in S : \A j \in S : i <= j
<1> SUFFICES ASSUME \A i \in S : \E j \in S : j < i PROVE FALSE
  OBVIOUS
<1> DEFINE T == {n \in Nat : \A i \in S : n <= i}
<1>1. T = Nat
  <2>1. 0 \in T /\ T \in SUBSET Nat
    OBVIOUS
  <2>2. \A n \in T : n + 1 \in T
    OBVIOUS
  <2> HIDE DEF T
  <2>3. QED BY ONLY <2>1, <2>2, SetInduction
<1>2. PICK i \in S : TRUE
  OBVIOUS
<1>3. i + 1 \in T
  BY <1>1
<1>4. QED
  BY <1>2, <1>3

\* And every bounded one a greatest.
LEMMA Greatest ==
    ASSUME NEW n \in Nat, NEW S \in SUBSET (0 .. n), S # {}
    PROVE  \E i \in S : \A j \in S : i >= j
<1> DEFINE U == {n - i : i \in S}
<1>1. U \in SUBSET Nat /\ U # {}
  <2>1. \A i \in S : i \in 0 .. n /\ n - i \in Nat
    OBVIOUS
  <2>2. U # {}
    <3>1. PICK i \in S : TRUE
      OBVIOUS
    <3>2. n - i \in U
      OBVIOUS
    <3>3. QED BY <3>2
  <2>3. QED BY <2>1, <2>2
<1>2. PICK u \in U : \A v \in U : u <= v
  <2> HIDE DEF U
  <2>1. QED BY ONLY <1>1, Smallest
<1>3. PICK i \in S : u = n - i
  OBVIOUS
<1>4. \A j \in S : n - i <= n - j
  BY <1>2, <1>3
<1>5. QED
  BY <1>4

-----------------------------------------------------------------------------
\* The recursive functions of the model go over the characters of a text: such
\* a function exists, whatever a step does.

\* f starts at b and takes each step of G up to n, as the recursive functions
\* of SmsCommand do.
IsRecursion(f, S, b, n, G) ==
    /\ f \in [0 .. n -> S]
    /\ f[0] = b
    /\ \A i \in 1 .. n : f[i] = G[<<f[i - 1], i>>]

\* The function with these steps, if there is one.
Recursive(S, b, n, G) == CHOOSE f : IsRecursion(f, S, b, n, G)

\* There is one: a recursive function on 0 .. n of SmsCommand has the values that
\* its definition says.
LEMMA Recursion ==
    ASSUME NEW S, NEW b \in S, NEW n \in Nat, NEW G \in [S \X (1 .. n) -> S]
    PROVE  IsRecursion(Recursive(S, b, n, G), S, b, n, G)
<1> DEFINE P(m) == \E f \in [0 .. m -> S] :
              f[0] = b /\ \A i \in 1 .. m : f[i] = G[<<f[i - 1], i>>]
           T == {m \in Nat : P(m)}
<1>1. P(0)
  <2> DEFINE f == [i \in 0 .. 0 |-> b]
  <2>1. f \in [0 .. 0 -> S] /\ f[0] = b /\ \A i \in 1 .. 0 : f[i] = G[<<f[i - 1], i>>]
    OBVIOUS
  <2> HIDE DEF f
  <2>2. QED BY <2>1
<1>2. \A m \in 0 .. n - 1 : m \in T => m + 1 \in T
  <2> SUFFICES ASSUME NEW m \in 0 .. n - 1, P(m) PROVE P(m + 1)
    BY SMTT(30)
  <2>1. PICK f \in [0 .. m -> S] :
              f[0] = b /\ \A i \in 1 .. m : f[i] = G[<<f[i - 1], i>>]
    OBVIOUS
  <2> DEFINE g == [i \in 0 .. m + 1 |-> IF i = m + 1 THEN G[<<f[m], m + 1>>] ELSE f[i]]
  <2>2. G[<<f[m], m + 1>>] \in S
    <3>1. f[m] \in S
      OBVIOUS
    <3>2. <<f[m], m + 1>> \in S \X (1 .. n)
      BY <3>1
    <3>3. QED
      BY <3>2
  <2>3. g \in [0 .. m + 1 -> S]
    BY <2>2
  <2>4. \A i \in 0 .. m : g[i] = f[i]
    OBVIOUS
  <2>5. g[m + 1] = G[<<f[m], m + 1>>]
    OBVIOUS
  <2> HIDE DEF g
  <2>6. \A i \in 1 .. m + 1 : g[i] = G[<<g[i - 1], i>>]
    <3> SUFFICES ASSUME NEW i \in 1 .. m + 1 PROVE g[i] = G[<<g[i - 1], i>>]
      OBVIOUS
    <3>1. CASE i = m + 1
      <4>1. i - 1 = m /\ g[m] = f[m]
        BY <3>1, <2>4
      <4>2. QED BY <4>1, <3>1, <2>5
    <3>2. CASE i \in 1 .. m
      <4>1. i - 1 \in 0 .. m /\ i \in 0 .. m
        BY <3>2
      <4>2. QED BY <4>1, <3>2, <2>4, <2>1
    <3>3. QED BY <3>1, <3>2
  <2>7. g[0] = b
    BY <2>4, <2>1
  <2>8. QED
    BY <2>3, <2>6, <2>7
<1>3. \A m \in 0 .. n : m \in T
  <2>1. 0 \in T
    BY <1>1
  <2> HIDE DEF T
  <2>2. QED BY ONLY <2>1, <1>2, BoundedInduction
<1>4. n \in 0 .. n
  OBVIOUS
<1>5. \E f : IsRecursion(f, S, b, n, G)
  BY <1>3, <1>4 DEF IsRecursion
<1>6. QED
  BY ONLY <1>5 DEF Recursive

\* And only one.
LEMMA SameRecursion ==
    ASSUME NEW n \in Nat, NEW f, NEW g, f[0] = g[0],
           \A i \in 1 .. n : f[i - 1] = g[i - 1] => f[i] = g[i]
    PROVE  \A i \in 0 .. n : f[i] = g[i]
<1> DEFINE T == {i \in 0 .. n : f[i] = g[i]}
<1>1. 0 \in T
  OBVIOUS
<1>2. \A i \in 0 .. n - 1 : i \in T => i + 1 \in T
  <2> SUFFICES ASSUME NEW i \in 0 .. n - 1, f[i] = g[i] PROVE f[i + 1] = g[i + 1]
    OBVIOUS
  <2>1. i + 1 \in 1 .. n /\ (i + 1) - 1 = i
    OBVIOUS
  <2>2. QED BY <2>1
<1>3. \A i \in 0 .. n : i \in T
  <2> HIDE DEF T
  <2>1. QED BY ONLY <1>1, <1>2, BoundedInduction
<1>4. QED
  BY <1>3

-----------------------------------------------------------------------------
\* Texts: the facts of SequenceTheorems that the proofs below use.

\* What is known of every text.
LEMMA TextIs ==
    ASSUME NEW t \in Text
    PROVE  /\ Len(t) \in Nat /\ DOMAIN t = 1 .. Len(t)
           /\ t \in [1 .. Len(t) -> Characters]
           /\ \A i \in 1 .. Len(t) : t[i] \in Characters
           /\ t = <<>> \/ Len(t) > 0
           /\ t # <<>> \/ Len(t) = 0
           /\ <<>> \in Text /\ Len(<<>>) = 0
BY DEF Text

\* Texts of the same characters are the same.
LEMMA SameText ==
    ASSUME NEW s \in Text, NEW t \in Text, Len(s) = Len(t),
           \A i \in 1 .. Len(s) : s[i] = t[i]
    PROVE  s = t
BY SeqEqual DEF Text

\* What SubSeq gives of a text.
LEMMA PartIs ==
    ASSUME NEW t \in Text, NEW m \in 1 .. Len(t) + 1, NEW n \in 0 .. Len(t)
    PROVE  /\ SubSeq(t, m, n) \in Text
           /\ Len(SubSeq(t, m, n)) = IF m <= n THEN n - m + 1 ELSE 0
           /\ \A i \in 1 .. n - m + 1 : SubSeq(t, m, n)[i] = t[m + i - 1]
<1> DEFINE S == Characters
<1>1. m \in Int /\ n \in Int /\ \A i \in m .. n : t[i] \in S
  BY DEF Text
<1>2. /\ SubSeq(t, m, n) \in Seq(S)
      /\ Len(SubSeq(t, m, n)) = IF m <= n THEN n - m + 1 ELSE 0
      /\ \A i \in 1 .. n - m + 1 : SubSeq(t, m, n)[i] = t[m + i - 1]
  <2> HIDE DEF S
  <2>1. QED BY ONLY <1>1, SubSeqProperties, SMTT(30)
<1>3. QED
  BY <1>2 DEF Text

\* A text is all of itself.
LEMMA WholeIs ==
    ASSUME NEW t \in Text
    PROVE  SubSeq(t, 1, Len(t)) = t
<1>1. 1 \in 1 .. Len(t) + 1 /\ Len(t) \in 0 .. Len(t)
  BY TextIs
<1>2. QED
  BY <1>1, PartIs, SameText, TextIs

\* What \o gives of two texts.
LEMMA ConcatIs ==
    ASSUME NEW s \in Text, NEW t \in Text
    PROVE  /\ s \o t \in Text
           /\ Len(s \o t) = Len(s) + Len(t)
           /\ \A i \in 1 .. Len(s) : (s \o t)[i] = s[i]
           /\ \A i \in 1 .. Len(t) : (s \o t)[Len(s) + i] = t[i]
BY DEF Text

\* What Append gives of a text.
LEMMA AppendIs ==
    ASSUME NEW t \in Text, NEW c \in Characters
    PROVE  /\ Append(t, c) \in Text
           /\ Len(Append(t, c)) = Len(t) + 1
           /\ \A i \in 1 .. Len(t) : Append(t, c)[i] = t[i]
           /\ Append(t, c)[Len(t) + 1] = c
           /\ Append(t, c) = t \o <<c>>
BY DEF Text

\* What Head and Tail give of a text.
LEMMA TailIs ==
    ASSUME NEW t \in Text, t # <<>>
    PROVE  /\ Tail(t) \in Text
           /\ Len(Tail(t)) = Len(t) - 1
           /\ \A i \in 1 .. Len(t) - 1 : Tail(t)[i] = t[i + 1]
           /\ Head(t) = t[1]
BY DEF Text

-----------------------------------------------------------------------------
\* Characters

\* The ten figures.
LEMMA FigureIs ==
    /\ Figure[0] = "0" /\ Figure[1] = "1" /\ Figure[2] = "2" /\ Figure[3] = "3"
    /\ Figure[4] = "4" /\ Figure[5] = "5" /\ Figure[6] = "6" /\ Figure[7] = "7"
    /\ Figure[8] = "8" /\ Figure[9] = "9" /\ DOMAIN Figure = 0 .. 9
<1> DEFINE F == <<"0", "1", "2", "3", "4", "5", "6", "7", "8", "9">>
<1>1. /\ F[1] = "0" /\ F[2] = "1" /\ F[3] = "2" /\ F[4] = "3" /\ F[5] = "4"
      /\ F[6] = "5" /\ F[7] = "6" /\ F[8] = "7" /\ F[9] = "8" /\ F[10] = "9"
  OBVIOUS
<1>2. Figure = [d \in 0 .. 9 |-> F[d + 1]]
  BY DEF Figure
<1> HIDE DEF F
<1>3. QED
  BY <1>1, <1>2

\* Their set.
LEMMA FiguresAre ==
    Figures = {"0", "1", "2", "3", "4", "5", "6", "7", "8", "9"}
<1>1. \A d \in 0 .. 9 : d \in {0, 1, 2, 3, 4, 5, 6, 7, 8, 9}
  OBVIOUS
<1>2. QED
  BY FigureIs, <1>1 DEF Figures

\* Digit and Figure are inverse.
LEMMA DigitIs ==
    /\ DOMAIN Digit = Figures
    /\ \A c \in Figures : Digit[c] \in 0 .. 9 /\ Figure[Digit[c]] = c
    /\ \A d \in 0 .. 9 : Figure[d] \in Figures /\ Digit[Figure[d]] = d
<1>1. \A d, e \in 0 .. 9 : Figure[d] = Figure[e] => d = e
  <2>1. \A d \in 0 .. 9 : d \in {0, 1, 2, 3, 4, 5, 6, 7, 8, 9}
    OBVIOUS
  <2>2. QED BY <2>1, FigureIs
<1>2. DOMAIN Figure = 0 .. 9
  BY FigureIs
<1>3. \A c \in Figures : Digit[c] \in 0 .. 9 /\ Figure[Digit[c]] = c
  <2> SUFFICES ASSUME NEW c \in Figures
               PROVE  Digit[c] \in 0 .. 9 /\ Figure[Digit[c]] = c
    OBVIOUS
  <2>1. Digit[c] = CHOOSE d \in 0 .. 9 : Figure[d] = c
    BY <1>2 DEF Digit
  <2>2. \E d \in 0 .. 9 : Figure[d] = c
    BY <1>2 DEF Figures
  <2>3. QED BY <2>1, <2>2
<1>4. \A d \in 0 .. 9 : Figure[d] \in Figures
  BY <1>2 DEF Figures
<1>5. QED
  BY <1>1, <1>3, <1>4 DEF Digit

\* Each element of a text takes at least one character.
LEMMA WidthPositive ==
    ASSUME NEW c PROVE Width(c) \in Nat /\ Width(c) >= 1
BY DEF Width

\* The list, entry by entry.
LEMMA ListMapIs ==
    /\ DOMAIN ListMap = 1 .. 8
    /\ ListMap[1].alias = "Relay1" /\ ListMap[1].key = 7
    /\ ListMap[2].alias = "Relay2" /\ ListMap[2].key = 8
    /\ ListMap[3].alias = "Relay3" /\ ListMap[3].key = 9
    /\ ListMap[4].alias = "Relay4" /\ ListMap[4].key = 10
    /\ ListMap[5].alias = "power" /\ ListMap[5].key = 6
    /\ ListMap[6].alias = "phone1" /\ ListMap[6].key = 15
    /\ ListMap[7].alias = "phone2" /\ ListMap[7].key = 16
    /\ ListMap[8].alias = "phone3" /\ ListMap[8].key = 17
BY DEF ListMap

\* The lines of the list, for a split into cases.
LEMMA EntryCases ==
    ASSUME NEW i \in DOMAIN ListMap
    PROVE  i \in {1, 2, 3, 4, 5, 6, 7, 8}
BY ListMapIs

\* Keys of the list are numbers of parameters, aliases are words: neither digits
\* nor separators, and one for each entry.
LEMMA EntryFacts ==
    /\ \A i \in DOMAIN ListMap :
          /\ ListMap[i].key \in Keys
          /\ ListMap[i].key \in {6, 7, 8, 9, 10, 15, 16, 17}
          /\ ListMap[i].alias \in Characters
          /\ ListMap[i].alias \notin Figures \cup {",", "!", " ", "+", "-"}
          /\ i \in 1 .. 8 /\ i \in 0 .. 9
    /\ \A i, j \in DOMAIN ListMap :
          ListMap[i].alias = ListMap[j].alias => i = j
<1>1. DOMAIN ParamName = 0 .. 17
  BY DEF ParamName
<1>2. Keys = 0 .. 17
  BY <1>1 DEF Keys
<1>3. \A i \in DOMAIN ListMap : ListMap[i].key \in {6, 7, 8, 9, 10, 15, 16, 17}
  BY ListMapIs, EntryCases
<1>4. \A i \in DOMAIN ListMap :
         ListMap[i].alias \in {"Relay1", "Relay2", "Relay3", "Relay4", "power",
                              "phone1", "phone2", "phone3"}
  BY ListMapIs, EntryCases
<1>5. \A i \in DOMAIN ListMap : i \in 1 .. 8 /\ i \in 0 .. 9
  BY ListMapIs
<1>6. \A i, j \in DOMAIN ListMap : ListMap[i].alias = ListMap[j].alias => i = j
  BY ListMapIs, EntryCases
<1>7. \A i \in DOMAIN ListMap :
         ListMap[i].alias \notin Figures \cup {",", "!", " ", "+", "-"}
  <2>1. ASSUME NEW a \in {"Relay1", "Relay2", "Relay3", "Relay4", "power",
                          "phone1", "phone2", "phone3"}
        PROVE  a \notin Figures \cup {",", "!", " ", "+", "-"}
    BY FiguresAre
  <2>2. QED BY <1>4, <2>1
<1>8. \A i \in DOMAIN ListMap : ListMap[i].key \in Keys
  BY <1>2, <1>3
<1>9. QED
  BY <1>3, <1>5, <1>6, <1>7, <1>8, SmsCommandAssumption

\* What figures, separators and names take: a name fits key_token.
LEMMA WidthIs ==
    /\ \A c \in Figures \cup {",", "!", "S", "s", "G", "g", "+"} : Width(c) = 1
    /\ \A i \in DOMAIN ListMap : Width(ListMap[i].alias) <= 6
<1>1. \A c \in Figures \cup {",", "!", "S", "s", "G", "g", "+"} : Width(c) = 1
  BY FiguresAre, ZenonT(60) DEF Width
<1>2. \A i \in DOMAIN ListMap : Width(ListMap[i].alias) <= 6
  <2>1. \A i \in DOMAIN ListMap :
           ListMap[i].alias \in {"Relay1", "Relay2", "Relay3", "Relay4",
                                "power", "phone1", "phone2", "phone3"}
    BY ListMapIs, EntryCases
  <2>2. ASSUME NEW a \in {"Relay1", "Relay2", "Relay3", "Relay4", "power",
                          "phone1", "phone2", "phone3"}
        PROVE  Width(a) <= 6
    <3>1. CASE a = "power"
      BY <3>1 DEF Width
    <3>2. CASE a \in {"Relay1", "Relay2", "Relay3", "Relay4", "phone1",
                     "phone2", "phone3"}
      <4>1. Width(a) = 6
        BY <3>2 DEF Width
      <4>2. QED BY <4>1
    <3>3. QED BY <3>1, <3>2
  <2>3. QED BY <2>1, <2>2
<1>3. QED
  BY <1>1, <1>2

-----------------------------------------------------------------------------
\* Ql_strlen: the size of a text grows with each character.

\* f sums the widths of t up to each place.
IsSizes(f, t) ==
    /\ f \in [0 .. Len(t) -> Nat]
    /\ f[0] = 0
    /\ \A i \in 1 .. Len(t) : f[i] = f[i - 1] + Width(t[i])

\* Ql_strlen is such a sum.
LEMMA SizeSteps ==
    ASSUME NEW t \in Text
    PROVE  \E f : IsSizes(f, t) /\ Size(t) = f[Len(t)]
<1> DEFINE n == Len(t)
           G == [p \in Nat \X (1 .. n) |-> p[1] + Width(t[p[2]])]
           P(k) == k = [i \in 0 .. Len(t) |->
                          IF i = 0 THEN 0 ELSE k[i - 1] + Width(t[i])]
<1>1. n \in Nat
  BY DEF Text
<1>2. G \in [Nat \X (1 .. n) -> Nat]
  BY WidthPositive
<1> DEFINE f == Recursive(Nat, 0, n, G)
<1>3. /\ f \in [0 .. n -> Nat]
      /\ f[0] = 0
      /\ \A i \in 1 .. n : f[i] = G[<<f[i - 1], i>>]
  <2>1. 0 \in Nat
    OBVIOUS
  <2> HIDE DEF G, n
  <2>2. IsRecursion(f, Nat, 0, n, G)
    BY ONLY <1>1, <1>2, <2>1, Recursion
  <2>3. QED BY <2>2 DEF IsRecursion
<1> HIDE DEF f
<1>4. \A i \in 1 .. n : f[i] = f[i - 1] + Width(t[i])
  <2> TAKE i \in 1 .. n
  <2>1. i - 1 \in 0 .. n /\ f[i - 1] \in Nat
    BY <1>1, <1>3
  <2>2. G[<<f[i - 1], i>>] = f[i - 1] + Width(t[i])
    BY <2>1
  <2>3. QED BY <2>2, <1>3
<1>5. P(f)
  <2>1. \A i \in 0 .. n : f[i] = IF i = 0 THEN 0 ELSE f[i - 1] + Width(t[i])
    BY <1>3, <1>4, <1>1
  <2>2. f = [i \in 0 .. n |-> f[i]]
    BY <1>3
  <2>3. QED BY <2>1, <2>2
<1> DEFINE k == CHOOSE g : P(g)
<1>6. P(k)
  BY <1>5
<1>7. k[0] = 0 /\ \A i \in 1 .. n : k[i] = k[i - 1] + Width(t[i])
  <2> HIDE DEF k
  <2>1. QED BY <1>6, <1>1
<1>8. k[n] = f[n]
  <2> HIDE DEF k, n
  <2>1. \A i \in 1 .. n : k[i - 1] = f[i - 1] => k[i] = f[i]
    BY <1>4, <1>7
  <2>2. k[0] = f[0]
    BY <1>3, <1>7
  <2>3. \A i \in 0 .. n : k[i] = f[i]
    BY ONLY <1>1, <2>1, <2>2, SameRecursion
  <2>4. QED BY <2>3, <1>1
<1>9. Size(t) = k[n]
  BY DEF Size
<1>10. QED
  BY <1>3, <1>4, <1>8, <1>9 DEF IsSizes

\* The length of one character or word.
LEMMA SizeOne ==
    ASSUME NEW c \in Characters
    PROVE  Size(<<c>>) = Width(c)
<1>1. <<c>> \in Text /\ Len(<<c>>) = 1 /\ <<c>>[1] = c
  BY DEF Text
<1>2. PICK f : IsSizes(f, <<c>>) /\ Size(<<c>>) = f[Len(<<c>>)]
  BY <1>1, SizeSteps
<1>3. f[1] = f[1 - 1] + Width(c)
  BY <1>1, <1>2 DEF IsSizes
<1>4. f[0] = 0 /\ 1 - 1 = 0
  BY <1>2 DEF IsSizes
<1>5. QED
  BY <1>1, <1>2, <1>3, <1>4, WidthPositive

\* Lengths add up.
LEMMA SizeConcat ==
    ASSUME NEW s \in Text, NEW t \in Text
    PROVE  /\ Size(s) \in Nat /\ Size(t) \in Nat
           /\ Size(s \o t) = Size(s) + Size(t)
<1>1. s \o t \in Text /\ Len(s \o t) = Len(s) + Len(t)
      /\ Len(s) \in Nat /\ Len(t) \in Nat
  BY DEF Text
<1>2. PICK f : IsSizes(f, s) /\ Size(s) = f[Len(s)]
  BY SizeSteps
<1>3. PICK g : IsSizes(g, t) /\ Size(t) = g[Len(t)]
  BY SizeSteps
<1>4. PICK h : IsSizes(h, s \o t) /\ Size(s \o t) = h[Len(s \o t)]
  BY <1>1, SizeSteps
<1>5. h[Len(s)] = f[Len(s)]
  <2>1. \A i \in 1 .. Len(s) : h[i - 1] = f[i - 1] => h[i] = f[i]
    <3> TAKE i \in 1 .. Len(s)
    <3>1. (s \o t)[i] = s[i] /\ i \in 1 .. Len(s \o t)
      BY <1>1 DEF Text
    <3>2. h[i] = h[i - 1] + Width(s[i])
      BY <3>1, <1>4 DEF IsSizes
    <3>3. f[i] = f[i - 1] + Width(s[i])
      BY <1>2 DEF IsSizes
    <3>4. QED BY <3>2, <3>3
  <2>2. h[0] = f[0]
    BY <1>2, <1>4 DEF IsSizes
  <2>3. \A i \in 0 .. Len(s) : h[i] = f[i]
    <3> DEFINE n == Len(s)
    <3>1. n \in Nat
      BY <1>1
    <3>2. \A i \in 1 .. n : h[i - 1] = f[i - 1] => h[i] = f[i]
      BY <2>1
    <3> HIDE DEF n
    <3>3. \A i \in 0 .. n : h[i] = f[i]
      BY ONLY <3>1, <3>2, <2>2, SameRecursion
    <3>4. QED BY <3>3 DEF n
  <2>4. QED BY <2>3, <1>1
<1> DEFINE u == [j \in 0 .. Len(t) |-> h[Len(s) + j]]
           v == [j \in 0 .. Len(t) |-> f[Len(s)] + g[j]]
<1>6. f[Len(s)] \in Nat /\ \A j \in 0 .. Len(t) : g[j] \in Nat
  BY <1>1, <1>2, <1>3, SMTT(30) DEF IsSizes
<1>7. u[0] = v[0]
  <2>1. g[0] = 0 /\ 0 \in 0 .. Len(t) /\ Len(s) + 0 = Len(s)
    BY <1>1, <1>3 DEF IsSizes
  <2>2. QED BY <2>1, <1>5, <1>6
<1>8. \A j \in 1 .. Len(t) : u[j - 1] = v[j - 1] => u[j] = v[j]
  <2> TAKE j \in 1 .. Len(t)
  <2>1. (s \o t)[Len(s) + j] = t[j] /\ Len(s) + j \in 1 .. Len(s \o t)
        /\ (Len(s) + j) - 1 = Len(s) + (j - 1)
        /\ j - 1 \in 0 .. Len(t) /\ j \in 0 .. Len(t)
    BY <1>1 DEF Text
  <2>2. h[Len(s) + j] = h[Len(s) + (j - 1)] + Width(t[j])
    BY <2>1, <1>4 DEF IsSizes
  <2>3. g[j] = g[j - 1] + Width(t[j])
    BY <1>3 DEF IsSizes
  <2>4. Width(t[j]) \in Nat
    BY WidthPositive
  <2>5. QED BY <2>1, <2>2, <2>3, <2>4, <1>6, SMTT(30)
<1>9. u[Len(t)] = v[Len(t)]
  <2> HIDE DEF u, v
  <2>1. \A j \in 0 .. Len(t) : u[j] = v[j]
    <3> DEFINE n == Len(t)
    <3>1. n \in Nat
      BY <1>1
    <3>2. \A j \in 1 .. n : u[j - 1] = v[j - 1] => u[j] = v[j]
      BY <1>8
    <3> HIDE DEF n
    <3>3. \A j \in 0 .. n : u[j] = v[j]
      BY ONLY <3>1, <3>2, <1>7, SameRecursion
    <3>4. QED BY <3>3 DEF n
  <2>2. QED BY <2>1, <1>1
<1>10. Len(t) \in 0 .. Len(t)
  BY <1>1
<1>11. QED
  BY <1>1, <1>2, <1>3, <1>4, <1>6, <1>9, <1>10

-----------------------------------------------------------------------------
\* sms_trim_text returns a part of the text, the whole of it where no blank
\* stands at its ends.

\* sms_trim_text gives a text, and leaves one alone that has no blank at its ends.
LEMMA TrimmedIs ==
    ASSUME NEW t \in Text
    PROVE  /\ Trimmed(t) \in Text
           /\ t # <<>> /\ t[1] # " " /\ t[Len(t)] # " " => Trimmed(t) = t
<1> DEFINE n == Len(t)
           solid == {i \in DOMAIN t : t[i] # " "}
           first == CHOOSE i \in solid : \A j \in solid : i <= j
           last == CHOOSE i \in solid : \A j \in solid : i >= j
<1>1. n \in Nat /\ DOMAIN t = 1 .. n /\ (t = <<>> \/ n > 0)
  BY TextIs
<1>2. solid \in SUBSET Nat /\ solid \in SUBSET (0 .. n)
  <2>1. \A i \in solid : i \in 1 .. n
    BY <1>1
  <2>2. \A i \in 1 .. n : i \in Nat /\ i \in 0 .. n
    BY <1>1
  <2> HIDE DEF solid, n
  <2>3. QED BY <2>1, <2>2
<1>3. Trimmed(t) = IF solid = {} THEN <<>> ELSE SubSeq(t, first, last)
  BY DEF Trimmed
<1>4. t # <<>> /\ t[1] # " " /\ t[Len(t)] # " " => 1 \in solid /\ n \in solid
  <2> SUFFICES ASSUME t # <<>>, t[1] # " ", t[Len(t)] # " "
               PROVE  1 \in solid /\ n \in solid
    OBVIOUS
  <2>1. n > 0
    BY ONLY t # <<>>, <1>1, Zenon
  <2>2. 1 \in 1 .. n /\ n \in 1 .. n
    <3>1. n \in Nat
      BY ONLY <1>1
    <3> HIDE DEF n
    <3>2. QED BY ONLY <3>1, <2>1
  <2>3. QED BY <2>2, <1>1
<1>5. CASE solid = {}
  BY <1>3, <1>4, <1>5, TextIs
<1>6. CASE solid # {}
  <2>1. first \in solid /\ \A j \in solid : first <= j
    <3>1. \E i \in solid : \A j \in solid : i <= j
      <4> HIDE DEF solid
      <4>1. QED BY ONLY <1>2, <1>6, Smallest
    <3>2. QED BY <3>1
  <2>2. last \in solid /\ \A j \in solid : last >= j
    <3>1. \E i \in solid : \A j \in solid : i >= j
      <4> HIDE DEF solid, n
      <4>1. QED BY ONLY <1>1, <1>2, <1>6, Greatest
    <3>2. QED BY <3>1
  <2>3. Trimmed(t) = SubSeq(t, first, last)
    BY <1>3, <1>6
  <2> HIDE DEF first, last
  <2>4. first \in 1 .. n /\ last \in 1 .. n
    BY <2>1, <2>2, <1>1
  <2>5. SubSeq(t, first, last) \in Text
    <3>1. first \in 1 .. Len(t) + 1 /\ last \in 0 .. Len(t)
      BY <2>4, <1>1
    <3>2. QED BY <3>1, PartIs
  <2>6. ASSUME 1 \in solid, n \in solid PROVE SubSeq(t, first, last) = t
    <3> HIDE DEF solid
    <3>1. first <= 1 /\ last >= n
      BY <2>6, <2>1, <2>2
    <3>2. first = 1 /\ last = n
      <4>1. first \in Int /\ last \in Int /\ 1 <= first /\ last <= n
        BY <2>4, <1>1
      <4>2. n \in Int
        BY <1>1
      <4> HIDE DEF n
      <4>3. QED BY ONLY <4>1, <4>2, <3>1
    <3>3. QED BY <3>2, WholeIs
  <2>7. QED BY <2>3, <2>5, <2>6, <1>4
<1>7. QED
  BY <1>5, <1>6

-----------------------------------------------------------------------------
\* Ql_atoi

\* f is what the digits of t stand for up to each place.
IsValues(f, t) ==
    /\ f \in [0 .. Len(t) -> Nat]
    /\ f[0] = 0
    /\ \A i \in 1 .. Len(t) :
          f[i] = IF \A j \in 1 .. i : IsDigit(t[j])
                   THEN 10 * f[i - 1] + Digit[t[i]] ELSE f[i - 1]

\* Ql_atoi adds digit after digit.
LEMMA NaturalSteps ==
    ASSUME NEW t \in Text
    PROVE  \E f : IsValues(f, t) /\ Natural(t) = f[Len(t)]
<1> DEFINE n == Len(t)
           Step(v, i) == IF \A j \in 1 .. i : IsDigit(t[j])
                           THEN 10 * v + Digit[t[i]] ELSE v
           G == [p \in Nat \X (1 .. n) |-> Step(p[1], p[2])]
           P(k) == k = [i \in 0 .. Len(t) |->
                          IF i = 0 THEN 0
                          ELSE IF \A j \in 1 .. i : IsDigit(t[j])
                            THEN 10 * k[i - 1] + Digit[t[i]] ELSE k[i - 1]]
           k == CHOOSE g : P(g)
<1>1. n \in Nat
  BY TextIs
<1>2. Natural(t) = k[n]
  BY DEF Natural
<1>3. \A v \in Nat, i \in 1 .. n : Step(v, i) \in Nat
  <2> TAKE v \in Nat, i \in 1 .. n
  <2>1. IsDigit(t[i]) => Digit[t[i]] \in Nat
    BY DigitIs, SMTT(30) DEF IsDigit
  <2>2. (\A j \in 1 .. i : IsDigit(t[j])) => IsDigit(t[i])
    BY <1>1
  <2>3. QED BY <2>1, <2>2
<1> HIDE DEF Step
<1>4. G \in [Nat \X (1 .. n) -> Nat]
  BY <1>3
<1> DEFINE f == Recursive(Nat, 0, n, G)
<1>5. /\ f \in [0 .. n -> Nat]
      /\ f[0] = 0
      /\ \A i \in 1 .. n : f[i] = G[<<f[i - 1], i>>]
  <2>1. 0 \in Nat
    OBVIOUS
  <2> HIDE DEF G, n
  <2>2. IsRecursion(f, Nat, 0, n, G)
    BY ONLY <1>1, <1>4, <2>1, Recursion
  <2>3. QED BY <2>2 DEF IsRecursion
<1> HIDE DEF f
<1>6. \A i \in 1 .. n : f[i] = Step(f[i - 1], i)
  <2> TAKE i \in 1 .. n
  <2>1. i - 1 \in 0 .. n /\ f[i - 1] \in Nat
    BY <1>1, <1>5
  <2>2. G[<<f[i - 1], i>>] = Step(f[i - 1], i)
    BY <2>1
  <2>3. QED BY <2>2, <1>5
<1>7. P(f)
  <2>1. \A i \in 0 .. n : f[i] = IF i = 0 THEN 0 ELSE Step(f[i - 1], i)
    BY <1>5, <1>6, <1>1
  <2>2. f = [i \in 0 .. n |-> f[i]]
    BY <1>5
  <2>3. QED BY <2>1, <2>2 DEF Step
<1>8. P(k)
  BY <1>7
<1>9. k[0] = 0 /\ \A i \in 1 .. n : k[i] = Step(k[i - 1], i)
  <2> HIDE DEF k
  <2>1. k[0] = 0
    BY <1>8, <1>1
  <2>2. ASSUME NEW i \in 1 .. n PROVE k[i] = Step(k[i - 1], i)
    <3>1. i \in 0 .. Len(t) /\ i # 0
      BY <1>1
    <3>2. QED BY <3>1, <1>8 DEF Step
  <2>3. QED BY <2>1, <2>2
<1>10. k[n] = f[n]
  <2> HIDE DEF k, n
  <2>1. \A i \in 1 .. n : k[i - 1] = f[i - 1] => k[i] = f[i]
    BY <1>6, <1>9
  <2>2. k[0] = f[0]
    BY <1>5, <1>9
  <2>3. \A i \in 0 .. n : k[i] = f[i]
    BY ONLY <1>1, <2>1, <2>2, SameRecursion
  <2>4. QED BY <2>3, <1>1
<1>11. IsValues(f, t)
  BY <1>5, <1>6 DEF IsValues, Step
<1>12. QED
  BY <1>2, <1>10, <1>11

\* Ql_atoi returns a number, whatever the text.
LEMMA AtoiIs ==
    ASSUME NEW t \in Text
    PROVE  Atoi(t) \in Int
<1> DEFINE text == Trimmed(t)
           number == IF text # <<>> /\ Head(text) \in {"+", "-"}
                       THEN Tail(text) ELSE text
           size == Natural(number)
<1>1. number \in Text
  BY TrimmedIs, TailIs
<1>2. size \in Nat
  <2> HIDE DEF number
  <2>1. PICK f : IsValues(f, number) /\ Natural(number) = f[Len(number)]
    BY <1>1, NaturalSteps
  <2>2. Len(number) \in 0 .. Len(number)
    BY <1>1, TextIs
  <2>3. QED BY <2>1, <2>2 DEF IsValues
<1>3. OutOfRange(t) \in Int
  <2>1. [x \in Text |-> 0] \in [Text -> Int]
    OBVIOUS
  <2>2. \E f \in [Text -> Int] : TRUE
    BY <2>1
  <2>3. QED BY <2>2 DEF OutOfRange
<1>4. Atoi(t) \in {OutOfRange(t), -size, size}
  BY DEF Atoi
<1> HIDE DEF size
<1>5. QED
  BY <1>2, <1>3, <1>4

\* A text of digits stands for the number, or is too long a number.
LEMMA AtoiDigits ==
    ASSUME NEW t \in Text, t # <<>>, \A i \in 1 .. Len(t) : IsDigit(t[i])
    PROVE  Atoi(t) = IF Natural(t) >= AtoiLimit THEN OutOfRange(t) ELSE Natural(t)
<1>1. Len(t) \in Nat /\ Len(t) > 0
  BY TextIs
<1>2. t[1] \notin {" ", "+", "-"} /\ t[Len(t)] # " "
  <2>1. 1 \in 1 .. Len(t) /\ Len(t) \in 1 .. Len(t)
    BY <1>1
  <2>2. t[1] \in Figures /\ t[Len(t)] \in Figures
    BY <2>1 DEF IsDigit
  <2>3. QED BY <2>2, FiguresAre
<1>3. Trimmed(t) = t /\ Head(t) \notin {"+", "-"}
  BY <1>2, TrimmedIs, TailIs
<1>4. QED
  BY <1>3 DEF Atoi

-----------------------------------------------------------------------------
\* sms_sanitize_phone keeps a number that fits: digits, after a + at most.

\* What the buffer of a sanitized number can hold: digits after at most one +.
PhoneTexts ==
    {n \in Text : /\ Len(n) < MaxPhone
                  /\ \A j \in 1 .. Len(n) : n[j] \in Figures \/ (j = 1 /\ n[j] = "+")}

\* The buffer after one more character, in sms_sanitize_phone.
KeptAfter(output, c) ==
    IF /\ IsDigit(c) \/ (c = "+" /\ output = <<>>)
       /\ Len(output) < MaxPhone - 1
      THEN Append(output, c) ELSE output

\* What is assumed of the sizes of the buffers.
LEMMA BufferSizes ==
    /\ MaxCommand \in Nat /\ MaxKey \in Nat /\ MaxPhone \in Nat
    /\ MaxKey > 6 /\ MaxPhone > 1
BY SmsCommandAssumption

\* One more character leaves a number in the buffer.
LEMMA KeptIsPhone ==
    ASSUME NEW output \in PhoneTexts, NEW c \in Characters
    PROVE  KeptAfter(output, c) \in PhoneTexts
<1> DEFINE a == Append(output, c)
<1>1. output \in Text /\ Len(output) \in Nat
  BY TextIs DEF PhoneTexts
<1>2. /\ a \in Text /\ Len(a) = Len(output) + 1
      /\ \A i \in 1 .. Len(output) : a[i] = output[i]
      /\ a[Len(output) + 1] = c
  BY <1>1, AppendIs
<1> HIDE DEF a
<1>3. ASSUME IsDigit(c) \/ (c = "+" /\ output = <<>>), Len(output) < MaxPhone - 1
      PROVE  a \in PhoneTexts
  <2>1. Len(a) < MaxPhone
    <3>1. Len(output) < MaxPhone - 1
      BY <1>3
    <3>2. QED BY ONLY <1>1, <1>2, <3>1, BufferSizes
  <2>2. ASSUME NEW j \in 1 .. Len(a)
        PROVE  a[j] \in Figures \/ (j = 1 /\ a[j] = "+")
    <3>1. CASE j \in 1 .. Len(output)
      <4>1. a[j] = output[j]
        BY <3>1, <1>2
      <4>2. QED BY <3>1, <4>1 DEF PhoneTexts
    <3>2. CASE j = Len(output) + 1
      <4>1. a[j] = c
        BY <3>2, <1>2
      <4>2. output = <<>> => j = 1
        BY <3>2, TextIs
      <4>3. QED BY <4>1, <4>2, <1>3 DEF IsDigit
    <3>3. j \in 1 .. Len(output) \/ j = Len(output) + 1
      BY <1>1, <1>2
    <3>4. QED BY <3>1, <3>2, <3>3
  <2>3. QED BY <2>1, <2>2, <1>2 DEF PhoneTexts
<1>4. QED
  BY <1>3 DEF KeptAfter, a

\* f is the buffer of sms_sanitize_phone after each character of t.
IsKept(f, t) ==
    /\ f \in [0 .. Len(t) -> PhoneTexts]
    /\ f[0] = <<>>
    /\ \A i \in 1 .. Len(t) : f[i] = KeptAfter(f[i - 1], t[i])

\* sms_sanitize_phone takes such steps.
LEMMA SanitizedSteps ==
    ASSUME NEW t \in Text
    PROVE  \E f : IsKept(f, t) /\ Sanitized(t) = f[Len(t)]
<1> DEFINE n == Len(t)
           G == [p \in PhoneTexts \X (1 .. n) |-> KeptAfter(p[1], t[p[2]])]
           P(k) == k = [i \in 0 .. Len(t) |->
                          IF i = 0 THEN <<>>
                          ELSE IF /\ IsDigit(t[i]) \/ (t[i] = "+" /\ k[i - 1] = <<>>)
                                  /\ Len(k[i - 1]) < MaxPhone - 1
                                 THEN Append(k[i - 1], t[i]) ELSE k[i - 1]]
           k == CHOOSE g : P(g)
<1>1. n \in Nat
  BY TextIs
<1>2. Sanitized(t) = k[n]
  BY DEF Sanitized
<1>3. <<>> \in PhoneTexts
  <2>1. <<>> \in Text /\ Len(<<>>) = 0
    BY TextIs
  <2>2. QED BY <2>1, BufferSizes DEF PhoneTexts
<1>4. \A i \in 1 .. n : t[i] \in Characters
  BY TextIs
<1>5. G \in [PhoneTexts \X (1 .. n) -> PhoneTexts]
  BY <1>4, KeptIsPhone
<1> DEFINE f == Recursive(PhoneTexts, <<>>, n, G)
<1>6. /\ f \in [0 .. n -> PhoneTexts]
      /\ f[0] = <<>>
      /\ \A i \in 1 .. n : f[i] = G[<<f[i - 1], i>>]
  <2> HIDE DEF G, n
  <2>1. IsRecursion(f, PhoneTexts, <<>>, n, G)
    BY ONLY <1>1, <1>3, <1>5, Recursion
  <2>2. QED BY <2>1 DEF IsRecursion
<1> HIDE DEF f
<1>7. \A i \in 1 .. n : f[i] = KeptAfter(f[i - 1], t[i])
  <2> TAKE i \in 1 .. n
  <2>1. i - 1 \in 0 .. n /\ f[i - 1] \in PhoneTexts
    BY <1>1, <1>6
  <2>2. G[<<f[i - 1], i>>] = KeptAfter(f[i - 1], t[i])
    BY <2>1
  <2>3. QED BY <2>2, <1>6
<1>8. P(f)
  <2>1. \A i \in 0 .. n : f[i] = IF i = 0 THEN <<>> ELSE KeptAfter(f[i - 1], t[i])
    BY <1>6, <1>7, <1>1
  <2>2. f = [i \in 0 .. n |-> f[i]]
    BY <1>6
  <2>3. QED BY <2>1, <2>2 DEF KeptAfter
<1>9. P(k)
  BY <1>8
<1>10. k[0] = <<>> /\ \A i \in 1 .. n : k[i] = KeptAfter(k[i - 1], t[i])
  <2> HIDE DEF k
  <2>1. k[0] = <<>>
    BY <1>9, <1>1
  <2>2. ASSUME NEW i \in 1 .. n PROVE k[i] = KeptAfter(k[i - 1], t[i])
    <3>1. i \in 0 .. Len(t) /\ i # 0
      BY <1>1
    <3>2. QED BY <3>1, <1>9 DEF KeptAfter
  <2>3. QED BY <2>1, <2>2
<1>11. k[n] = f[n]
  <2> HIDE DEF k, n
  <2>1. \A i \in 1 .. n : k[i - 1] = f[i - 1] => k[i] = f[i]
    BY <1>7, <1>10
  <2>2. k[0] = f[0]
    BY <1>6, <1>10
  <2>3. \A i \in 0 .. n : k[i] = f[i]
    BY ONLY <1>1, <2>1, <2>2, SameRecursion
  <2>4. QED BY <2>3, <1>1
<1>12. IsKept(f, t)
  BY <1>6, <1>7 DEF IsKept
<1>13. QED
  BY <1>2, <1>11, <1>12

\* It leaves digits after at most one +, and never fills its buffer over its end.
LEMMA SanitizedIs ==
    ASSUME NEW t \in Text
    PROVE  Sanitized(t) \in PhoneTexts
<1>1. PICK f : IsKept(f, t) /\ Sanitized(t) = f[Len(t)]
  BY SanitizedSteps
<1>2. Len(t) \in 0 .. Len(t)
  BY TextIs
<1>3. QED
  BY <1>1, <1>2 DEF IsKept

-----------------------------------------------------------------------------
\* The forms of a number

\* The characters that the code looks for.
LEMMA CharactersAre ==
    /\ Figures \subseteq Characters
    /\ "S" \in Characters /\ "s" \in Characters
    /\ "G" \in Characters /\ "+" \in Characters
    /\ "," \in Characters /\ "!" \in Characters
<1>1. Figures \cup {"S", "s", "G", "g", "+", ",", "!"} \subseteq Characters
  BY SmsCommandAssumption
<1>2. QED
  BY <1>1

\* A text of one character.
LEMMA OneIs ==
    ASSUME NEW c \in Characters
    PROVE  <<c>> \in Text /\ Len(<<c>>) = 1 /\ <<c>>[1] = c
BY DEF Text

\* What is assumed of the country code.
LEMMA CountryCodeIs ==
    /\ CC \in Text /\ Len(CC) \in Nat /\ Len(CC) > 0 /\ CC[1] # "0"
    /\ \A i \in 1 .. Len(CC) : CC[i] \in Figures
<1>1. CC \in Seq(Figures) /\ CC # <<>> /\ Head(CC) # "0"
      /\ Figures \subseteq Characters
  BY SmsCommandAssumption
<1>2. CC \in Text
  BY <1>1, SeqMonotonic DEF Text
<1>3. Len(CC) \in Nat /\ Len(CC) > 0 /\ Head(CC) = CC[1]
  BY <1>1, <1>2, TextIs, TailIs
<1>4. \A i \in 1 .. Len(CC) : CC[i] \in Figures
  BY <1>1
<1>5. QED
  BY <1>1, <1>2, <1>3, <1>4

\* A text with a character before it.
LEMMA AheadIs ==
    ASSUME NEW c \in Characters, NEW n \in Text
    PROVE  /\ <<c>> \o n \in Text
           /\ <<c>> \o n # <<>>
           /\ Len(<<c>> \o n) = Len(n) + 1
           /\ Head(<<c>> \o n) = c
           /\ Tail(<<c>> \o n) = n
           /\ (<<c>> \o n)[1] = c
<1> DEFINE p == <<c>>
           y == p \o n
<1>1. p \in Text /\ Len(p) = 1 /\ p[1] = c
  BY OneIs
<1> HIDE DEF p
<1>2. y \in Text /\ Len(y) = 1 + Len(n) /\ y[1] = c
      /\ \A i \in 1 .. Len(n) : y[1 + i] = n[i]
  <2>1. 1 \in 1 .. Len(p)
    BY <1>1
  <2>2. /\ p \o n \in Text /\ Len(p \o n) = Len(p) + Len(n)
        /\ \A i \in 1 .. Len(p) : (p \o n)[i] = p[i]
        /\ \A i \in 1 .. Len(n) : (p \o n)[Len(p) + i] = n[i]
    BY <1>1, ConcatIs
  <2>3. (p \o n)[1] = p[1]
    BY <2>1, <2>2
  <2>4. QED BY <2>2, <2>3, <1>1
<1>3. Len(n) \in Nat
  BY TextIs
<1> HIDE DEF y
<1>4. y # <<>>
  BY <1>2, <1>3, TextIs
<1>5. Tail(y) \in Text /\ Len(Tail(y)) = Len(n) /\ Head(y) = c
      /\ \A i \in 1 .. Len(n) : Tail(y)[i] = n[i]
  BY <1>2, <1>3, <1>4, TailIs
<1>6. Tail(y) = n
  BY <1>5, SameText
<1>7. QED
  BY <1>2, <1>3, <1>4, <1>5, <1>6 DEF y, p

\* A number with a + before it.
LEMMA PlusIs ==
    ASSUME NEW n \in Text
    PROVE  /\ <<"+">> \o n \in Text
           /\ <<"+">> \o n # <<>>
           /\ Len(<<"+">> \o n) = Len(n) + 1
           /\ Head(<<"+">> \o n) = "+"
           /\ Tail(<<"+">> \o n) = n
           /\ (<<"+">> \o n)[1] = "+"
BY AheadIs, CharactersAre

\* The number without its +.
Bare(n) == IF n # <<>> /\ Head(n) = "+" THEN Tail(n) ELSE n

\* The number is written with the leading 0 of a national one.
National(n) == n[1] = "0" /\ Len(Bare(n)) > 1

\* The number as it is dialled from abroad, without the +.
Abroad(n) == IF National(n) THEN CC \o Tail(Bare(n)) ELSE Bare(n)

\* The terms of SmsCommandProps in these.
LEMMA FormsOf ==
    ASSUME NEW t
    PROVE  /\ Digits(t) = Bare(Sanitized(t))
           /\ International(t) = Abroad(Sanitized(t))
BY DEF Digits, International, Bare, Abroad, National

\* A form of a number is the number with or without a +, or a national number
\* with the country code, which does not look like a national one.
LEMMA CandidateIs ==
    ASSUME NEW n \in Text, n # <<>>, NEW x,
           IF Head(n) = "+" THEN x = n
           ELSE \/ x = n
                \/ x = <<"+">> \o n
                \/ Head(n) = "0" /\ Len(n) > 1 /\ x = <<"+">> \o CC \o Tail(n)
    PROVE  \/ Bare(x) = Bare(n)
           \/ National(n) /\ Bare(x) = Abroad(n) /\ Bare(x)[1] # "0"
<1>1. Head(n) = n[1] /\ Tail(n) \in Text
  BY TailIs
<1>2. CASE x = n
  BY <1>2
<1>3. CASE Head(n) # "+" /\ x = <<"+">> \o n
  BY <1>3, PlusIs DEF Bare
<1>4. CASE Head(n) = "0" /\ Len(n) > 1 /\ x = <<"+">> \o CC \o Tail(n)
  <2>1. <<"+">> \in Text /\ CC \in Text
    BY CountryCodeIs, CharactersAre, OneIs
  <2>2. x = <<"+">> \o (CC \o Tail(n))
    BY <1>4, <1>1, <2>1, ConcatAssociative, SMTT(30) DEF Text
  <2>3. CC \o Tail(n) \in Text /\ (CC \o Tail(n))[1] = CC[1]
    BY <1>1, CountryCodeIs, ConcatIs
  <2> DEFINE y == CC \o Tail(n)
  <2> HIDE DEF y
  <2>4. Bare(x) = CC \o Tail(n)
    BY <2>2, <2>3, PlusIs DEF Bare, y
  <2>5. Bare(n) = n
    BY <1>4 DEF Bare
  <2>6. National(n)
    BY <2>5, <1>1, <1>4 DEF National
  <2>7. QED BY <2>3, <2>4, <2>5, <2>6, CountryCodeIs DEF Abroad
<1>5. QED
  BY <1>2, <1>3, <1>4

\* Two numbers that share a candidate are the same subscriber's: no form too many
\* (sms_build_candidates).
LEMMA CandidatesShare ==
    ASSUME NEW a \in Text, NEW b \in Text, Candidates(a) \cap Candidates(b) # {}
    PROVE  SameSubscriber(a, b)
<1> DEFINE m == Sanitized(a)
           n == Sanitized(b)
<1>1. m \in Text /\ n \in Text
  BY SanitizedIs DEF PhoneTexts
<1>2. PICK x : x \in Candidates(a) /\ x \in Candidates(b)
  OBVIOUS
<1>3. m # <<>> /\ n # <<>>
  BY <1>2 DEF Candidates
<1>4. IF Head(m) = "+" THEN x = m
      ELSE \/ x = m
           \/ x = <<"+">> \o m
           \/ Head(m) = "0" /\ Len(m) > 1 /\ x = <<"+">> \o CC \o Tail(m)
  BY <1>2, <1>3 DEF Candidates, Short
<1>5. IF Head(n) = "+" THEN x = n
      ELSE \/ x = n
           \/ x = <<"+">> \o n
           \/ Head(n) = "0" /\ Len(n) > 1 /\ x = <<"+">> \o CC \o Tail(n)
  BY <1>2, <1>3 DEF Candidates, Short
<1> HIDE DEF m, n
<1>6. \/ Bare(x) = Bare(m)
      \/ National(m) /\ Bare(x) = Abroad(m) /\ Bare(x)[1] # "0"
  BY ONLY <1>1, <1>3, <1>4, CandidateIs
<1>7. \/ Bare(x) = Bare(n)
      \/ National(n) /\ Bare(x) = Abroad(n) /\ Bare(x)[1] # "0"
  BY ONLY <1>1, <1>3, <1>5, CandidateIs
<1>8. ASSUME NEW k \in Text, k # <<>>, Bare(k)[1] # "0" PROVE Abroad(k) = Bare(k)
  <2>1. Head(k) = k[1]
    BY <1>8, TailIs
  <2>2. National(k) => Bare(k) = k
    BY <2>1 DEF National, Bare
  <2>3. QED BY <2>2, <1>8 DEF Abroad, National
<1>9. Bare(m) = Bare(n) \/ Abroad(m) = Abroad(n)
  BY <1>1, <1>3, <1>6, <1>7, <1>8
<1>10. QED
  BY <1>3, <1>9, FormsOf DEF SameSubscriber, m, n

-----------------------------------------------------------------------------
\* simple_strtok

\* What a token can be: simple_strtok skips empty ones.
TokenTexts == Text \ {<<>>}

\* The tokens after one more character.
TokensAfter(found, t, i) ==
    IF t[i] = "," THEN found
    ELSE IF i = 1 \/ t[i - 1] = "," THEN Append(found, <<t[i]>>)
    ELSE [found EXCEPT ![Len(found)] = Append(@, t[i])]

\* f is the tokens found after each character of t.
IsTokens(f, t) ==
    /\ f \in [0 .. Len(t) -> Seq(TokenTexts)]
    /\ f[0] = <<>>
    /\ \A i \in 1 .. Len(t) : f[i] = TokensAfter(f[i - 1], t, i)

\* One more character leaves tokens that are not empty.
LEMMA TokensAfterIs ==
    ASSUME NEW t \in Text, NEW i \in 1 .. Len(t), NEW found \in Seq(TokenTexts)
    PROVE  TokensAfter(found, t, i) \in Seq(TokenTexts)
<1>1. t[i] \in Characters
  BY TextIs
<1>2. <<t[i]>> \in TokenTexts
  BY <1>1, OneIs, TextIs DEF TokenTexts
<1>3. Append(found, <<t[i]>>) \in Seq(TokenTexts)
  BY <1>2, AppendProperties
<1>4. [found EXCEPT ![Len(found)] = Append(@, t[i])] \in Seq(TokenTexts)
  <2> DEFINE m == Len(found)
             e == Append(found[m], t[i])
  <2>1. m \in Nat
    BY LenProperties
  <2>2. CASE m = 0
    <3>1. found = <<>>
      BY <2>2, EmptySeq
    <3>2. [found EXCEPT ![Len(found)] = Append(@, t[i])] = found
      BY <2>2, LenProperties
    <3>3. QED BY <3>2
  <2>3. CASE m # 0
    <3>1. m \in 1 .. Len(found)
      BY <2>1, <2>3
    <3>2. found[m] \in TokenTexts
      BY <3>1, ElementOfSeq
    <3>3. e \in Text /\ Len(e) = Len(found[m]) + 1 /\ Len(found[m]) \in Nat
      BY <3>2, <1>1, AppendIs, TextIs DEF TokenTexts
    <3>4. e \in TokenTexts
      <4> HIDE DEF e
      <4>1. Len(e) # 0
        BY <3>3
      <4>2. QED BY <3>3, <4>1, TextIs DEF TokenTexts
    <3> HIDE DEF e
    <3>5. [found EXCEPT ![m] = e] \in Seq(TokenTexts)
      <4> HIDE DEF m
      <4>1. QED BY <3>1, <3>4, ExceptSeq, SMTT(30)
    <3>6. QED BY <3>5 DEF e
  <2>4. QED BY <2>2, <2>3
<1>5. QED
  BY <1>3, <1>4 DEF TokensAfter

\* simple_strtok takes such steps.
LEMMA TokensSteps ==
    ASSUME NEW t \in Text
    PROVE  \E f : IsTokens(f, t) /\ Tokens(t) = f[Len(t)]
<1> DEFINE n == Len(t)
           S == Seq(TokenTexts)
           G == [p \in S \X (1 .. n) |-> TokensAfter(p[1], t, p[2])]
           P(k) == k = [i \in 0 .. Len(t) |->
                          IF i = 0 THEN <<>>
                          ELSE IF t[i] = "," THEN k[i - 1]
                          ELSE IF i = 1 \/ t[i - 1] = ","
                            THEN Append(k[i - 1], <<t[i]>>)
                          ELSE [k[i - 1] EXCEPT ![Len(k[i - 1])] = Append(@, t[i])]]
           k == CHOOSE g : P(g)
<1>1. n \in Nat
  BY TextIs
<1>2. Tokens(t) = k[n]
  BY DEF Tokens
<1>3. <<>> \in S
  OBVIOUS
<1>4. G \in [S \X (1 .. n) -> S]
  BY TokensAfterIs
<1> DEFINE f == Recursive(S, <<>>, n, G)
<1>5. /\ f \in [0 .. n -> S]
      /\ f[0] = <<>>
      /\ \A i \in 1 .. n : f[i] = G[<<f[i - 1], i>>]
  <2> HIDE DEF G, n, S
  <2>1. IsRecursion(f, S, <<>>, n, G)
    BY ONLY <1>1, <1>3, <1>4, Recursion
  <2>2. QED BY <2>1 DEF IsRecursion
<1> HIDE DEF f
<1>6. \A i \in 1 .. n : f[i] = TokensAfter(f[i - 1], t, i)
  <2> TAKE i \in 1 .. n
  <2>1. i - 1 \in 0 .. n /\ f[i - 1] \in S
    BY <1>1, <1>5, SMTT(30)
  <2>2. G[<<f[i - 1], i>>] = TokensAfter(f[i - 1], t, i)
    BY <2>1
  <2>3. QED BY <2>2, <1>5
<1>7. P(f)
  <2>1. \A i \in 0 .. n : f[i] = IF i = 0 THEN <<>> ELSE TokensAfter(f[i - 1], t, i)
    BY <1>5, <1>6, <1>1
  <2>2. f = [i \in 0 .. n |-> f[i]]
    <3> HIDE DEF G, n, S
    <3>1. f \in [0 .. n -> S]
      BY ONLY <1>5, ZenonT(60)
    <3>2. QED BY ONLY <3>1
  <2>3. QED BY <2>1, <2>2, ZenonT(60) DEF TokensAfter
<1>8. P(k)
  BY <1>7
<1>9. k[0] = <<>> /\ \A i \in 1 .. n : k[i] = TokensAfter(k[i - 1], t, i)
  <2> HIDE DEF k
  <2>1. k[0] = <<>>
    <3>1. 0 \in 0 .. Len(t)
      BY <1>1, SMTT(30)
    <3>2. QED BY <3>1, <1>8, Zenon
  <2>2. ASSUME NEW i \in 1 .. n PROVE k[i] = TokensAfter(k[i - 1], t, i)
    <3>1. i \in 0 .. Len(t) /\ i # 0
      BY <1>1
    <3>2. QED BY <3>1, <1>8 DEF TokensAfter
  <2>3. QED BY <2>1, <2>2
<1>10. k[n] = f[n]
  <2> HIDE DEF k, n
  <2>1. \A i \in 1 .. n : k[i - 1] = f[i - 1] => k[i] = f[i]
    BY <1>6, <1>9
  <2>2. k[0] = f[0]
    BY <1>5, <1>9
  <2>3. \A i \in 0 .. n : k[i] = f[i]
    BY ONLY <1>1, <2>1, <2>2, SameRecursion
  <2>4. QED BY <2>3, <1>1
<1>11. IsTokens(f, t)
  BY <1>5, <1>6, SMTT(30) DEF IsTokens
<1>12. QED
  BY <1>2, <1>10, <1>11

\* No token is empty, so that the parser may look at its first character.
LEMMA TokensIs ==
    ASSUME NEW t \in Text
    PROVE  Tokens(t) \in Seq(TokenTexts)
<1>1. PICK f : IsTokens(f, t) /\ Tokens(t) = f[Len(t)]
  BY TokensSteps
<1>2. Len(t) \in 0 .. Len(t)
  BY TextIs
<1>3. QED
  BY <1>1, <1>2, SMTT(30) DEF IsTokens

-----------------------------------------------------------------------------
\* Fields

\* A field ends at the first character that can end it, or with the text.
LEMMA FieldIs ==
    ASSUME NEW t \in Text, NEW ends
    PROVE  \E e \in 1 .. Len(t) + 1 :
              /\ Field(t, ends).is = SubSeq(t, 1, e - 1)
              /\ Field(t, ends).rest = SubSeq(t, e, Len(t))
              /\ \A j \in 1 .. e - 1 : t[j] \notin ends
              /\ e = Len(t) + 1 \/ t[e] \in ends
<1> DEFINE stops == {i \in DOMAIN t : t[i] \in ends}
           e == IF stops = {} THEN Len(t) + 1
                ELSE CHOOSE i \in stops : \A j \in stops : i <= j
<1>1. Len(t) \in Nat /\ DOMAIN t = 1 .. Len(t)
  BY TextIs
<1>2. Field(t, ends) = [is |-> SubSeq(t, 1, e - 1), rest |-> SubSeq(t, e, Len(t))]
  BY DEF Field
<1>3. \A i : i \in stops <=> i \in 1 .. Len(t) /\ t[i] \in ends
  BY <1>1
<1>4. stops \in SUBSET Nat
  BY <1>1
<1> DEFINE Goal(x) == /\ x \in 1 .. Len(t) + 1
                      /\ \A j \in 1 .. x - 1 : t[j] \notin ends
                      /\ x = Len(t) + 1 \/ t[x] \in ends
<1> HIDE DEF stops
<1>5. CASE stops = {}
  <2>1. e = Len(t) + 1
    BY <1>5
  <2> HIDE DEF e
  <2>2. \A j \in 1 .. e - 1 : t[j] \notin ends
    BY <2>1, <1>1, <1>3, <1>5
  <2>3. Goal(e)
    BY <2>1, <2>2, <1>1, SMTT(30)
  <2>4. QED BY <2>3, <1>2, SMTT(30)
<1>6. CASE stops # {}
  <2>1. \E i \in stops : \A j \in stops : i <= j
    BY ONLY <1>4, <1>6, Smallest
  <2>2. e \in stops /\ \A j \in stops : e <= j
    BY <1>6, <2>1
  <2> HIDE DEF e
  <2>3. e \in 1 .. Len(t) /\ t[e] \in ends
    BY <2>2, <1>3
  <2>4. \A j \in 1 .. e - 1 : t[j] \notin ends
    <3> SUFFICES ASSUME NEW j \in 1 .. e - 1, t[j] \in ends PROVE FALSE
      OBVIOUS
    <3>1. j \in 1 .. Len(t) /\ j < e
      BY <2>3, <1>1
    <3>2. j \in stops
      BY <3>1, <1>3
    <3>3. e <= j
      BY <3>2, <2>2
    <3>4. QED BY <3>1, <3>3, <2>3
  <2>5. Goal(e)
    BY <2>3, <2>4, <1>1, SMTT(30)
  <2>6. QED BY <2>5, <1>2, SMTT(30)
<1>7. QED
  BY <1>5, <1>6

\* A field and what follows it are texts.
LEMMA FieldType ==
    ASSUME NEW t \in Text, NEW ends
    PROVE  Field(t, ends).is \in Text /\ Field(t, ends).rest \in Text
<1>1. PICK e \in 1 .. Len(t) + 1 :
         /\ Field(t, ends).is = SubSeq(t, 1, e - 1)
         /\ Field(t, ends).rest = SubSeq(t, e, Len(t))
  BY FieldIs, ZenonT(60)
<1>2. Len(t) \in Nat /\ e - 1 \in 0 .. Len(t) /\ 1 \in 1 .. Len(t) + 1
      /\ Len(t) \in 0 .. Len(t)
  BY TextIs
<1>3. QED
  BY <1>1, <1>2, PartIs

\* The numbers of the listed parameters have one digit or two.
LEMMA DecimalIs ==
    ASSUME NEW i \in DOMAIN ListMap
    PROVE  LET n == Decimal(ListMap[i].key)
           IN  /\ n \in Text
               /\ \/ \E d \in 0 .. 9 : n = <<Figure[d]>> /\ ListMap[i].key = d
                  \/ \E d \in 0 .. 9 : n = <<"1", Figure[d]>> /\ ListMap[i].key = 10 + d
<1> DEFINE k == ListMap[i].key
           n == Decimal(k)
<1>1. k \in {6, 7, 8, 9, 10, 15, 16, 17}
  BY EntryFacts
<1> HIDE DEF k
<1>2. \A d \in 0 .. 9 : Figure[d] \in Characters
  BY DigitIs, CharactersAre
<1>3. CASE k < 10
  <2>1. n = <<Figure[k]>> /\ k \in 0 .. 9
    BY <1>1, <1>3 DEF Decimal
  <2>2. n \in Text
    BY <2>1, <1>2, OneIs
  <2>3. QED BY <2>1, <2>2 DEF k
<1>4. CASE ~(k < 10)
  <2>1. k \div 10 = 1 /\ k % 10 \in 0 .. 9 /\ k = 10 + (k % 10)
    BY <1>1, <1>4
  <2>2. n = <<Figure[k \div 10], Figure[k % 10]>>
    BY <1>4 DEF Decimal
  <2>3. Figure[k \div 10] = "1"
    BY <2>1, FigureIs
  <2>4. n = <<"1", Figure[k % 10]>>
    BY <2>2, <2>3
  <2>5. n \in Text
    <3>1. Figure[k % 10] \in Characters /\ "1" \in Characters
      BY <2>1, <2>3, <1>2
    <3>2. QED BY <2>4, <3>1 DEF Text
  <2>6. QED BY <2>1, <2>4, <2>5 DEF k
<1>5. QED
  BY <1>3, <1>4

-----------------------------------------------------------------------------
\* The commands that the translation makes

\* The command that sets n to v, written with the letter a.
Line(a, n, v) == <<a, ",">> \o n \o <<",">> \o v \o <<"!">>

\* The command to set a parameter that the translation gives.
SetLine(n, v) == Line("S", n, v)

\* The command to read one.
GetLine(n) == <<"G", ",">> \o n \o <<"!">>

\* A text of two characters.
LEMMA PairIs ==
    ASSUME NEW c \in Characters, NEW d \in Characters
    PROVE  /\ <<c, d>> \in Text /\ Len(<<c, d>>) = 2
           /\ <<c, d>>[1] = c /\ <<c, d>>[2] = d
BY DEF Text

\* A command to read is a text that begins with G.
LEMMA GetLineIs ==
    ASSUME NEW n \in Text
    PROVE  GetLine(n) \in Text /\ GetLine(n)[1] = "G" /\ Len(GetLine(n)) = Len(n) + 3
<1> DEFINE g == <<"G", ",">>
           b == <<"!">>
<1>1. g \in Text /\ Len(g) = 2 /\ g[1] = "G" /\ b \in Text /\ Len(b) = 1
  BY CharactersAre, PairIs, OneIs
<1> HIDE DEF g, b
<1>2. Len(n) \in Nat /\ 1 \in 1 .. Len(g)
  BY <1>1, TextIs
<1> DEFINE h == g \o n
<1>3. h \in Text /\ Len(h) = 2 + Len(n) /\ h[1] = "G"
  <2>1. h \in Text /\ Len(h) = Len(g) + Len(n) /\ \A i \in 1 .. Len(g) : h[i] = g[i]
    BY <1>1, ConcatIs
  <2> HIDE DEF h
  <2>2. QED BY <2>1, <1>1, <1>2
<1> HIDE DEF h
<1>4. h \o b \in Text /\ Len(h \o b) = Len(n) + 3
  <2>1. h \o b \in Text /\ Len(h \o b) = Len(h) + Len(b)
    BY <1>1, <1>3, ConcatIs
  <2>2. Len(h) + Len(b) = Len(n) + 3
    BY <1>1, <1>2, <1>3
  <2>3. QED BY <2>1, <2>2
<1>5. 1 \in 1 .. Len(h)
  BY <1>2, <1>3
<1>6. (h \o b)[1] = "G"
  BY <1>1, <1>3, <1>5, ConcatIs
<1>7. QED
  BY <1>4, <1>6 DEF GetLine, h, g, b

\* Without its terminator, the parser cuts what is behind the second comma.
IsSet(w, a, n, v) ==
    /\ w \in Text /\ Len(w) = Len(n) + Len(v) + 3
    /\ w[1] = a /\ w[2] = ","
    /\ \A i \in 1 .. Len(n) : w[2 + i] = n[i]
    /\ w[Len(n) + 3] = ","
    /\ \A i \in 1 .. Len(v) : w[(Len(n) + 3) + i] = v[i]

\* A command to set is a text that ends with the terminator.
LEMMA LineIs ==
    ASSUME NEW a \in Characters, NEW n \in Text, NEW v \in Text
    PROVE  /\ Line(a, n, v) \in Text /\ Line(a, n, v) # <<>>
           /\ Line(a, n, v)[Len(Line(a, n, v))] = "!"
           /\ IsSet(Front(Line(a, n, v)), a, n, v)
<1> DEFINE g == <<a, ",">>
           c == <<",">>
           b == <<"!">>
           p == g \o n
           q == p \o c
           w == q \o v
           y == w \o b
<1>1. /\ g \in Text /\ Len(g) = 2 /\ g[1] = a /\ g[2] = ","
      /\ b \in Text /\ Len(b) = 1 /\ b[1] = "!"
      /\ c \in Text /\ Len(c) = 1 /\ c[1] = ","
  BY CharactersAre, PairIs, OneIs
<1> HIDE DEF g, b, c
<1>2. Len(n) \in Nat /\ Len(v) \in Nat
  BY TextIs
<1>3. /\ p \in Text /\ Len(p) = 2 + Len(n)
      /\ \A i \in 1 .. 2 : p[i] = g[i]
      /\ \A i \in 1 .. Len(n) : p[2 + i] = n[i]
  <2>1. /\ p \in Text /\ Len(p) = Len(g) + Len(n)
        /\ \A i \in 1 .. Len(g) : p[i] = g[i]
        /\ \A i \in 1 .. Len(n) : p[Len(g) + i] = n[i]
    BY <1>1, ConcatIs, ZenonT(60)
  <2> HIDE DEF p
  <2>2. QED BY <2>1, <1>1
<1> HIDE DEF p
<1>4. /\ q \in Text /\ Len(q) = Len(n) + 3
      /\ \A i \in 1 .. Len(n) + 2 : q[i] = p[i]
      /\ q[Len(n) + 3] = ","
  <2>1. /\ q \in Text /\ Len(q) = Len(p) + Len(c)
        /\ \A i \in 1 .. Len(p) : q[i] = p[i]
        /\ \A i \in 1 .. Len(c) : q[Len(p) + i] = c[i]
    BY <1>1, <1>3, ConcatIs, ZenonT(60)
  <2>2. 1 \in 1 .. Len(c) /\ Len(p) + 1 = Len(n) + 3 /\ Len(p) = Len(n) + 2
    <3>1. Len(c) = 1
      BY <1>1
    <3>2. Len(p) = 2 + Len(n)
      BY <1>3
    <3> HIDE DEF q
    <3>3. QED BY ONLY <3>1, <3>2, <1>2
  <2> HIDE DEF q
  <2>3. q[Len(n) + 3] = c[1]
    BY <2>1, <2>2
  <2>4. QED BY <2>1, <2>2, <2>3, <1>1, <1>2
<1> HIDE DEF q
<1>5. /\ w \in Text /\ Len(w) = (Len(n) + 3) + Len(v)
      /\ \A i \in 1 .. Len(n) + 3 : w[i] = q[i]
      /\ \A i \in 1 .. Len(v) : w[(Len(n) + 3) + i] = v[i]
  <2>1. /\ w \in Text /\ Len(w) = Len(q) + Len(v)
        /\ \A i \in 1 .. Len(q) : w[i] = q[i]
        /\ \A i \in 1 .. Len(v) : w[Len(q) + i] = v[i]
    BY <1>4, ConcatIs
  <2> HIDE DEF w
  <2>2. QED BY <2>1, <1>4
<1> HIDE DEF w
<1>6. Len(w) \in Nat
  BY <1>2, <1>5
<1>7. /\ y \in Text /\ Len(y) = Len(w) + 1
      /\ \A i \in 1 .. Len(w) : y[i] = w[i]
      /\ y[Len(w) + 1] = "!"
  <2>1. /\ y \in Text /\ Len(y) = Len(w) + Len(b)
        /\ \A i \in 1 .. Len(w) : y[i] = w[i]
        /\ \A i \in 1 .. Len(b) : y[Len(w) + i] = b[i]
    BY <1>1, <1>5, ConcatIs, ZenonT(60)
  <2>2. 1 \in 1 .. Len(b) /\ Len(b) = 1
    <3>1. Len(b) = 1
      BY <1>1
    <3>2. QED BY <3>1
  <2> HIDE DEF y
  <2>3. y[Len(w) + 1] = b[1]
    BY <2>1, <2>2
  <2>4. QED BY <2>1, <2>2, <2>3, <1>1
<1> HIDE DEF y
<1>8. Front(y) = w
  <2>1. Front(y) = SubSeq(y, 1, Len(w))
    BY <1>6, <1>7 DEF Front
  <2>2. 1 \in 1 .. Len(y) + 1 /\ Len(w) \in 0 .. Len(y)
    BY <1>6, <1>7
  <2>3. /\ SubSeq(y, 1, Len(w)) \in Text
        /\ Len(SubSeq(y, 1, Len(w))) = IF 1 <= Len(w) THEN Len(w) - 1 + 1 ELSE 0
        /\ \A i \in 1 .. Len(w) - 1 + 1 : SubSeq(y, 1, Len(w))[i] = y[1 + i - 1]
    BY <1>7, <2>2, PartIs
  <2>4. Len(SubSeq(y, 1, Len(w))) = Len(w)
    BY <2>3, <1>6
  <2>5. \A i \in 1 .. Len(w) : SubSeq(y, 1, Len(w))[i] = w[i]
    <3> TAKE i \in 1 .. Len(w)
    <3>1. i \in 1 .. Len(w) - 1 + 1 /\ 1 + i - 1 = i
      BY <1>6
    <3>2. QED BY <3>1, <2>3, <1>7
  <2>6. QED BY <2>1, <2>3, <2>4, <2>5, <1>5, SameText
<1>9. y # <<>>
  BY <1>6, <1>7, TextIs
<1>10. IsSet(w, a, n, v)
  <2>1. /\ w[1] = q[1] /\ w[2] = q[2] /\ q[1] = p[1] /\ q[2] = p[2]
        /\ p[1] = a /\ p[2] = ","
    <3>1. /\ 1 \in 1 .. 2 /\ 2 \in 1 .. 2
          /\ 1 \in 1 .. Len(n) + 2 /\ 2 \in 1 .. Len(n) + 2
          /\ 1 \in 1 .. Len(n) + 3 /\ 2 \in 1 .. Len(n) + 3
      BY ONLY <1>2
    <3>2. w[1] = q[1] /\ w[2] = q[2]
      BY ONLY <3>1, <1>5
    <3>3. q[1] = p[1] /\ q[2] = p[2]
      BY ONLY <3>1, <1>4
    <3>4. p[1] = g[1] /\ p[2] = g[2]
      BY ONLY <3>1, <1>3
    <3>5. QED BY <3>2, <3>3, <3>4, <1>1
  <2>2. \A i \in 1 .. Len(n) : w[2 + i] = n[i]
    <3> TAKE i \in 1 .. Len(n)
    <3>1. 2 + i \in 1 .. Len(n) + 3 /\ 2 + i \in 1 .. Len(n) + 2
      BY <1>2
    <3>2. QED BY <3>1, <1>3, <1>4, <1>5
  <2>3. w[Len(n) + 3] = ","
    <3>1. Len(n) + 3 \in 1 .. Len(n) + 3
      BY ONLY <1>2
    <3>2. w[Len(n) + 3] = q[Len(n) + 3]
      BY ONLY <3>1, <1>5
    <3>3. QED BY <3>2, <1>4
  <2>4. Len(w) = Len(n) + Len(v) + 3
    BY <1>2, <1>5
  <2>5. QED BY <2>1, <2>2, <2>3, <2>4, <1>5 DEF IsSet
<1>11. Line(a, n, v) = y
  BY DEF Line, y, w, q, p, g, c, b
<1>12. QED
  BY <1>7, <1>8, <1>9, <1>10, <1>11

\* The same of the one the translation gives.
LEMMA SetLineIs ==
    ASSUME NEW n \in Text, NEW v \in Text
    PROVE  /\ SetLine(n, v) \in Text /\ SetLine(n, v) # <<>>
           /\ SetLine(n, v)[Len(SetLine(n, v))] = "!"
           /\ IsSet(Front(SetLine(n, v)), "S", n, v)
BY LineIs, CharactersAre DEF SetLine

\* sms_translate_param_command passes on what does not address a parameter,
\* rejects a text, or names a listed parameter for the parser.
LEMMA TranslateCases ==
    ASSUME NEW t \in Text
    PROVE  \/ ~Addressed(t) /\ Translate(t) = t
           \/ Translate(t) = <<>>
           \/ \E i \in DOMAIN ListMap, e \in 2 .. Len(t) - 1 :
                 /\ SubSeq(t, 3, e) # <<>> /\ i \in Entries(SubSeq(t, 3, e))
                 /\ \/ Translate(t) = GetLine(Decimal(ListMap[i].key))
                    \/ \E v \in Text :
                          /\ t[e + 1] = "," /\ v # <<>>
                          /\ Translate(t) = SetLine(Decimal(ListMap[i].key), v)
<1> DEFINE u == SubSeq(t, 3, Len(t))
           key == Field(u, {",", "!"})
           value == Field(Tail(key.rest), {"!"})
           i == CHOOSE j \in Entries(key.is) : TRUE
           number == Decimal(ListMap[i].key)
<1>1. Translate(t) =
        IF ~Addressed(t) THEN t
        ELSE IF key.is = <<>> \/ Size(key.is) >= MaxKey \/ Entries(key.is) = {}
                  \/ key.rest = <<>>
          THEN Rejected
        ELSE IF t[1] \in {"G", "g"}
          THEN IF key.rest = <<"!">> THEN GetLine(number) ELSE Rejected
        ELSE IF key.rest[1] = "," /\ value.is # <<>> /\ value.rest = <<"!">>
          THEN SetLine(number, value.is)
          ELSE Rejected
  BY DEF Translate, GetLine, SetLine, Line
<1>2. SUFFICES ASSUME Addressed(t), key.is # <<>>, Entries(key.is) # {},
                      key.rest # <<>>,
                      \/ Translate(t) = GetLine(number)
                      \/ /\ key.rest[1] = "," /\ value.is # <<>>
                         /\ Translate(t) = SetLine(number, value.is)
               PROVE  \E j \in DOMAIN ListMap, e \in 2 .. Len(t) - 1 :
                         /\ SubSeq(t, 3, e) # <<>> /\ j \in Entries(SubSeq(t, 3, e))
                         /\ \/ Translate(t) = GetLine(Decimal(ListMap[j].key))
                            \/ \E v \in Text :
                                  /\ t[e + 1] = "," /\ v # <<>>
                                  /\ Translate(t) = SetLine(Decimal(ListMap[j].key), v)
  <2> HIDE DEF u, key, value, i, number
  <2>1. QED BY <1>1, ZenonT(60) DEF Rejected
<1>3. i \in Entries(key.is) /\ i \in DOMAIN ListMap
  BY <1>2 DEF Entries
<1>4. Len(t) \in Nat /\ Len(t) >= 2
  BY <1>2, TextIs DEF Addressed
<1>5. /\ u \in Text /\ Len(u) = Len(t) - 2
      /\ \A j \in 1 .. Len(u) : u[j] = t[j + 2]
  <2>1. 3 \in 1 .. Len(t) + 1 /\ Len(t) \in 0 .. Len(t)
    BY <1>4
  <2>2. /\ u \in Text
        /\ Len(u) = IF 3 <= Len(t) THEN Len(t) - 3 + 1 ELSE 0
        /\ \A j \in 1 .. Len(t) - 3 + 1 : u[j] = t[3 + j - 1]
    BY <2>1, PartIs
  <2> HIDE DEF u
  <2>3. Len(u) = Len(t) - 2
    <3>1. Len(u) = IF 3 <= Len(t) THEN Len(t) - 3 + 1 ELSE 0
      BY <2>2
    <3> DEFINE n == Len(t)
    <3>2. Len(u) = (IF 3 <= n THEN n - 3 + 1 ELSE 0) /\ n \in Nat /\ n >= 2
      BY <3>1, <1>4
    <3> HIDE DEF n
    <3>3. Len(u) = n - 2
      BY ONLY <3>2
    <3>4. QED BY <3>3 DEF n
  <2>4. ASSUME NEW j \in 1 .. Len(u) PROVE u[j] = t[j + 2]
    <3>1. j \in 1 .. Len(t) - 3 + 1 /\ 3 + j - 1 = j + 2
      BY <2>3, <1>4
    <3>2. QED BY <3>1, <2>2
  <2>5. QED BY <2>2, <2>3, <2>4
<1> HIDE DEF u, i
<1>6. PICK d \in 1 .. Len(u) + 1 : /\ key.is = SubSeq(u, 1, d - 1)
                                   /\ key.rest = SubSeq(u, d, Len(u))
  <2>1. u \in Text
    BY <1>5
  <2>2. \E d \in 1 .. Len(u) + 1 :
           /\ key.is = SubSeq(u, 1, d - 1)
           /\ key.rest = SubSeq(u, d, Len(u))
           /\ \A j \in 1 .. d - 1 : u[j] \notin {",", "!"}
           /\ d = Len(u) + 1 \/ u[d] \in {",", "!"}
    BY <2>1, FieldIs
  <2>3. QED BY <2>2
<1>7. key.rest \in Text /\ value.is \in Text
  BY <1>2, <1>5, FieldType, TailIs
<1>8. Len(u) \in Nat
  BY <1>4, <1>5
<1> HIDE DEF key, value
<1>9. d \in 1 .. Len(u) /\ key.rest[1] = u[d]
  <2>1. d \in 1 .. Len(u) + 1 /\ Len(u) \in 0 .. Len(u)
    BY <1>8
  <2>2. /\ Len(key.rest) = IF d <= Len(u) THEN Len(u) - d + 1 ELSE 0
        /\ \A j \in 1 .. Len(u) - d + 1 : key.rest[j] = u[d + j - 1]
    BY <2>1, <1>5, <1>6, PartIs
  <2>3. Len(key.rest) > 0
    BY <1>2, <1>7, TextIs
  <2>4. d <= Len(u)
    BY <2>1, <2>2, <2>3, <1>8
  <2>5. 1 \in 1 .. Len(u) - d + 1 /\ d + 1 - 1 = d
    BY <2>4, <1>8
  <2>6. QED BY <2>2, <2>4, <2>5, <1>8
<1>10. key.is = SubSeq(t, 3, d + 1)
  <2> DEFINE a == SubSeq(u, 1, d - 1)
             b == SubSeq(t, 3, d + 1)
  <2>1. /\ a \in Text /\ Len(a) = IF 1 <= d - 1 THEN d - 1 - 1 + 1 ELSE 0
        /\ \A j \in 1 .. d - 1 - 1 + 1 : a[j] = u[1 + j - 1]
    <3>1. 1 \in 1 .. Len(u) + 1 /\ d - 1 \in 0 .. Len(u)
      BY <1>8, <1>9
    <3>2. QED BY <3>1, <1>5, PartIs
  <2>2. /\ b \in Text /\ Len(b) = IF 3 <= d + 1 THEN d + 1 - 3 + 1 ELSE 0
        /\ \A j \in 1 .. d + 1 - 3 + 1 : b[j] = t[3 + j - 1]
    <3>1. 3 \in 1 .. Len(t) + 1 /\ d + 1 \in 0 .. Len(t)
      BY <1>4, <1>5, <1>9
    <3>2. QED BY <3>1, PartIs
  <2> HIDE DEF a, b
  <2>3. Len(a) = d - 1 /\ Len(b) = d - 1
    BY <2>1, <2>2, <1>8, <1>9
  <2>4. ASSUME NEW j \in 1 .. Len(a) PROVE a[j] = b[j]
    <3>1. /\ j \in 1 .. d - 1 - 1 + 1 /\ 1 + j - 1 = j
          /\ j \in 1 .. d + 1 - 3 + 1 /\ 3 + j - 1 = j + 2
          /\ j \in 1 .. Len(u)
      BY <2>3, <1>8, <1>9
    <3>2. a[j] = u[j] /\ b[j] = t[j + 2]
      BY ONLY <3>1, <2>1, <2>2
    <3>3. QED BY <3>1, <3>2, <1>5
  <2>5. a = b
    BY <2>1, <2>2, <2>3, <2>4, SameText
  <2>6. QED BY <2>5, <1>6 DEF a, b
<1> DEFINE e == d + 1
<1>11. e \in 2 .. Len(t) - 1 /\ t[e + 1] = key.rest[1]
  <2>1. d \in Int /\ d >= 1 /\ d <= Len(t) - 2
    BY <1>4, <1>5, <1>9
  <2>2. e \in 2 .. Len(t) - 1 /\ e + 1 = d + 2
    BY ONLY <2>1, <1>4
  <2>3. QED BY <2>2, <1>5, <1>9
<1> HIDE DEF e
<1>12. SubSeq(t, 3, e) = key.is
  BY <1>10 DEF e
<1>13. QED
  BY <1>2, <1>3, <1>7, <1>11, <1>12

\* The translation gives a text.
LEMMA TranslateType ==
    ASSUME NEW t \in Text
    PROVE  Translate(t) \in Text
<1>1. CASE ~Addressed(t) /\ Translate(t) = t
  BY <1>1
<1>2. CASE Translate(t) = <<>>
  BY <1>2, TextIs
<1>3. ASSUME NEW i \in DOMAIN ListMap,
             \/ Translate(t) = GetLine(Decimal(ListMap[i].key))
             \/ \E v \in Text : Translate(t) = SetLine(Decimal(ListMap[i].key), v)
      PROVE  Translate(t) \in Text
  <2>1. Decimal(ListMap[i].key) \in Text
    BY DecimalIs
  <2>2. QED BY <1>3, <2>1, GetLineIs, SetLineIs
<1>4. QED
  BY <1>1, <1>2, <1>3, TranslateCases

-----------------------------------------------------------------------------
\* Type correctness

\* The parameters by their numbers.
LEMMA KeysAre ==
    /\ Keys = 0 .. 17
    /\ StringKeys = {0, 1, 2, 15, 16, 17}
    /\ PhoneKeys = {15, 16, 17}
<1>1. DOMAIN ParamName = 0 .. 17
  BY DEF ParamName
<1>2. \A k : k \in 0 .. 2 <=> k \in {0, 1, 2}
  OBVIOUS
<1>3. \A k : k \in 15 .. 17 <=> k \in {15, 16, 17}
  OBVIOUS
<1>4. QED
  BY <1>1, <1>2, <1>3 DEF Keys, StringKeys, PhoneKeys

\* The conversions give numbers of their width.
LEMMA SignedIs ==
    ASSUME NEW n \in Int
    PROVE  /\ Signed(n, 2^8) \in -(2^7) .. 2^7 - 1
           /\ Signed(n, 2^16) \in -(2^15) .. 2^15 - 1
<1>1. Signed(n, 2^8) \in -(2^7) .. 2^7 - 1
  BY SMT DEF Signed
<1>2. Signed(n, 2^16) \in -(2^15) .. 2^15 - 1
  BY SMT DEF Signed
<1>3. QED
  BY ONLY <1>1, <1>2, Zenon

\* The values of 8 bits.
s8 == -(2^7) .. 2^7 - 1

\* The values of 16 bits.
s16 == -(2^15) .. 2^15 - 1

\* What a parameter of each type holds.
ValuesOf(k) ==
    IF k \in StringKeys THEN Text ELSE IF k = 3 THEN s16 ELSE s8

\* Each parameter has a value of its type.
TableOK == DOMAIN table = Keys /\ \A k \in Keys : table[k] \in ValuesOf(k)

\* The message is of texts, also when there is none.
MessageOK == message.from \in Text /\ message.text \in Text

\* The inductive invariant.
TypeInv == TableOK /\ MessageOK

\* The defaults are of their type.
LEMMA DefaultIs ==
    ASSUME NEW k \in Keys
    PROVE  Default(k) \in ValuesOf(k)
<1>1. Owner \in Text /\ <<>> \in Text
  BY SmsCommandAssumption, TextIs
<1>2. 0 \in s8 /\ 0 \in s16
  BY SMT DEF s8, s16
<1>3. PhoneKeys \subseteq StringKeys
  BY KeysAre
<1>4. QED
  BY <1>1, <1>2, <1>3, Zenon DEF Default, ValuesOf

\* What cmd_set_parameter passes on is of the type, for any text.
LEMMA ValueForIs ==
    ASSUME NEW k \in Keys, NEW t \in Text
    PROVE  ValueFor(k, t) \in ValuesOf(k)
<1>1. Signed(Atoi(t), 2^8) \in s8 /\ Signed(Atoi(t), 2^16) \in s16
  <2>1. Atoi(t) \in Int
    BY AtoiIs
  <2> DEFINE a == Atoi(t)
  <2> HIDE DEF a
  <2>2. a \in Int
    BY <2>1 DEF a
  <2>3. Signed(a, 2^8) \in s8 /\ Signed(a, 2^16) \in s16
    BY ONLY <2>2, SignedIs, Zenon DEF s8, s16
  <2>4. QED BY ONLY <2>3, Zenon DEF a
<1>2. QED
  BY <1>1, Zenon DEF ValueFor, ValuesOf

\* A text without its terminator.
LEMMA FrontIs ==
    ASSUME NEW t \in Text, t # <<>>
    PROVE  Front(t) \in Text
<1>1. 1 \in 1 .. Len(t) + 1 /\ Len(t) - 1 \in 0 .. Len(t)
  BY TextIs
<1>2. QED
  BY <1>1, PartIs DEF Front

\* A command leaves values of their type.
LEMMA ProcessType ==
    ASSUME TableOK, NEW t \in Text, Process(t)
    PROVE  TableOK'
<1> DEFINE command == IF t # <<>> /\ t[Len(t)] = "!" THEN Front(t) ELSE t
           tokens == Tokens(command)
<1>1. command \in Text
  BY FrontIs
<1>2. tokens \in Seq(TokenTexts)
  BY <1>1, TokensIs
<1> HIDE DEF command
<1>3. CASE UNCHANGED table
  BY <1>3 DEF TableOK
<1>4. CASE /\ Len(tokens) >= 3
           /\ table' = [k \in Keys |-> IF k \in KeyOf(tokens[2])
                                         THEN ValueFor(k, tokens[3])
                                         ELSE table[k]]
  <2>1. tokens[3] \in Text
    BY <1>2, <1>4, ElementOfSeq DEF TokenTexts
  <2> HIDE DEF tokens
  <2>2. \A k \in Keys : table'[k] \in ValuesOf(k)
    BY <1>4, <2>1, ValueForIs DEF TableOK
  <2>3. QED BY <1>4, <2>2 DEF TableOK
<1>5. QED
  BY <1>3, <1>4 DEF Process, command, tokens

\* A text with its terminator.
LEMMA TerminatedIs ==
    ASSUME NEW t \in Text
    PROVE  /\ Terminated(t) \in Text
           /\ Terminated(t) = t \/ Terminated(t) = Append(t, "!")
BY AppendIs, CharactersAre DEF Terminated

\* No message is of texts as well.
LEMMA NothingIs ==
    Nothing.from \in Text /\ Nothing.text \in Text
<1>1. Nothing.from = <<>> /\ Nothing.text = <<>>
  BY DEF Nothing
<1>2. <<>> \in Text
  BY CountryCodeIs, TextIs
<1>3. QED
  BY <1>1, <1>2, Zenon

\* Every step keeps the invariant.
LEMMA TypeStep ==
    ASSUME TypeInv, [Next]_vars
    PROVE  TypeInv'
<1>1. TableOK /\ MessageOK
  BY DEF TypeInv
<1>2. CASE UNCHANGED vars
  BY <1>1, <1>2 DEF vars, TypeInv, TableOK, MessageOK
<1>3. ASSUME NEW from \in Numbers, NEW text \in Messages, ReadSms(from, text)
      PROVE  TypeInv'
  <2>1. from \in Text /\ text \in Text
    BY SmsCommandAssumption
  <2>2. table' = table /\ message' = [from |-> from, text |-> text]
    BY <1>3 DEF ReadSms
  <2>3. QED BY <1>1, <2>1, <2>2 DEF TypeInv, TableOK, MessageOK
<1>4. ASSUME HandleSms PROVE TypeInv'
  <2> DEFINE command == Translate(Terminated(Trimmed(message.text)))
  <2>1. command \in Text
    BY <1>1, TrimmedIs, TerminatedIs, TranslateType DEF MessageOK
  <2> HIDE DEF command
  <2>2. UNCHANGED table \/ Process(command)
    BY <1>4 DEF HandleSms, command
  <2>3. UNCHANGED table => TableOK'
    BY <1>1 DEF TableOK
  <2>4. TableOK'
    BY <1>1, <2>1, <2>2, <2>3, ProcessType
  <2>5. message' = Nothing
    BY <1>4 DEF HandleSms
  <2>6. MessageOK'
    BY <2>5, NothingIs, Zenon DEF MessageOK
  <2>7. QED BY <2>4, <2>6 DEF TypeInv
<1>5. ASSUME NEW line \in Lines, Serial(line) PROVE TypeInv'
  <2>1. line \in Text
    BY SmsCommandAssumption
  <2>2. TableOK'
    BY <1>1, <1>5, <2>1, ProcessType DEF Serial
  <2>3. MessageOK'
    BY <1>1, <1>5 DEF Serial, MessageOK
  <2>4. QED BY <2>2, <2>3 DEF TypeInv
<1>6. QED
  BY <1>2, <1>3, <1>4, <1>5 DEF Next

\* The invariant holds of every behaviour.
LEMMA TypeInvariant == Spec => []TypeInv
<1>1. Init => TypeInv
  <2> SUFFICES ASSUME Init PROVE TypeInv
    OBVIOUS
  <2>1. MessageOK
    BY NothingIs, Zenon DEF Init, MessageOK
  <2>2. table = [k \in Keys |-> Default(k)]
    BY DEF Init
  <2>3. TableOK
    BY <2>2, DefaultIs DEF TableOK
  <2>4. QED BY <2>1, <2>3 DEF TypeInv
<1>2. QED
  BY <1>1, TypeStep, PTL DEF Spec

\* Every parameter keeps a value of its type: a number is cut to the width of the
\* parameter on the way (cmd_set_parameter), whatever is sent.
THEOREM TypeCorrect == Spec => []TypeOK
<1>1. TypeInv => TypeOK
  <2> SUFFICES ASSUME TypeInv PROVE TypeOK
    OBVIOUS
  <2>1. 3 \in Keys /\ 3 \notin StringKeys /\ StringKeys \subseteq Keys
    BY KeysAre
  <2>2. \A k \in Keys : table[k] \in ValuesOf(k)
    BY DEF TypeInv, TableOK
  <2>3. \A k \in StringKeys : table[k] \in Text
    BY <2>1, <2>2, Zenon DEF ValuesOf
  <2>4. table[3] \in s16
    BY <2>1, <2>2, Zenon DEF ValuesOf
  <2>5. \A k \in Keys \ (StringKeys \cup {3}) : table[k] \in s8
    BY <2>2, Zenon DEF ValuesOf
  <2>6. QED
    BY <2>3, <2>4, <2>5, Zenon DEF TypeInv, TypeOK, TableOK, MessageOK, s8, s16
<1>2. QED
  BY <1>1, TypeInvariant, PTL

-----------------------------------------------------------------------------
\* A parameter changes by a message only if its sender is one of the numbers
\* stored then (sms_is_authorized_sender): two numbers that share one of the
\* forms of sms_build_candidates are the same subscriber's, in whatever form
\* they are written, and whichever lengths the buffers have.
THEOREM OwnersCommand == Spec => OnlyOwnersCommand
<1>1. ASSUME TypeInv, [Next]_vars, Handled, table' # table
      PROVE  IsOwner(message.from)
  <2>1. message # Nothing /\ message' = Nothing
    BY <1>1 DEF Handled
  <2>2. HandleSms
    <3>1. ~(UNCHANGED vars)
      BY <1>1 DEF vars
    <3>2. ASSUME NEW from \in Numbers, NEW text \in Messages, ReadSms(from, text)
          PROVE  FALSE
      BY <2>1, <3>2 DEF ReadSms
    <3>3. ASSUME NEW line \in Lines, Serial(line) PROVE FALSE
      BY <2>1, <3>3 DEF Serial
    <3>4. QED BY <1>1, <3>1, <3>2, <3>3 DEF Next
  <2>3. Authorized(message.from)
    BY <1>1, <2>2 DEF HandleSms
  <2>4. PICK k \in PhoneKeys : Candidates(message.from) \cap Candidates(table[k]) # {}
    BY <2>3 DEF Authorized
  <2>5. message.from \in Text /\ table[k] \in Text
    <3>1. k \in Keys /\ k \in StringKeys
      BY KeysAre
    <3>2. table[k] \in ValuesOf(k) /\ message.from \in Text
      BY <3>1, <1>1, Zenon DEF TypeInv, TableOK, MessageOK
    <3>3. QED BY <3>1, <3>2, Zenon DEF ValuesOf
  <2>6. SameSubscriber(message.from, table[k])
    BY <2>4, <2>5, CandidatesShare
  <2>7. QED BY <2>6 DEF IsOwner
<1>2. TypeInv /\ [Next]_vars => [Handled /\ table' # table => IsOwner(message.from)]_vars
  BY <1>1
<1>3. QED
  BY <1>2, TypeInvariant, PTL DEF Spec, OnlyOwnersCommand

-----------------------------------------------------------------------------
\* What the parser finds in a command of the translation

\* The beginning of a text grows by its next character.
LEMMA PrefixGrows ==
    ASSUME NEW v \in Text, NEW j \in Nat, j + 1 <= Len(v)
    PROVE  /\ SubSeq(v, 1, j) \in Text /\ v[j + 1] \in Characters
           /\ SubSeq(v, 1, j + 1) = Append(SubSeq(v, 1, j), v[j + 1])
           /\ SubSeq(v, 1, 1) = <<v[1]>>
<1> DEFINE a == SubSeq(v, 1, j)
           b == SubSeq(v, 1, j + 1)
           n == Len(v)
<1>1. n \in Nat /\ \A i \in 1 .. n : v[i] \in Characters
  BY TextIs
<1>2. j + 1 <= n
  OBVIOUS
<1> HIDE DEF n
<1>3. 1 \in 1 .. n + 1 /\ j \in 0 .. n /\ j + 1 \in 0 .. n /\ j + 1 \in 1 .. n
      /\ 1 \in 0 .. n /\ 1 \in 1 .. n
  BY <1>1, <1>2
<1>4. /\ a \in Text /\ Len(a) = (IF 1 <= j THEN j - 1 + 1 ELSE 0)
      /\ \A i \in 1 .. j - 1 + 1 : a[i] = v[1 + i - 1]
  BY <1>3, PartIs DEF n
<1>5. /\ b \in Text /\ Len(b) = (IF 1 <= j + 1 THEN j + 1 - 1 + 1 ELSE 0)
      /\ \A i \in 1 .. j + 1 - 1 + 1 : b[i] = v[1 + i - 1]
  BY <1>3, PartIs DEF n
<1> HIDE DEF a, b
<1>6. Len(a) = j /\ Len(b) = j + 1
  BY <1>4, <1>5
<1>7. \A i \in 1 .. j : a[i] = v[i]
  <2> TAKE i \in 1 .. j
  <2>1. i \in 1 .. j - 1 + 1 /\ 1 + i - 1 = i
    OBVIOUS
  <2>2. QED BY <2>1, <1>4
<1>8. \A i \in 1 .. j + 1 : b[i] = v[i]
  <2> TAKE i \in 1 .. j + 1
  <2>1. i \in 1 .. j + 1 - 1 + 1 /\ 1 + i - 1 = i
    OBVIOUS
  <2>2. QED BY <2>1, <1>5
<1> DEFINE c == Append(a, v[j + 1])
<1>9. v[j + 1] \in Characters
  BY <1>1, <1>3
<1>10. /\ c \in Text /\ Len(c) = Len(a) + 1
       /\ \A i \in 1 .. Len(a) : c[i] = a[i]
       /\ c[Len(a) + 1] = v[j + 1]
  BY <1>4, <1>9, AppendIs
<1> HIDE DEF c
<1>11. Len(b) = Len(c) /\ \A i \in 1 .. Len(b) : b[i] = c[i]
  <2>1. Len(b) = Len(c)
    BY <1>6, <1>10
  <2>2. ASSUME NEW i \in 1 .. j + 1 PROVE b[i] = c[i]
    <3>1. CASE i \in 1 .. j
      BY <3>1, <1>6, <1>7, <1>8, <1>10
    <3>2. CASE i = j + 1
      BY <3>2, <1>6, <1>8, <1>10
    <3>3. QED BY <3>1, <3>2
  <2>3. QED BY <2>1, <2>2, <1>6
<1>12. b = c
  BY <1>5, <1>10, <1>11, SameText
<1>13. SubSeq(v, 1, 1) = <<v[1]>>
  <2> DEFINE d == SubSeq(v, 1, 1)
  <2>1. /\ d \in Text /\ Len(d) = (IF 1 <= 1 THEN 1 - 1 + 1 ELSE 0)
        /\ \A i \in 1 .. 1 - 1 + 1 : d[i] = v[1 + i - 1]
    BY <1>3, PartIs DEF n
  <2> HIDE DEF d
  <2>2. Len(d) = 1 /\ d[1] = v[1]
    BY <2>1
  <2>3. <<v[1]>> \in Text /\ Len(<<v[1]>>) = 1 /\ <<v[1]>>[1] = v[1]
    BY <1>1, <1>3, OneIs
  <2> DEFINE o == <<v[1]>>
  <2> HIDE DEF o
  <2>4. o \in Text /\ Len(o) = 1 /\ o[1] = v[1]
    BY <2>3 DEF o
  <2>5. \A i \in 1 .. Len(d) : d[i] = o[i]
    BY <2>2, <2>4
  <2>6. d = o
    BY <2>1, <2>2, <2>4, <2>5, SameText
  <2>7. QED BY <2>6 DEF d, o
<1>14. QED
  BY <1>4, <1>9, <1>12, <1>13 DEF a, b, c

\* The last token grows by a character.
LEMMA ExtendLast ==
    ASSUME NEW T \in Seq(TokenTexts), NEW s \in TokenTexts, NEW c \in Characters
    PROVE  [Append(T, s) EXCEPT ![Len(Append(T, s))] = Append(@, c)]
             = Append(T, Append(s, c))
<1> DEFINE a == Append(T, s)
           m == Len(T)
           r == Append(s, c)
           b == Append(T, r)
<1>1. r \in TokenTexts
  <2>1. s \in Text
    BY DEF TokenTexts
  <2>2. r \in Text /\ Len(r) = Len(s) + 1 /\ Len(s) \in Nat
    BY <2>1, AppendIs, TextIs
  <2> HIDE DEF r
  <2>3. Len(r) # 0
    BY <2>2
  <2>4. QED BY <2>2, <2>3, TextIs DEF TokenTexts
<1>2. m \in Nat
  BY LenProperties
<1> HIDE DEF r
<1>3. /\ a \in Seq(TokenTexts) /\ Len(a) = m + 1
      /\ \A i \in 1 .. m : a[i] = T[i]
      /\ a[m + 1] = s
  BY AppendProperties
<1>4. /\ b \in Seq(TokenTexts) /\ Len(b) = m + 1
      /\ \A i \in 1 .. m : b[i] = T[i]
      /\ b[m + 1] = r
  BY <1>1, AppendProperties
<1> HIDE DEF a, b, m
<1> DEFINE k == m + 1
           e == [a EXCEPT ![k] = r]
<1>5. k \in 1 .. Len(a)
  BY <1>2, <1>3
<1>6. /\ e \in Seq(TokenTexts) /\ Len(e) = Len(a)
      /\ \A j \in 1 .. Len(a) : e[j] = IF j = k THEN r ELSE a[j]
  <2> HIDE DEF k
  <2>1. QED BY <1>1, <1>3, <1>5, ExceptSeq
<1> HIDE DEF e
<1>7. \A j \in 1 .. Len(e) : e[j] = b[j]
  <2> TAKE j \in 1 .. Len(e)
  <2>1. j \in 1 .. m + 1 /\ j \in 1 .. Len(a)
    BY <1>3, <1>6
  <2>2. CASE j = k
    BY <2>1, <2>2, <1>4, <1>6
  <2>3. CASE j \in 1 .. m
    <3>1. j # k
      BY <2>3, <1>2
    <3>2. QED BY <2>1, <2>3, <3>1, <1>3, <1>4, <1>6
  <2>4. QED BY <2>1, <2>2, <2>3, <1>2
<1>8. e = b
  <2>1. Len(e) = Len(b)
    BY <1>3, <1>4, <1>6
  <2>2. QED BY <1>4, <1>6, <1>7, <2>1, SeqEqual
<1>9. a[k] = s /\ Len(a) = k
  BY <1>3
<1>10. [a EXCEPT ![Len(a)] = Append(@, c)] = e
  BY <1>9 DEF e, r
<1>11. QED
  BY <1>8, <1>10 DEF a, b, r

\* The character that ends a token.
Comma(c) == c = ","

\* The three cases of one more character.
LEMMA TokensAfterCases ==
    ASSUME NEW t, NEW i, NEW found
    PROVE  /\ Comma(t[i]) => TokensAfter(found, t, i) = found
           /\ ~Comma(t[i]) /\ (i = 1 \/ Comma(t[i - 1]))
                => TokensAfter(found, t, i) = Append(found, <<t[i]>>)
           /\ ~Comma(t[i]) /\ i # 1 /\ ~Comma(t[i - 1])
                => TokensAfter(found, t, i)
                     = [found EXCEPT ![Len(found)] = Append(@, t[i])]
BY Zenon DEF Comma, TokensAfter

\* What stands between two commas is one token.
LEMMA OneToken ==
    ASSUME NEW w \in Text, NEW v \in Text, NEW f, IsTokens(f, w), Len(v) > 0,
           NEW p \in Nat, p + Len(v) <= Len(w), p = 0 \/ Comma(w[p]),
           \A j \in 1 .. Len(v) : w[p + j] = v[j] /\ ~Comma(v[j])
    PROVE  f[p + Len(v)] = Append(f[p], v)
<1> DEFINE n == Len(v)
           m == Len(w)
           T == {j \in Nat : j >= 1 => f[p + j] = Append(f[p], SubSeq(v, 1, j))}
<1>1. n \in Nat /\ m \in Nat /\ n > 0
  BY TextIs
<1>2. p + n <= m
  OBVIOUS
<1>3. \A j \in 1 .. n : w[p + j] = v[j] /\ ~Comma(v[j]) /\ v[j] \in Characters
  BY TextIs
<1>4. /\ f \in [0 .. m -> Seq(TokenTexts)]
      /\ \A i \in 1 .. m : f[i] = TokensAfter(f[i - 1], w, i)
  BY DEF IsTokens
<1> HIDE DEF m, n
<1>5. 0 \in T
  OBVIOUS
<1>6. \A j \in 0 .. n - 1 : j \in T => j + 1 \in T
  <2> SUFFICES ASSUME NEW j \in 0 .. n - 1, j \in T
               PROVE  f[p + (j + 1)] = Append(f[p], SubSeq(v, 1, j + 1))
    BY SMTT(30)
  <2> DEFINE i == p + (j + 1)
  <2>1. i \in 1 .. m /\ i - 1 = p + j /\ j \in Nat /\ j + 1 \in 1 .. n /\ p \in 0 .. m
    BY <1>1, <1>2
  <2>2. w[i] = v[j + 1] /\ ~Comma(w[i]) /\ v[j + 1] \in Characters
    BY <2>1, <1>3
  <2>3. f[i] = TokensAfter(f[p + j], w, i)
    BY <2>1, <1>4
  <2>4. f[p] \in Seq(TokenTexts)
    BY <2>1, <1>4
  <2>5. /\ SubSeq(v, 1, j) \in Text
        /\ SubSeq(v, 1, j + 1) = Append(SubSeq(v, 1, j), v[j + 1])
        /\ SubSeq(v, 1, 1) = <<v[1]>>
    <3>1. j + 1 <= Len(v)
      BY <2>1, <1>1 DEF n
    <3>2. QED BY <2>1, <3>1, PrefixGrows
  <2>6. CASE j = 0
    <3>1. i = p + 1 /\ p + j = p /\ (i = 1 \/ Comma(w[i - 1]))
      BY <2>1, <2>6
    <3>2. f[i] = Append(f[p], <<w[i]>>)
      <4>1. f[i] = TokensAfter(f[p], w, i)
        BY <2>3, <3>1
      <4> HIDE DEF i
      <4>2. ~Comma(w[i]) /\ (i = 1 \/ Comma(w[i - 1]))
              => TokensAfter(f[p], w, i) = Append(f[p], <<w[i]>>)
        BY ONLY TokensAfterCases, Zenon
      <4>3. ~Comma(w[i]) /\ (i = 1 \/ Comma(w[i - 1]))
        BY ONLY <2>2, <3>1, Zenon
      <4>4. QED BY ONLY <4>1, <4>2, <4>3, Zenon
    <3>3. j + 1 = 1
      BY <2>6, SMTT(30)
    <3>4. QED BY <3>2, <3>3, <2>2, <2>5
  <2>7. CASE j # 0
    <3>1. j >= 1 /\ j \in 1 .. n /\ i # 1
      <4>1. j >= 1 /\ j \in 1 .. n
        BY <2>1, <2>7, <1>1
      <4>2. p + (j + 1) # 1
        BY ONLY <2>1, <4>1
      <4>3. QED BY <4>1, <4>2
    <3>2. ~Comma(w[i - 1])
      BY <2>1, <3>1, <1>3
    <3>3. f[p + j] = Append(f[p], SubSeq(v, 1, j))
      BY <3>1
    <3> DEFINE a == f[p + j]
               s == SubSeq(v, 1, j)
    <3>4. f[i] = [a EXCEPT ![Len(a)] = Append(@, w[i])]
      <4> HIDE DEF i
      <4> HIDE DEF a
      <4>1. ~Comma(w[i]) /\ i # 1 /\ ~Comma(w[i - 1])
              => TokensAfter(a, w, i) = [a EXCEPT ![Len(a)] = Append(@, w[i])]
        BY ONLY TokensAfterCases, Zenon
      <4>2. ~Comma(w[i]) /\ i # 1 /\ ~Comma(w[i - 1])
        BY ONLY <2>2, <3>1, <3>2, Zenon
      <4>3. f[i] = TokensAfter(a, w, i)
        BY ONLY <2>3 DEF a
      <4>4. QED BY ONLY <4>1, <4>2, <4>3, Zenon
    <3>5. s \in TokenTexts
      <4>1. 1 \in 1 .. Len(v) + 1 /\ j \in 0 .. Len(v)
        BY <2>1, <3>1, <1>1 DEF n
      <4>2. Len(s) = IF 1 <= j THEN j - 1 + 1 ELSE 0
        BY <4>1, PartIs
      <4> HIDE DEF s
      <4>3. Len(s) # 0
        BY <4>2, <3>1
      <4>4. QED BY <2>5, <4>3, TextIs DEF TokenTexts, s
    <3>6. [Append(f[p], s) EXCEPT ![Len(Append(f[p], s))] = Append(@, v[j + 1])]
            = Append(f[p], Append(s, v[j + 1]))
      <4> DEFINE b == f[p]
                 c == v[j + 1]
      <4>1. b \in Seq(TokenTexts) /\ s \in TokenTexts /\ c \in Characters
        BY <2>2, <2>4, <3>5
      <4> HIDE DEF s, b, c
      <4>2. [Append(b, s) EXCEPT ![Len(Append(b, s))] = Append(@, c)]
              = Append(b, Append(s, c))
        BY ONLY <4>1, ExtendLast
      <4>3. QED BY ONLY <4>2 DEF b, c
    <3>7. QED BY <3>3, <3>4, <3>6, <2>2, <2>5
  <2>8. QED BY <2>6, <2>7
<1>7. \A j \in 0 .. n : j \in T
  <2> HIDE DEF T
  <2>1. QED BY ONLY <1>1, <1>5, <1>6, BoundedInduction
<1>8. n \in 0 .. n /\ n >= 1
  BY <1>1
<1>9. f[p + n] = Append(f[p], SubSeq(v, 1, n))
  BY <1>7, <1>8
<1>10. SubSeq(v, 1, n) = v
  BY WholeIs DEF n
<1>11. QED
  BY <1>9, <1>10 DEF n

\* The character before the first comma stays the first of the first token.
LEMMA FirstToken ==
    ASSUME NEW w \in Text, Len(w) > 0, ~Comma(w[1])
    PROVE  Len(Tokens(w)) >= 1 /\ Tokens(w)[1][1] = w[1]
<1> DEFINE m == Len(w)
<1>1. PICK f : IsTokens(f, w) /\ Tokens(w) = f[Len(w)]
  BY TokensSteps
<1>2. m \in Nat /\ m > 0 /\ \A i \in 1 .. m : w[i] \in Characters
  BY TextIs
<1>3. /\ f \in [0 .. m -> Seq(TokenTexts)] /\ f[0] = <<>>
      /\ \A i \in 1 .. m : f[i] = TokensAfter(f[i - 1], w, i)
  BY <1>1 DEF IsTokens
<1>4. Tokens(w) = f[m]
  BY <1>1
<1> HIDE DEF m
<1> DEFINE Good(x) == Len(x) >= 1 /\ x[1][1] = w[1]
           T == {i \in Nat : i >= 1 => Good(f[i])}
<1>5. \A i \in 0 .. m - 1 : i \in T => i + 1 \in T
  <2> SUFFICES ASSUME NEW i \in 0 .. m - 1, i \in T PROVE Good(f[i + 1])
    OBVIOUS
  <2>1. i + 1 \in 1 .. m /\ (i + 1) - 1 = i /\ i \in 0 .. m
    BY <1>2
  <2> DEFINE x == f[i]
             c == w[i + 1]
  <2>2. f[i + 1] = TokensAfter(x, w, i + 1) /\ x \in Seq(TokenTexts) /\ c \in Characters
    BY <2>1, <1>2, <1>3
  <2>3. CASE i = 0
    <3>1. f[1] = TokensAfter(<<>>, w, 1)
      BY <2>2, <2>3, <1>3
    <3>2. f[1] = Append(<<>>, <<w[1]>>)
      BY <3>1, TokensAfterCases
    <3>3. f[1] = <<<<w[1]>>>>
      BY <3>2
    <3>4. QED BY <3>3, <2>3
  <2>4. CASE i # 0
    <3>1. Good(x) /\ i >= 1
      BY <2>1, <2>4
    <3>2. Len(x) \in Nat /\ x[1] \in TokenTexts
      <4>1. Len(x) \in Nat
        BY <2>2, LenProperties
      <4>2. 1 \in 1 .. Len(x)
        BY <3>1, <4>1
      <4>3. QED BY <4>1, <4>2, <2>2, ElementOfSeq
    <3>3. CASE Comma(w[i + 1])
      BY <3>1, <3>3, <2>2, TokensAfterCases
    <3>4. CASE f[i + 1] = Append(x, <<c>>)
      <4>1. <<c>> \in TokenTexts
        BY <2>2, OneIs, TextIs DEF TokenTexts
      <4>2. /\ Len(Append(x, <<c>>)) = Len(x) + 1
            /\ \A j \in 1 .. Len(x) : Append(x, <<c>>)[j] = x[j]
        <5> HIDE DEF x, c
        <5>1. QED BY ONLY <2>2, <4>1, AppendProperties
      <4>3. 1 \in 1 .. Len(x)
        BY <3>1, <3>2
      <4> HIDE DEF x, c
      <4>4. QED BY <3>1, <3>2, <3>4, <4>2, <4>3
    <3>5. CASE f[i + 1] = [x EXCEPT ![Len(x)] = Append(@, c)]
      <4> DEFINE k == Len(x)
                 e == Append(x[k], c)
      <4>1. k \in 1 .. k /\ x[k] \in TokenTexts
        <5>1. k \in 1 .. Len(x)
          BY <3>1, <3>2
        <5>2. QED BY <5>1, <2>2, ElementOfSeq
      <4>2. e \in TokenTexts /\ e[1] = x[k][1]
        <5>1. x[k] \in Text /\ x[k] # <<>>
          BY <4>1 DEF TokenTexts
        <5>2. /\ e \in Text /\ Len(e) = Len(x[k]) + 1 /\ Len(x[k]) \in Nat
              /\ Len(x[k]) > 0 /\ \A j \in 1 .. Len(x[k]) : e[j] = x[k][j]
          BY <5>1, <2>2, AppendIs, TextIs
        <5> HIDE DEF e, k, x
        <5>3. Len(e) # 0 /\ 1 \in 1 .. Len(x[k])
          BY ONLY <5>2
        <5>4. QED BY <5>2, <5>3, TextIs DEF TokenTexts
      <4> HIDE DEF e
      <4>3. /\ Len([x EXCEPT ![k] = e]) = Len(x)
            /\ \A j \in 1 .. Len(x) : [x EXCEPT ![k] = e][j] = IF j = k THEN e ELSE x[j]
        <5>1. k \in 1 .. Len(x)
          BY <4>1
        <5> HIDE DEF k, x
        <5>2. QED BY ONLY <2>2, <4>2, <5>1, ExceptSeq
      <4>4. 1 \in 1 .. Len(x)
        BY <3>1, <3>2
      <4>5. f[i + 1] = [x EXCEPT ![k] = e]
        BY <3>5 DEF e
      <4> HIDE DEF x, k
      <4>6. QED BY <3>1, <4>2, <4>3, <4>4, <4>5
    <3>6. i + 1 # 1 /\ (i + 1) - 1 = i
      BY <2>1, <2>4
    <3> HIDE DEF x, c, Good
    <3>7. f[i + 1] = TokensAfter(x, w, i + 1)
      BY ONLY <2>2
    <3>8. \/ Comma(w[i + 1]) /\ TokensAfter(x, w, i + 1) = x
          \/ TokensAfter(x, w, i + 1) = Append(x, <<w[i + 1]>>)
          \/ TokensAfter(x, w, i + 1) = [x EXCEPT ![Len(x)] = Append(@, w[i + 1])]
      BY ONLY <3>6, TokensAfterCases, Zenon
    <3>9. QED
      BY ONLY <3>3, <3>4, <3>5, <3>7, <3>8, Zenon DEF c
  <2>5. QED BY <2>3, <2>4
<1>6. 0 \in T
  OBVIOUS
<1>7. \A i \in 0 .. m : i \in T
  <2> HIDE DEF T
  <2>1. QED BY ONLY <1>2, <1>5, <1>6, BoundedInduction
<1>8. m \in 0 .. m /\ m >= 1
  BY <1>2
<1>9. QED
  BY <1>4, <1>7, <1>8

\* A token that is not the last, or has its comma behind it, stays as it is.
LEMMA TokenStays ==
    ASSUME NEW w \in Text, NEW f, IsTokens(f, w), NEW p \in 1 .. Len(w),
           NEW k \in 1 .. Len(f[p]), k < Len(f[p]) \/ Comma(w[p])
    PROVE  k \in 1 .. Len(f[Len(w)]) /\ f[Len(w)][k] = f[p][k]
<1> DEFINE m == Len(w)
           y == f[p][k]
           Good(x, i) == k \in 1 .. Len(x) /\ x[k] = y /\ (k < Len(x) \/ Comma(w[i]))
           T == {j \in Nat : Good(f[p + j], p + j)}
<1>1. m \in Nat /\ p \in 1 .. m /\ \A i \in 1 .. m : w[i] \in Characters
  BY TextIs
<1>2. /\ f \in [0 .. m -> Seq(TokenTexts)]
      /\ \A i \in 1 .. m : f[i] = TokensAfter(f[i - 1], w, i)
  BY DEF IsTokens
<1>3. 0 \in T
  <2>1. p + 0 = p
    BY ONLY <1>1
  <2>2. Good(f[p], p)
    OBVIOUS
  <2> HIDE DEF Good
  <2>3. QED BY ONLY <2>1, <2>2
<1> HIDE DEF m, y
<1>4. \A j \in 0 .. (m - p) - 1 : j \in T => j + 1 \in T
  <2> SUFFICES ASSUME NEW j \in 0 .. (m - p) - 1, Good(f[p + j], p + j)
               PROVE  Good(f[p + (j + 1)], p + (j + 1))
    BY SMTT(30)
  <2> DEFINE i == p + j
             x == f[i]
             c == w[i + 1]
             z == f[i + 1]
  <2>1. i \in 0 .. m /\ i + 1 \in 1 .. m /\ (i + 1) - 1 = i /\ i + 1 # 1
        /\ p + (j + 1) = i + 1
    BY ONLY <1>1
  <2>2. Good(x, i)
    OBVIOUS
  <2> HIDE DEF i
  <2>3. z = TokensAfter(x, w, i + 1) /\ x \in Seq(TokenTexts) /\ c \in Characters
    BY ONLY <2>1, <1>1, <1>2
  <2>4. \/ Comma(c) /\ z = x
        \/ ~Comma(c) /\ Comma(w[i]) /\ z = Append(x, <<c>>)
        \/ ~Comma(c) /\ ~Comma(w[i]) /\ z = [x EXCEPT ![Len(x)] = Append(@, c)]
    <3> HIDE DEF x, z
    <3>1. /\ Comma(w[i + 1]) => TokensAfter(x, w, i + 1) = x
          /\ ~Comma(w[i + 1]) /\ (i + 1 = 1 \/ Comma(w[(i + 1) - 1]))
               => TokensAfter(x, w, i + 1) = Append(x, <<w[i + 1]>>)
          /\ ~Comma(w[i + 1]) /\ i + 1 # 1 /\ ~Comma(w[(i + 1) - 1])
               => TokensAfter(x, w, i + 1) = [x EXCEPT ![Len(x)] = Append(@, w[i + 1])]
      BY ONLY TokensAfterCases, Zenon
    <3>2. Comma(w[(i + 1) - 1]) = Comma(w[i])
      BY ONLY <2>1
    <3>3. QED BY ONLY <2>1, <2>3, <3>1, <3>2, Zenon DEF c
  <2> HIDE DEF c, x, z
  <2>5. Len(x) \in Nat
    BY ONLY <2>3, LenProperties
  <2>6. CASE Comma(c) /\ z = x
    <3>1. Good(z, i + 1)
      BY ONLY <2>2, <2>6 DEF c
    <3>2. QED BY <3>1, <2>1 DEF z
  <2>7. CASE z = Append(x, <<c>>)
    <3>1. <<c>> \in TokenTexts
      BY <2>3, OneIs, TextIs DEF TokenTexts
    <3>2. Len(z) = Len(x) + 1 /\ \A h \in 1 .. Len(x) : z[h] = x[h]
      BY ONLY <2>3, <2>7, <3>1, AppendProperties, SMTT(30)
    <3>3. k \in 1 .. Len(x) /\ x[k] = y
      BY ONLY <2>2
    <3>4. k \in 1 .. Len(z) /\ k < Len(z) /\ z[k] = y
      <4>1. z[k] = y
        BY ONLY <3>2, <3>3
      <4> DEFINE a == Len(x)
      <4>2. Len(z) = a + 1 /\ a \in Nat /\ k \in 1 .. a
        BY ONLY <2>5, <3>2, <3>3
      <4> HIDE DEF a
      <4>3. k \in 1 .. Len(z) /\ k < Len(z)
        BY ONLY <4>2
      <4>4. QED BY <4>1, <4>3
    <3>5. Good(z, i + 1)
      BY ONLY <3>4
    <3>6. QED BY ONLY <3>5, <2>1 DEF z
  <2>8. CASE ~Comma(w[i]) /\ z = [x EXCEPT ![Len(x)] = Append(@, c)]
    <3> DEFINE h == Len(x)
               e == Append(x[h], c)
    <3>1. k \in 1 .. h /\ x[k] = y /\ k < h /\ h \in Nat
      BY ONLY <2>2, <2>5, <2>8
    <3>2. h \in 1 .. Len(x) /\ x[h] \in Text
      <4>1. h \in 1 .. Len(x)
        BY ONLY <3>1
      <4>2. QED BY ONLY <4>1, <2>3, ElementOfSeq DEF TokenTexts
    <3>3. e \in TokenTexts
      <4>1. e \in Text /\ Len(e) = Len(x[h]) + 1 /\ Len(x[h]) \in Nat
        BY <2>3, <3>2, AppendIs, TextIs
      <4> HIDE DEF e, h
      <4>2. Len(e) # 0
        BY ONLY <4>1
      <4>3. QED BY <4>1, <4>2, TextIs DEF TokenTexts
    <3>4. z = [x EXCEPT ![h] = e]
      BY ONLY <2>8
    <3> HIDE DEF e
    <3>5. /\ Len(z) = h
          /\ \A g \in 1 .. h : z[g] = IF g = h THEN e ELSE x[g]
      <4>1. /\ Len([x EXCEPT ![h] = e]) = Len(x)
            /\ \A g \in 1 .. Len(x) : [x EXCEPT ![h] = e][g] = IF g = h THEN e ELSE x[g]
        <5> DEFINE a == h
        <5>1. a \in 1 .. Len(x)
          BY ONLY <3>2
        <5> HIDE DEF a
        <5>2. /\ Len([x EXCEPT ![a] = e]) = Len(x)
              /\ \A g \in 1 .. Len(x) : [x EXCEPT ![a] = e][g] = IF g = a THEN e ELSE x[g]
          BY ONLY <2>3, <3>3, <5>1, ExceptSeq
        <5>3. QED BY ONLY <5>2 DEF a
      <4>2. QED BY ONLY <4>1, <3>4
    <3> HIDE DEF h
    <3>6. k \in 1 .. Len(z) /\ k < Len(z) /\ z[k] = y
      BY ONLY <3>1, <3>5
    <3>7. Good(z, i + 1)
      BY ONLY <3>6
    <3>8. QED BY ONLY <3>7, <2>1 DEF z
  <2>9. QED BY ONLY <2>4, <2>6, <2>7, <2>8
<1>5. \A j \in 0 .. m - p : j \in T
  <2>1. m - p \in Nat
    BY ONLY <1>1
  <2> HIDE DEF T
  <2>2. QED BY ONLY <2>1, <1>3, <1>4, BoundedInduction
<1>6. m - p \in 0 .. m - p /\ p + (m - p) = m
  BY ONLY <1>1
<1>7. Good(f[m], m)
  <2> HIDE DEF Good
  <2>1. m - p \in T
    BY ONLY <1>5, <1>6
  <2>2. QED BY ONLY <2>1, <1>6
<1>8. QED
  BY ONLY <1>7 DEF m, y

\* The tokens of a command to set a parameter: its first letter, the number and,
\* unless commas cut it, the value.
LEMMA SetTokens ==
    ASSUME NEW w \in Text, NEW n \in Text, NEW v \in Text, IsSet(w, "S", n, v),
           Len(n) > 0, \A j \in 1 .. Len(n) : ~Comma(n[j])
    PROVE  /\ Len(Tokens(w)) >= 2 /\ Tokens(w)[2] = n
           /\ Len(v) > 0 /\ (\A j \in 1 .. Len(v) : ~Comma(v[j]))
                => Len(Tokens(w)) = 3 /\ Tokens(w)[3] = v
<1> DEFINE a == Len(n)
           b == Len(v)
           S == <<"S">>
           q == a + 3
<1>1. PICK f : IsTokens(f, w) /\ Tokens(w) = f[Len(w)]
  BY TokensSteps
<1>2. a \in Nat /\ b \in Nat /\ a > 0
  BY TextIs
<1>3. /\ Len(w) = a + b + 3
      /\ w[1] = "S" /\ Comma(w[2])
      /\ \A i \in 1 .. a : w[2 + i] = n[i] /\ ~Comma(n[i])
      /\ Comma(w[q])
      /\ \A i \in 1 .. b : w[q + i] = v[i]
  BY Zenon DEF IsSet, Comma
<1>4. /\ f \in [0 .. Len(w) -> Seq(TokenTexts)] /\ f[0] = <<>>
      /\ \A i \in 1 .. Len(w) : f[i] = TokensAfter(f[i - 1], w, i)
  BY <1>1 DEF IsTokens
<1>5. S \in Text /\ Len(S) = 1 /\ S[1] = "S"
  BY CharactersAre, OneIs
<1>6. w[1] = S[1] /\ ~Comma(S[1])
  BY <1>3, <1>5 DEF Comma
<1> HIDE DEF a, b, S
<1>7. /\ 0 + Len(S) <= Len(w) /\ Len(S) > 0 /\ 0 \in Nat
      /\ \A j \in 1 .. Len(S) : w[0 + j] = S[j] /\ ~Comma(S[j])
  <2>1. \A j \in 1 .. 1 : j = 1 /\ 0 + j = 1
    OBVIOUS
  <2>2. QED BY ONLY <2>1, <1>2, <1>3, <1>5, <1>6
<1>8. f[0 + Len(S)] = Append(f[0], S)
  <2>1. 0 = 0 \/ Comma(w[0])
    OBVIOUS
  <2>2. QED BY ONLY w \in Text, <1>1, <1>5, <1>7, <2>1, OneToken, ZenonT(60)
<1>9. f[1] = <<S>>
  BY ONLY <1>4, <1>5, <1>8
<1>10. f[2] = <<S>>
  <2>1. 2 \in 1 .. Len(w) /\ 2 - 1 = 1
    BY ONLY <1>2, <1>3
  <2>2. f[2] = TokensAfter(f[1], w, 2)
    BY ONLY <1>4, <2>1
  <2>3. Comma(w[2]) => TokensAfter(f[1], w, 2) = f[1]
    BY ONLY TokensAfterCases, Zenon
  <2>4. QED BY ONLY <1>3, <1>9, <2>2, <2>3, Zenon
<1>11. f[a + 2] = <<S, n>>
  <2>1. /\ 2 + Len(n) <= Len(w) /\ Len(n) > 0 /\ 2 \in Nat /\ a + 2 = 2 + Len(n)
        /\ \A j \in 1 .. Len(n) : w[2 + j] = n[j] /\ ~Comma(n[j])
    BY ONLY <1>2, <1>3 DEF a
  <2>2. 2 = 0 \/ Comma(w[2])
    BY ONLY <1>3
  <2>3. f[2 + Len(n)] = Append(f[2], n)
    BY ONLY w \in Text, n \in Text, <1>1, <2>1, <2>2, OneToken
  <2>4. QED BY ONLY <2>1, <2>3, <1>10
<1>12. f[q] = <<S, n>>
  <2>1. q \in 1 .. Len(w) /\ q - 1 = a + 2
    BY ONLY <1>2, <1>3
  <2> HIDE DEF q
  <2>2. f[q] = TokensAfter(f[q - 1], w, q)
    BY ONLY <1>4, <2>1
  <2>3. Comma(w[q]) => TokensAfter(f[q - 1], w, q) = f[q - 1]
    BY ONLY TokensAfterCases, Zenon
  <2>4. f[q - 1] = <<S, n>>
    BY ONLY <2>1, <1>11
  <2>5. QED BY ONLY <1>3, <2>2, <2>3, <2>4, Zenon
<1> DEFINE two == <<S, n>>
<1>13. Len(two) = 2 /\ two[2] = n
  OBVIOUS
<1>14. q \in 1 .. Len(w) /\ q \in Nat
  BY ONLY <1>2, <1>3
<1> HIDE DEF q, two
<1>15. 2 \in 1 .. Len(f[Len(w)]) /\ f[Len(w)][2] = f[q][2]
  <2>1. 2 \in 1 .. Len(f[q])
    BY ONLY <1>12, <1>13 DEF two
  <2>2. 2 < Len(f[q]) \/ Comma(w[q])
    BY ONLY <1>3
  <2>3. QED BY ONLY w \in Text, <1>1, <1>14, <2>1, <2>2, TokenStays
<1>16. f[q] \in Seq(TokenTexts) /\ f[Len(w)] \in Seq(TokenTexts)
  <2>1. q \in 0 .. Len(w) /\ Len(w) \in 0 .. Len(w)
    BY ONLY <1>2, <1>3, <1>14
  <2>2. QED BY ONLY <1>4, <2>1
<1>17. Len(f[Len(w)]) \in Nat
  BY ONLY <1>16, LenProperties
<1>18. Len(Tokens(w)) >= 2 /\ Tokens(w)[2] = n
  <2>1. Tokens(w) = f[Len(w)] /\ f[q][2] = n
    BY ONLY <1>1, <1>12, <1>13 DEF two
  <2>2. QED BY ONLY <1>15, <1>17, <2>1
<1>19. ASSUME Len(v) > 0, \A j \in 1 .. Len(v) : ~Comma(v[j])
       PROVE  Len(Tokens(w)) = 3 /\ Tokens(w)[3] = v
  <2>1. /\ q + Len(v) <= Len(w) /\ Len(w) = q + Len(v) /\ Len(v) > 0
        /\ \A j \in 1 .. Len(v) : w[q + j] = v[j] /\ ~Comma(v[j])
    BY ONLY <1>2, <1>3, <1>19 DEF b, q
  <2>2. q = 0 \/ Comma(w[q])
    BY ONLY <1>3
  <2>3. f[q + Len(v)] = Append(f[q], v)
    BY ONLY w \in Text, v \in Text, <1>1, <1>14, <2>1, <2>2, OneToken
  <2>4. Tokens(w) = Append(two, v)
    BY ONLY <1>1, <1>12, <2>1, <2>3 DEF two
  <2>5. two \in Seq(Text) /\ Len(two) = 2
    <3>1. <<S, n>> \in Seq(Text)
      BY ONLY <1>5, n \in Text
    <3>2. QED BY ONLY <3>1, <1>13 DEF two
  <2>6. Len(Append(two, v)) = Len(two) + 1 /\ Append(two, v)[Len(two) + 1] = v
    BY ONLY <2>5, v \in Text, AppendProperties, ZenonT(60)
  <2>7. QED BY ONLY <2>4, <2>5, <2>6
<1>20. QED
  BY ONLY <1>18, <1>19

\* What the translation leaves of a key is that key for the parser.
LEMMA KeyOfDecimal ==
    ASSUME NEW i \in DOMAIN ListMap
    PROVE  LET n == Decimal(ListMap[i].key)
           IN  /\ n \in Text /\ Len(n) \in {1, 2}
               /\ \A j \in 1 .. Len(n) : n[j] \in Figures
               /\ KeyOf(n) = {ListMap[i].key}
<1> DEFINE k == ListMap[i].key
           n == Decimal(k)
<1>1. k \in Keys /\ k \in 0 .. 17
  BY EntryFacts, KeysAre
<1>2. /\ n \in Text
      /\ \/ \E d \in 0 .. 9 : n = <<Figure[d]>> /\ k = d
         \/ \E d \in 0 .. 9 : n = <<"1", Figure[d]>> /\ k = 10 + d
  BY DecimalIs
<1> HIDE DEF k, n
<1>3. /\ Len(n) \in {1, 2}
      /\ \A j \in 1 .. Len(n) : n[j] \in Figures
      /\ Natural(n) = k
  <2>1. PICK f : IsValues(f, n) /\ Natural(n) = f[Len(n)]
    BY <1>2, NaturalSteps
  <2>2. /\ f[0] = 0
        /\ \A j \in 1 .. Len(n) :
              (\A h \in 1 .. j : IsDigit(n[h])) => f[j] = 10 * f[j - 1] + Digit[n[j]]
    BY <2>1 DEF IsValues
  <2>3. ASSUME NEW d \in 0 .. 9, n = <<Figure[d]>>, k = d
        PROVE  Len(n) = 1 /\ (\A j \in 1 .. 1 : n[j] \in Figures) /\ f[1] = k
    <3>1. Len(n) = 1 /\ n[1] = Figure[d] /\ \A j \in 1 .. 1 : j = 1
      BY ONLY <2>3
    <3>2. Figure[d] \in Figures /\ Digit[Figure[d]] = d
      BY DigitIs
    <3>3. f[1] = 10 * f[0] + Digit[n[1]]
      <4>1. 1 \in 1 .. Len(n) /\ 1 - 1 = 0 /\ \A h \in 1 .. 1 : IsDigit(n[h])
        BY ONLY <3>1, <3>2 DEF IsDigit
      <4>2. QED BY ONLY <4>1, <2>2
    <3>4. f[1] = d
      BY ONLY <3>1, <3>2, <3>3, <2>2
    <3>5. QED BY ONLY <3>1, <3>2, <3>4, <2>3
  <2>4. ASSUME NEW d \in 0 .. 9, n = <<"1", Figure[d]>>, k = 10 + d
        PROVE  Len(n) = 2 /\ (\A j \in 1 .. 2 : n[j] \in Figures) /\ f[2] = k
    <3>1. Len(n) = 2 /\ n[1] = "1" /\ n[2] = Figure[d]
      BY ONLY <2>4
    <3>2. /\ Figure[d] \in Figures /\ Digit[Figure[d]] = d
          /\ n[1] \in Figures /\ Digit[n[1]] = 1
      <4>1. Figure[1] = "1" /\ 1 \in 0 .. 9
        BY FigureIs
      <4>2. QED BY <3>1, <4>1, DigitIs
    <3>3. \A j \in 1 .. 2 : n[j] \in Figures
      <4>1. \A j \in 1 .. 2 : j = 1 \/ j = 2
        OBVIOUS
      <4>2. QED BY ONLY <4>1, <3>1, <3>2
    <3>4. f[1] = 10 * f[0] + Digit[n[1]] /\ f[2] = 10 * f[1] + Digit[n[2]]
      <4>1. /\ 1 \in 1 .. Len(n) /\ 2 \in 1 .. Len(n) /\ 1 - 1 = 0 /\ 2 - 1 = 1
            /\ \A h \in 1 .. 1 : h \in 1 .. 2
        BY ONLY <3>1
      <4>2. \A h \in 1 .. 2 : IsDigit(n[h])
        BY ONLY <3>3 DEF IsDigit
      <4>3. QED BY ONLY <4>1, <4>2, <2>2
    <3>5. f[1] = 1 /\ f[2] = 10 + d
      BY ONLY <3>1, <3>2, <3>4, <2>2
    <3>6. QED BY ONLY <3>1, <3>3, <3>5, <2>4
  <2>5. QED BY <1>2, <2>1, <2>3, <2>4
<1>4. Len(n) > 0 /\ n # <<>>
  <2>1. Len(n) > 0
    BY ONLY <1>3
  <2>2. n = <<>> => Len(n) = 0
    BY ONLY <1>2, TextIs
  <2>3. QED BY ONLY <2>1, <2>2
<1>5. Atoi(n) = k
  <2>1. ~(Natural(n) >= AtoiLimit)
    BY ONLY <1>1, <1>3, SMT DEF AtoiLimit
  <2>2. Atoi(n) = IF Natural(n) >= AtoiLimit THEN OutOfRange(n) ELSE Natural(n)
    <3>1. \A j \in 1 .. Len(n) : IsDigit(n[j])
      BY ONLY <1>3 DEF IsDigit
    <3>2. QED BY ONLY <1>2, <1>4, <3>1, AtoiDigits
  <2>3. QED BY ONLY <1>3, <2>1, <2>2
<1>6. IsDigit(Head(n))
  <2>1. 1 \in 1 .. Len(n) /\ Head(n) = n[1]
    BY <1>2, <1>3, <1>4, TailIs
  <2>2. QED BY <2>1, <1>3 DEF IsDigit
<1>7. KeyOf(n) = {k}
  BY ONLY <1>1, <1>5, <1>6 DEF KeyOf
<1>8. QED
  BY <1>2, <1>3, <1>7 DEF n, k

\* The parser on a command of the translation: S changes the parameter of the
\* number and no other, G changes nothing.
LEMMA ProcessSet ==
    ASSUME NEW i \in DOMAIN ListMap, NEW v \in Text, v # <<>>,
           Process(SetLine(Decimal(ListMap[i].key), v)), TableOK
    PROVE  \A k \in Keys : table'[k] # table[k] => k = ListMap[i].key
<1> DEFINE n == Decimal(ListMap[i].key)
           y == SetLine(n, v)
           w == Front(y)
           tokens == Tokens(w)
<1>1. n \in Text /\ Len(n) \in {1, 2} /\ KeyOf(n) = {ListMap[i].key}
      /\ \A j \in 1 .. Len(n) : n[j] \in Figures
  BY KeyOfDecimal
<1> HIDE DEF n
<1>2. y \in Text /\ y # <<>> /\ y[Len(y)] = "!" /\ IsSet(w, "S", n, v) /\ w \in Text
  <2>1. y \in Text /\ y # <<>> /\ y[Len(y)] = "!" /\ IsSet(w, "S", n, v)
    BY <1>1, SetLineIs
  <2> HIDE DEF y
  <2>2. QED BY <2>1, FrontIs
<1>3. Len(n) > 0 /\ \A j \in 1 .. Len(n) : ~Comma(n[j])
  <2>1. \A c \in Figures : ~Comma(c)
    BY FiguresAre DEF Comma
  <2>2. Len(n) > 0
    BY ONLY <1>1
  <2>3. QED BY <1>1, <2>1, <2>2
<1>4. tokens[2] = n
  <2> HIDE DEF w
  <2>1. QED BY <1>1, <1>2, <1>3, SetTokens
<1>5. (IF y # <<>> /\ y[Len(y)] = "!" THEN Front(y) ELSE y) = w
  BY <1>2
<1> HIDE DEF w
<1>6. Process(y)
  BY DEF n
<1> HIDE DEF y, tokens
<1>7. \/ UNCHANGED table
      \/ table' = [k \in Keys |-> IF k \in KeyOf(tokens[2])
                                    THEN ValueFor(k, tokens[3]) ELSE table[k]]
  BY ONLY <1>5, <1>6 DEF Process, tokens
<1>8. QED
  BY <1>1, <1>4, <1>7

\* A command to read changes nothing.
LEMMA ProcessGet ==
    ASSUME NEW n \in Text, Process(GetLine(n))
    PROVE  UNCHANGED table
<1> DEFINE y == GetLine(n)
           w == IF y # <<>> /\ y[Len(y)] = "!" THEN Front(y) ELSE y
           tokens == Tokens(w)
<1>1. y \in Text /\ y[1] = "G" /\ Len(y) = Len(n) + 3 /\ Len(n) \in Nat
  BY GetLineIs, TextIs
<1> HIDE DEF y
<1>2. Front(y) \in Text /\ Len(Front(y)) > 0 /\ Front(y)[1] = "G"
  <2> DEFINE m == Len(y) - 1
             x == SubSeq(y, 1, m)
  <2>1. Len(y) = m + 1 /\ m \in Nat /\ m > 0
    BY ONLY <1>1
  <2>2. Front(y) = x
    BY ONLY DEF Front
  <2> HIDE DEF m
  <2>3. 1 \in 1 .. Len(y) + 1 /\ m \in 0 .. Len(y)
    BY ONLY <2>1
  <2>4. /\ x \in Text /\ Len(x) = (IF 1 <= m THEN m - 1 + 1 ELSE 0)
        /\ \A j \in 1 .. m - 1 + 1 : x[j] = y[1 + j - 1]
    BY ONLY <1>1, <2>3, PartIs
  <2> HIDE DEF x
  <2>5. Len(x) > 0 /\ 1 \in 1 .. m - 1 + 1 /\ 1 + 1 - 1 = 1
    BY ONLY <2>1, <2>4
  <2>6. x[1] = y[1]
    BY ONLY <2>4, <2>5
  <2>7. QED BY ONLY <1>1, <2>2, <2>4, <2>5, <2>6
<1>3. w \in Text /\ Len(w) > 0 /\ w[1] = "G"
  <2>1. Len(y) > 0
    BY ONLY <1>1
  <2>2. QED BY <1>1, <1>2, <2>1
<1> HIDE DEF w
<1>4. ~Comma(w[1])
  BY ONLY <1>3 DEF Comma
<1>5. tokens[1][1] = "G"
  BY ONLY <1>3, <1>4, FirstToken
<1> HIDE DEF tokens
<1>6. tokens[1][1] \in {"S", "s"} \/ UNCHANGED table
  BY Zenon DEF Process, tokens, w, y
<1>7. QED
  BY ONLY <1>5, <1>6

-----------------------------------------------------------------------------
\* The tokens that name an entry of the list

\* A number of nine digits is within the reach of Ql_atoi.
LEMMA NineDigits ==
    ASSUME NEW t \in Text, \A i \in 1 .. Len(t) : IsDigit(t[i]), Len(t) <= 9
    PROVE  Natural(t) < AtoiLimit
<1> DEFINE n == Len(t)
<1>1. PICK f : IsValues(f, t) /\ Natural(t) = f[Len(t)]
  BY NaturalSteps
<1>2. n \in Nat /\ n <= 9
  BY TextIs
<1>3. f[0] = 0 /\ \A i \in 0 .. n : f[i] \in Nat
  BY <1>1 DEF IsValues
<1>4. \A i \in 1 .. n : f[i] = 10 * f[i - 1] + Digit[t[i]]
  <2>1. \A i \in 1 .. n : \A j \in 1 .. i : j \in 1 .. n
    BY ONLY <1>2
  <2>2. \A i \in 1 .. n : \A j \in 1 .. i : IsDigit(t[j])
    BY <2>1
  <2>3. QED BY <1>1, <2>2 DEF IsValues
<1>5. \A i \in 1 .. n : Digit[t[i]] \in 0 .. 9
  BY DigitIs DEF IsDigit
<1>6. Natural(t) = f[n]
  BY <1>1
<1> HIDE DEF n
<1>7. \A i \in 0 .. 8 : i + 1 <= n => f[i + 1] <= 10 * f[i] + 9 /\ f[i + 1] \in Nat
                                       /\ f[i] \in Nat /\ i <= n
  <2> TAKE i \in 0 .. 8
  <2> HAVE i + 1 <= n
  <2>1. i + 1 \in 1 .. n /\ i \in 0 .. n /\ i + 1 \in 0 .. n /\ (i + 1) - 1 = i /\ i <= n
    BY ONLY <1>2, i \in 0 .. 8, i + 1 <= n
  <2>2. f[i + 1] = 10 * f[i] + Digit[t[i + 1]] /\ Digit[t[i + 1]] \in 0 .. 9
        /\ f[i] \in Nat /\ f[i + 1] \in Nat
    BY ONLY <2>1, <1>3, <1>4, <1>5
  <2> DEFINE d == Digit[t[i + 1]]
  <2> HIDE DEF d
  <2>3. f[i + 1] = 10 * f[i] + d /\ d \in 0 .. 9 /\ f[i] \in Nat
    BY ONLY <2>2 DEF d
  <2>4. f[i + 1] <= 10 * f[i] + 9
    BY ONLY <2>3
  <2>5. QED BY <2>1, <2>2, <2>4
<1>8. /\ 1 <= n => f[1] \in Nat /\ f[1] <= 9
      /\ 2 <= n => f[2] \in Nat /\ f[2] <= 10 * f[1] + 9 /\ 1 <= n
      /\ 3 <= n => f[3] \in Nat /\ f[3] <= 10 * f[2] + 9 /\ 2 <= n
      /\ 4 <= n => f[4] \in Nat /\ f[4] <= 10 * f[3] + 9 /\ 3 <= n
      /\ 5 <= n => f[5] \in Nat /\ f[5] <= 10 * f[4] + 9 /\ 4 <= n
      /\ 6 <= n => f[6] \in Nat /\ f[6] <= 10 * f[5] + 9 /\ 5 <= n
      /\ 7 <= n => f[7] \in Nat /\ f[7] <= 10 * f[6] + 9 /\ 6 <= n
      /\ 8 <= n => f[8] \in Nat /\ f[8] <= 10 * f[7] + 9 /\ 7 <= n
      /\ 9 <= n => f[9] \in Nat /\ f[9] <= 10 * f[8] + 9 /\ 8 <= n
  <2>1. /\ 0 \in 0 .. 8 /\ 1 \in 0 .. 8 /\ 2 \in 0 .. 8 /\ 3 \in 0 .. 8
        /\ 4 \in 0 .. 8 /\ 5 \in 0 .. 8 /\ 6 \in 0 .. 8 /\ 7 \in 0 .. 8
        /\ 8 \in 0 .. 8
        /\ 0 + 1 = 1 /\ 1 + 1 = 2 /\ 2 + 1 = 3 /\ 3 + 1 = 4 /\ 4 + 1 = 5
        /\ 5 + 1 = 6 /\ 6 + 1 = 7 /\ 7 + 1 = 8 /\ 8 + 1 = 9
    OBVIOUS
  <2>2. 1 <= n => f[1] \in Nat /\ f[1] <= 10 * f[0] + 9
    BY ONLY <1>7, <2>1
  <2>3. 1 <= n => f[1] \in Nat /\ f[1] <= 9
    BY ONLY <2>2, <1>3
  <2>4. QED BY ONLY <1>7, <2>1, <2>3
<1> DEFINE a0 == f[0] a1 == f[1] a2 == f[2] a3 == f[3] a4 == f[4]
           a5 == f[5] a6 == f[6] a7 == f[7] a8 == f[8] a9 == f[9]
<1> HIDE DEF a0, a1, a2, a3, a4, a5, a6, a7, a8, a9
<1>9. \/ n = 0 /\ Natural(t) = a0
      \/ n = 1 /\ Natural(t) = a1
      \/ n = 2 /\ Natural(t) = a2
      \/ n = 3 /\ Natural(t) = a3
      \/ n = 4 /\ Natural(t) = a4
      \/ n = 5 /\ Natural(t) = a5
      \/ n = 6 /\ Natural(t) = a6
      \/ n = 7 /\ Natural(t) = a7
      \/ n = 8 /\ Natural(t) = a8
      \/ n = 9 /\ Natural(t) = a9
  <2>1. n \in {0, 1, 2, 3, 4, 5, 6, 7, 8, 9}
    BY ONLY <1>2
  <2>2. QED BY ONLY <1>6, <2>1 DEF a0, a1, a2, a3, a4, a5, a6, a7, a8, a9
<1>10. /\ a0 = 0
       /\ 1 <= n => a1 \in Nat /\ a1 <= 9
       /\ 2 <= n => a2 \in Nat /\ a2 <= 10 * a1 + 9 /\ 1 <= n
       /\ 3 <= n => a3 \in Nat /\ a3 <= 10 * a2 + 9 /\ 2 <= n
       /\ 4 <= n => a4 \in Nat /\ a4 <= 10 * a3 + 9 /\ 3 <= n
       /\ 5 <= n => a5 \in Nat /\ a5 <= 10 * a4 + 9 /\ 4 <= n
       /\ 6 <= n => a6 \in Nat /\ a6 <= 10 * a5 + 9 /\ 5 <= n
       /\ 7 <= n => a7 \in Nat /\ a7 <= 10 * a6 + 9 /\ 6 <= n
       /\ 8 <= n => a8 \in Nat /\ a8 <= 10 * a7 + 9 /\ 7 <= n
       /\ 9 <= n => a9 \in Nat /\ a9 <= 10 * a8 + 9 /\ 8 <= n
  BY ONLY <1>3, <1>8 DEF a0, a1, a2, a3, a4, a5, a6, a7, a8, a9
<1> DEFINE N == Natural(t)
<1> HIDE DEF N
<1>11. /\ 1 <= n => a1 <= 9
       /\ 2 <= n => a2 <= 99
       /\ 3 <= n => a3 <= 999
       /\ 4 <= n => a4 <= 9999
       /\ 5 <= n => a5 <= 99999
       /\ 6 <= n => a6 <= 999999
  BY ONLY <1>10, SMT
<1>12. N < AtoiLimit
  <2>1. /\ 7 <= n => a7 <= 9999999
        /\ 8 <= n => a8 <= 99999999
        /\ 9 <= n => a9 <= 999999999
    BY ONLY <1>10, <1>11, SMT
  <2>2. \/ n = 0 /\ N = a0
        \/ n = 1 /\ N = a1
        \/ n = 2 /\ N = a2
        \/ n = 3 /\ N = a3
        \/ n = 4 /\ N = a4
        \/ n = 5 /\ N = a5
        \/ n = 6 /\ N = a6
        \/ n = 7 /\ N = a7
        \/ n = 8 /\ N = a8
        \/ n = 9 /\ N = a9
    BY ONLY <1>9, Zenon DEF N
  <2>3. QED BY ONLY <1>2, <1>10, <1>11, <2>1, <2>2, SMT DEF AtoiLimit
<1>13. QED
  BY ONLY <1>12, Zenon DEF N

\* A number that is less than ten is one figure, after any zeros.
LEMMA LeadingZeros ==
    ASSUME NEW t \in Text, \A i \in 1 .. Len(t) : IsDigit(t[i]), Len(t) > 0,
           NEW d \in 0 .. 9, Natural(t) = d
    PROVE  t[Len(t)] = Figure[d] /\ \A j \in 1 .. Len(t) - 1 : t[j] = "0"
<1> DEFINE n == Len(t)
<1>1. PICK f : IsValues(f, t) /\ Natural(t) = f[Len(t)]
  BY NaturalSteps
<1>2. n \in Nat /\ n > 0
  BY TextIs
<1>3. f[0] = 0 /\ (\A i \in 0 .. n : f[i] \in Nat) /\ f[n] = d /\ d \in 0 .. 9
  BY <1>1 DEF IsValues
<1>4. \A i \in 1 .. n : f[i] = 10 * f[i - 1] + Digit[t[i]]
  <2>1. \A i \in 1 .. n : \A j \in 1 .. i : j \in 1 .. n
    BY ONLY <1>2
  <2>2. \A i \in 1 .. n : \A j \in 1 .. i : IsDigit(t[j])
    BY <2>1
  <2>3. QED BY <1>1, <2>2 DEF IsValues
<1>5. \A i \in 1 .. n : Digit[t[i]] \in 0 .. 9 /\ Figure[Digit[t[i]]] = t[i]
  BY DigitIs DEF IsDigit
<1> HIDE DEF n
<1> DEFINE Zeros(m) == f[m] = 0 => \A j \in 1 .. m : Digit[t[j]] = 0
           T == {m \in Nat : Zeros(m)}
<1>6. 0 \in T
  <2>1. \A j \in 1 .. 0 : FALSE
    OBVIOUS
  <2>2. QED BY ONLY <2>1
<1>7. \A m \in 0 .. n - 1 : m \in T => m + 1 \in T
  <2>1. ASSUME NEW m \in 0 .. n - 1, Zeros(m), f[m + 1] = 0
        PROVE  \A j \in 1 .. m + 1 : Digit[t[j]] = 0
    <3> DEFINE c == Digit[t[m + 1]]
               a == f[m]
    <3>1. m + 1 \in 1 .. n /\ m \in 0 .. n /\ (m + 1) - 1 = m
      BY ONLY <1>2
    <3>2. 0 = 10 * a + c /\ a \in Nat /\ c \in 0 .. 9
      BY ONLY <3>1, <1>3, <1>4, <1>5, <2>1
    <3> HIDE DEF a, c
    <3>3. a = 0 /\ c = 0
      BY ONLY <3>2
    <3>4. \A j \in 1 .. m : Digit[t[j]] = 0
      BY ONLY <2>1, <3>3 DEF a
    <3>5. \A j \in 1 .. m + 1 : j \in 1 .. m \/ j = m + 1
      BY ONLY <3>1
    <3>6. QED BY ONLY <3>3, <3>4, <3>5 DEF c
  <2>2. \A m \in 0 .. n - 1 : m + 1 \in Nat
    BY ONLY <1>2
  <2>3. QED BY <2>1, <2>2
<1>8. \A m \in 0 .. n : m \in T
  <2> HIDE DEF T
  <2>1. QED BY ONLY <1>2, <1>6, <1>7, BoundedInduction
<1>9. n - 1 \in 0 .. n /\ n \in 1 .. n
  BY ONLY <1>2
<1> DEFINE c == Digit[t[n]]
           a == f[n - 1]
<1>10. d = 10 * a + c /\ a \in Nat /\ c \in 0 .. 9 /\ d \in 0 .. 9
  BY ONLY <1>3, <1>4, <1>5, <1>9
<1> HIDE DEF a, c
<1>11. a = 0 /\ c = d
  BY ONLY <1>10
<1>12. t[n] = Figure[d]
  BY ONLY <1>5, <1>9, <1>11 DEF c
<1>13. \A j \in 1 .. n - 1 : t[j] = "0"
  <2> TAKE j \in 1 .. n - 1
  <2>1. j \in 1 .. n
    BY ONLY <1>2
  <2>2. Digit[t[j]] = 0
    BY ONLY <1>8, <1>9, <1>11 DEF a
  <2>3. Figure[0] = "0"
    BY FigureIs
  <2>4. QED BY ONLY <1>5, <2>1, <2>2, <2>3
<1>14. QED
  BY ONLY <1>12, <1>13 DEF n

\* Whatever sms_find_map_key takes for a line of the list names that line.
LEMMA EntryNamed ==
    ASSUME NEW token \in Text, Len(token) > 0, NEW i \in Entries(token)
    PROVE  NamesEntry(token, i)
<1>1. i \in DOMAIN ListMap /\ i \in 0 .. 9
      /\ \/ (\A j \in DOMAIN token : IsDigit(token[j])) /\ Atoi(token) = i
         \/ token = <<ListMap[i].alias>>
  BY EntryFacts DEF Entries
<1>2. token # <<>>
  BY TextIs
<1>3. CASE token = <<ListMap[i].alias>>
  BY <1>3 DEF NamesEntry
<1>4. CASE (\A j \in DOMAIN token : IsDigit(token[j])) /\ Atoi(token) = i
  <2>1. \A j \in 1 .. Len(token) : IsDigit(token[j])
    BY <1>4, TextIs
  <2>2. i = IF Natural(token) >= AtoiLimit THEN OutOfRange(token) ELSE Natural(token)
    BY ONLY token \in Text, <1>2, <1>4, <2>1, AtoiDigits
  <2>3. CASE Natural(token) >= AtoiLimit
    <3>1. OutOfRange(token) = i
      BY ONLY <2>2, <2>3
    <3>2. Len(token) > 9
      <4> SUFFICES ASSUME ~(Len(token) > 9) PROVE FALSE
        OBVIOUS
      <4>1. Len(token) <= 9
        BY TextIs
      <4>2. Natural(token) < AtoiLimit
        BY ONLY token \in Text, <2>1, <4>1, NineDigits
      <4> DEFINE N == Natural(token)
      <4>3. N \in Nat
        <5>1. PICK f : IsValues(f, token) /\ Natural(token) = f[Len(token)]
          BY NaturalSteps
        <5>2. Len(token) \in 0 .. Len(token)
          BY TextIs
        <5>3. QED BY <5>1, <5>2 DEF IsValues
      <4>4. N >= AtoiLimit /\ N < AtoiLimit
        BY ONLY <2>3, <4>2
      <4> HIDE DEF N
      <4>5. QED BY ONLY <4>3, <4>4, SMT DEF AtoiLimit
    <3>3. QED BY ONLY <3>1, <3>2 DEF NamesEntry
  <2>4. CASE ~(Natural(token) >= AtoiLimit)
    <3>1. Natural(token) = i
      BY ONLY <2>2, <2>4
    <3>2. token[Len(token)] = Figure[i] /\ \A j \in 1 .. Len(token) - 1 : token[j] = "0"
      BY ONLY token \in Text, Len(token) > 0, <1>1, <2>1, <3>1, LeadingZeros
    <3>3. Last(token) = Figure[i]
      BY ONLY <3>2 DEF Last
    <3>4. QED BY ONLY <1>2, <3>2, <3>3 DEF NamesEntry
  <2>5. QED BY ONLY <2>3, <2>4
<1>5. QED
  BY ONLY <1>1, <1>3, <1>4

-----------------------------------------------------------------------------
\* The terminator takes nothing from a text and adds no key to it.
LEMMA TerminatedKeeps ==
    ASSUME NEW t \in Text, Len(t) >= 2
    PROVE  /\ Addressed(t) => Addressed(Terminated(t))
           /\ \A e \in 3 .. Len(Terminated(t)) - 1 :
                 Terminated(t)[e + 1] = ","
                   => /\ e \in 3 .. Len(t) - 1 /\ t[e + 1] = ","
                      /\ SubSeq(Terminated(t), 3, e) = SubSeq(t, 3, e)
<1> DEFINE T == Terminated(t)
           n == Len(t)
<1>1. n \in Nat /\ n >= 2
  BY TextIs
<1>2. CASE T = t
  <2>1. \A e \in 3 .. Len(T) - 1 : e \in 3 .. Len(t) - 1
    BY ONLY <1>2
  <2>2. QED BY ONLY <1>2, <2>1
<1>3. CASE T = Append(t, "!")
  <2>1. /\ T \in Text /\ Len(T) = n + 1
        /\ \A i \in 1 .. n : T[i] = t[i]
        /\ T[n + 1] = "!"
    <3>1. "!" \in Characters
      BY CharactersAre
    <3> DEFINE A == Append(t, "!")
    <3>2. /\ A \in Text /\ Len(A) = n + 1
          /\ \A i \in 1 .. n : A[i] = t[i]
          /\ A[n + 1] = "!"
      BY ONLY t \in Text, <3>1, AppendIs
    <3>3. T = A
      BY ONLY <1>3
    <3> HIDE DEF A, T, n
    <3>4. QED BY ONLY <3>2, <3>3
  <2> HIDE DEF T, n
  <2>2. Addressed(t) => Addressed(T)
    <3>1. 1 \in 1 .. n /\ 2 \in 1 .. n /\ Len(T) >= 2
      BY ONLY <1>1, <2>1
    <3>2. T[1] = t[1] /\ T[2] = t[2]
      BY ONLY <2>1, <3>1
    <3>3. QED BY ONLY <3>1, <3>2, Zenon DEF Addressed
  <2>3. ASSUME NEW e \in 3 .. Len(T) - 1, T[e + 1] = ","
        PROVE  /\ e \in 3 .. n - 1 /\ t[e + 1] = ","
               /\ SubSeq(T, 3, e) = SubSeq(t, 3, e)
    <3>1. e \in 3 .. n /\ (e = n => T[e + 1] = "!")
      <4>1. Len(T) = n + 1
        BY ONLY <2>1
      <4>2. e \in 3 .. n
        BY ONLY <1>1, <4>1
      <4>3. QED BY ONLY <4>2, <2>1
    <3>2. "!" # ","
      OBVIOUS
    <3>3. e # n
      BY ONLY <3>1, <3>2, <2>3, Zenon
    <3>4. e \in 3 .. n - 1 /\ e + 1 \in 1 .. n
      BY ONLY <1>1, <3>1, <3>3
    <3>5. t[e + 1] = ","
      BY ONLY <2>1, <2>3, <3>4
    <3> DEFINE a == SubSeq(T, 3, e)
               b == SubSeq(t, 3, e)
    <3>6. /\ a \in Text /\ Len(a) = (IF 3 <= e THEN e - 3 + 1 ELSE 0)
          /\ \A j \in 1 .. e - 3 + 1 : a[j] = T[3 + j - 1]
      <4>1. 3 \in 1 .. Len(T) + 1 /\ e \in 0 .. Len(T)
        BY ONLY <1>1, <2>1, <3>4
      <4>2. QED BY ONLY <2>1, <4>1, PartIs
    <3>7. /\ b \in Text /\ Len(b) = (IF 3 <= e THEN e - 3 + 1 ELSE 0)
          /\ \A j \in 1 .. e - 3 + 1 : b[j] = t[3 + j - 1]
      <4>1. 3 \in 1 .. Len(t) + 1 /\ e \in 0 .. Len(t)
        BY ONLY <1>1, <3>4 DEF n
      <4>2. QED BY ONLY t \in Text, <4>1, PartIs
    <3> HIDE DEF a, b
    <3>8. Len(a) = Len(b) /\ \A j \in 1 .. Len(a) : a[j] = b[j]
      <4>1. Len(a) = e - 3 + 1 /\ Len(b) = e - 3 + 1
        BY ONLY <3>4, <3>6, <3>7
      <4>2. \A j \in 1 .. e - 3 + 1 : 3 + j - 1 \in 1 .. n
        BY ONLY <1>1, <3>4
      <4>3. QED BY ONLY <4>1, <4>2, <3>6, <3>7, <2>1
    <3>9. a = b
      BY ONLY <3>6, <3>7, <3>8, SameText
    <3>10. QED BY ONLY <3>4, <3>5, <3>9 DEF a, b
  <2>4. QED BY ONLY <2>2, <2>3 DEF T, n
<1>4. QED
  BY <1>2, <1>3, TerminatedIs

\* A message is handled by HandleSms alone, and has an effect only if it is a
\* command of an owner that the translation lets through.
LEMMA HandledStep ==
    ASSUME [Next]_vars, Handled
    PROVE  /\ HandleSms
           /\ table' # table =>
                /\ Trimmed(message.text) # <<>> /\ Authorized(message.from)
                /\ Translate(Terminated(Trimmed(message.text))) # <<>>
                /\ Process(Translate(Terminated(Trimmed(message.text))))
<1>1. message # Nothing /\ message' = Nothing
  BY DEF Handled
<1>2. HandleSms
  <2>1. ~(UNCHANGED vars)
    BY <1>1 DEF vars
  <2>2. ASSUME NEW from \in Numbers, NEW text \in Messages, ReadSms(from, text)
        PROVE  FALSE
    BY <1>1, <2>2 DEF ReadSms
  <2>3. ASSUME NEW line \in Lines, Serial(line) PROVE FALSE
    BY <1>1, <2>3 DEF Serial
  <2>4. QED BY <2>1, <2>2, <2>3 DEF Next
<1>3. QED
  BY <1>2, Zenon DEF HandleSms, Rejected

\* A message that addresses a parameter changes the one that it names by its line
\* or its alias in the list, and no other.
THEOREM OnlyNamedLineChanges == Spec => OnlyTheNamedLineChanges
<1> DEFINE Goal == \A k \in Keys : table'[k] # table[k] =>
                      \E i \in DOMAIN ListMap :
                         ListMap[i].key = k /\ Names(Trimmed(message.text), i)
<1>1. ASSUME TypeInv, [Next]_vars, Handled, Addressed(Trimmed(message.text)),
             NEW k \in Keys, table'[k] # table[k]
      PROVE  \E i \in DOMAIN ListMap :
                ListMap[i].key = k /\ Names(Trimmed(message.text), i)
  <2> DEFINE t == Trimmed(message.text)
             T == Terminated(t)
             command == Translate(T)
  <2>1. TableOK /\ t \in Text
    BY <1>1, TrimmedIs DEF TypeInv, MessageOK
  <2>2. command # <<>> /\ Process(command)
    BY <1>1, HandledStep
  <2>3. Len(t) >= 2 /\ Addressed(t)
    BY <1>1 DEF Addressed
  <2> HIDE DEF t
  <2>4. T \in Text /\ Addressed(T)
    BY <2>1, <2>3, TerminatedIs, TerminatedKeeps
  <2>5. PICK i \in DOMAIN ListMap, e \in 2 .. Len(T) - 1 :
           /\ SubSeq(T, 3, e) # <<>> /\ i \in Entries(SubSeq(T, 3, e))
           /\ \/ command = GetLine(Decimal(ListMap[i].key))
              \/ \E v \in Text :
                    /\ T[e + 1] = "," /\ v # <<>>
                    /\ command = SetLine(Decimal(ListMap[i].key), v)
    <3> HIDE DEF T
    <3>1. \/ ~Addressed(T) /\ command = T
          \/ command = <<>>
          \/ \E i \in DOMAIN ListMap, e \in 2 .. Len(T) - 1 :
                /\ SubSeq(T, 3, e) # <<>> /\ i \in Entries(SubSeq(T, 3, e))
                /\ \/ command = GetLine(Decimal(ListMap[i].key))
                   \/ \E v \in Text :
                         /\ T[e + 1] = "," /\ v # <<>>
                         /\ command = SetLine(Decimal(ListMap[i].key), v)
      BY <2>4, TranslateCases
    <3>2. QED BY ONLY <2>2, <2>4, <3>1, Zenon
  <2> HIDE DEF command, T
  <2>6. Decimal(ListMap[i].key) \in Text
    BY DecimalIs
  <2>7. command # GetLine(Decimal(ListMap[i].key))
    <3>1. ASSUME command = GetLine(Decimal(ListMap[i].key)) PROVE FALSE
      <4>1. UNCHANGED table
        BY <2>2, <2>6, <3>1, ProcessGet
      <4>2. QED BY <4>1, <1>1
    <3>2. QED BY <3>1
  <2>8. PICK v \in Text : /\ T[e + 1] = "," /\ v # <<>>
                          /\ command = SetLine(Decimal(ListMap[i].key), v)
    BY <2>5, <2>7
  <2>9. ListMap[i].key = k
    <3>1. Process(SetLine(Decimal(ListMap[i].key), v))
      BY <2>2, <2>8
    <3>2. \A h \in Keys : table'[h] # table[h] => h = ListMap[i].key
      BY <2>1, <2>8, <3>1, ProcessSet
    <3>3. QED BY <3>2, <1>1
  <2>10. e \in 3 .. Len(T) - 1
    <3>1. e = 2 => SubSeq(T, 3, e) = <<>>
      <4>1. SubSeq(T, 3, 2) \in Text /\ Len(SubSeq(T, 3, 2)) = 0
        <5>1. Len(T) \in Nat /\ Len(T) >= 2
          BY <2>4, TextIs, Zenon DEF Addressed
        <5>2. 3 \in 1 .. Len(T) + 1 /\ 2 \in 0 .. Len(T) /\ ~(3 <= 2)
          BY ONLY <5>1
        <5>3. QED BY ONLY <2>4, <5>2, PartIs
      <4>2. QED BY <4>1, TextIs
    <3>2. e # 2
      BY ONLY <2>5, <3>1, Zenon
    <3>3. QED BY ONLY <3>2
  <2>11. /\ e \in 3 .. Len(t) - 1 /\ t[e + 1] = ","
         /\ SubSeq(T, 3, e) = SubSeq(t, 3, e)
    BY ONLY <2>1, <2>3, <2>8, <2>10, TerminatedKeeps DEF T
  <2>12. NamesEntry(SubSeq(t, 3, e), i)
    <3> DEFINE token == SubSeq(t, 3, e)
    <3>1. token \in Text /\ Len(token) > 0
      <4>0. e \in 3 .. Len(t) - 1
        BY ONLY <2>11
      <4>1. 3 \in 1 .. Len(t) + 1 /\ e \in 0 .. Len(t) /\ 3 <= e /\ e \in Int
        BY ONLY <4>0, <2>3
      <4>2. Len(token) = (IF 3 <= e THEN e - 3 + 1 ELSE 0) /\ token \in Text
        BY ONLY <2>1, <4>1, PartIs
      <4> HIDE DEF token
      <4>3. Len(token) > 0
        BY ONLY <4>1, <4>2
      <4>4. QED BY <4>2, <4>3
    <3>2. i \in Entries(token)
      BY <2>5, <2>11
    <3> HIDE DEF token
    <3>3. NamesEntry(token, i)
      BY ONLY <3>1, <3>2, EntryNamed
    <3>4. QED BY <3>3 DEF token
  <2>13. Names(t, i)
    BY ONLY <2>11, <2>12 DEF Names
  <2>14. QED BY <2>9, <2>13 DEF t
<1>2. TypeInv /\ [Next]_vars
        => [Handled /\ Addressed(Trimmed(message.text)) => Goal]_vars
  BY <1>1
<1>3. QED
  BY <1>2, TypeInvariant, PTL DEF Spec, OnlyTheNamedLineChanges

-----------------------------------------------------------------------------
\* A number of the same subscriber is authorized where its forms fit.

\* A leading + is kept.
LEMMA PlusKept ==
    ASSUME NEW t \in Text, Len(t) > 0, t[1] = "+"
    PROVE  Sanitized(t) # <<>> /\ Sanitized(t)[1] = "+"
<1> DEFINE n == Len(t)
<1>1. PICK f : IsKept(f, t) /\ Sanitized(t) = f[Len(t)]
  BY SanitizedSteps
<1>2. n \in Nat /\ n > 0 /\ \A i \in 1 .. n : t[i] \in Characters
  BY TextIs
<1>3. /\ f \in [0 .. n -> PhoneTexts] /\ f[0] = <<>>
      /\ \A i \in 1 .. n : f[i] = KeptAfter(f[i - 1], t[i])
  BY <1>1 DEF IsKept
<1>4. Sanitized(t) = f[n]
  BY <1>1
<1> HIDE DEF n
<1> DEFINE Good(o) == Len(o) > 0 /\ o[1] = "+"
           T == {m \in Nat : m >= 1 => Good(f[m])}
<1>5. 0 \in T
  <2>1. ~(0 >= 1)
    OBVIOUS
  <2> HIDE DEF Good
  <2>2. QED BY ONLY <2>1
<1>6. \A m \in 0 .. n - 1 : m \in T => m + 1 \in T
  <2> SUFFICES ASSUME NEW m \in 0 .. n - 1, m \in T PROVE Good(f[m + 1])
    OBVIOUS
  <2> DEFINE o == f[m]
             c == t[m + 1]
  <2>1. m + 1 \in 1 .. n /\ m \in 0 .. n /\ (m + 1) - 1 = m /\ m \in Nat
    BY ONLY <1>2
  <2>2. f[m + 1] = KeptAfter(o, c) /\ o \in PhoneTexts /\ c \in Characters
    BY ONLY <2>1, <1>2, <1>3
  <2>3. o \in Text /\ Len(o) \in Nat
    BY <2>2, TextIs DEF PhoneTexts
  <2>4. CASE m = 0
    <3>1. f[1] = KeptAfter(<<>>, "+")
      BY <2>2, <2>4, <1>3
    <3>2. Len(<<>>) < MaxPhone - 1
      BY BufferSizes
    <3>3. KeptAfter(<<>>, "+") = Append(<<>>, "+")
      BY ONLY <3>2 DEF KeptAfter
    <3>4. Good(<<"+">>)
      OBVIOUS
    <3>5. QED BY <3>1, <3>3, <3>4, <2>4
  <2>5. CASE m # 0
    <3>1. m >= 1
      BY ONLY <2>1, <2>5
    <3>2. Good(o)
      BY <3>1
    <3>3. KeptAfter(o, c) = o \/ KeptAfter(o, c) = Append(o, c)
      BY Zenon DEF KeptAfter
    <3>4. Good(Append(o, c))
      <4> DEFINE a == Append(o, c)
      <4> HIDE DEF o, c
      <4>1. Len(a) = Len(o) + 1 /\ \A j \in 1 .. Len(o) : a[j] = o[j]
        BY ONLY <2>2, <2>3, AppendIs
      <4> HIDE DEF a
      <4>2. Len(a) > 0 /\ 1 \in 1 .. Len(o)
        <5>1. Len(o) > 0
          BY ONLY <3>2
        <5>2. QED BY ONLY <4>1, <5>1, <2>3
      <4>3. a[1] = "+"
        BY ONLY <3>2, <4>1, <4>2
      <4>4. QED BY ONLY <4>2, <4>3 DEF a
    <3> HIDE DEF o, c, Good
    <3>5. QED BY ONLY <2>2, <3>2, <3>3, <3>4
  <2>6. QED BY ONLY <2>4, <2>5
<1>7. \A m \in 0 .. n : m \in T
  <2> HIDE DEF T
  <2>1. QED BY ONLY <1>2, <1>5, <1>6, BoundedInduction
<1>8. n \in 0 .. n /\ n >= 1
  BY ONLY <1>2
<1>9. Good(f[n])
  <2> HIDE DEF Good
  <2>1. QED BY ONLY <1>7, <1>8
<1>10. Len(f[n]) > 0 /\ f[n][1] = "+"
  BY ONLY <1>9
<1>11. f[n] = <<>> => Len(f[n]) = 0
  BY TextIs
<1>12. f[n] # <<>>
  BY ONLY <1>10, <1>11
<1>13. QED
  BY ONLY <1>4, <1>10, <1>12

\* The number with its +, national or abroad, is one of its forms.
LEMMA FormIs ==
    ASSUME NEW t \in Text, Sanitized(t) # <<>>, NEW x,
           x \in {<<"+">> \o Bare(Sanitized(t)), <<"+">> \o Abroad(Sanitized(t))},
           Len(x) < MaxPhone
    PROVE  x \in Candidates(t)
<1> DEFINE n == Sanitized(t)
<1>1. n \in Text /\ n # <<>>
  BY SanitizedIs DEF PhoneTexts
<1>2. Candidates(t) = IF Head(n) = "+" THEN {n}
                      ELSE Short({n, <<"+">> \o n}
                             \cup IF Head(n) = "0" /\ Len(n) > 1
                                    THEN {<<"+">> \o CC \o Tail(n)} ELSE {})
  BY <1>1 DEF Candidates
<1>3. x = <<"+">> \o Bare(n) \/ x = <<"+">> \o Abroad(n)
  OBVIOUS
<1> HIDE DEF n
<1>4. Head(n) = n[1] /\ Tail(n) \in Text
  BY <1>1, TailIs
<1>5. CASE Head(n) = "+"
  <2>1. Bare(n) = Tail(n)
    BY <1>1, <1>5 DEF Bare
  <2>2. Abroad(n) = Tail(n)
    BY <1>4, <1>5, <2>1 DEF Abroad, National
  <2>3. <<"+">> \o Tail(n) = n
    <3> DEFINE y == <<"+">> \o Tail(n)
    <3>1. y \in Text /\ y # <<>> /\ Head(y) = "+" /\ Tail(y) = Tail(n)
          /\ Len(y) = Len(Tail(n)) + 1
      BY <1>4, PlusIs
    <3> HIDE DEF y
    <3>2. /\ Len(Tail(n)) = Len(n) - 1 /\ Len(n) \in Nat /\ Len(y) = Len(n)
          /\ \A j \in 1 .. Len(n) - 1 : Tail(n)[j] = n[j + 1]
      <4>1. Len(Tail(n)) = Len(n) - 1 /\ Len(n) \in Nat
            /\ \A j \in 1 .. Len(n) - 1 : Tail(n)[j] = n[j + 1]
        BY <1>1, TailIs, TextIs
      <4>2. Len(y) = Len(Tail(n)) + 1
        BY <3>1
      <4>3. QED BY ONLY <4>1, <4>2
    <3>3. /\ \A j \in 1 .. Len(y) - 1 : Tail(y)[j] = y[j + 1]
          /\ y[1] = "+"
      BY ONLY <3>1, TailIs
    <3>4. \A j \in 1 .. Len(y) : y[j] = n[j]
      <4> TAKE j \in 1 .. Len(y)
      <4>1. CASE j = 1
        BY ONLY <4>1, <3>3, <1>4, <1>5
      <4>2. CASE j # 1
        <5>1. j - 1 \in 1 .. Len(y) - 1 /\ (j - 1) + 1 = j /\ j - 1 \in 1 .. Len(n) - 1
          BY ONLY <4>2, <3>2
        <5>2. Tail(y)[j - 1] = y[j] /\ Tail(n)[j - 1] = n[j]
          BY ONLY <5>1, <3>2, <3>3
        <5>3. QED BY ONLY <5>2, <3>1
      <4>3. QED BY ONLY <4>1, <4>2
    <3>5. y = n
      BY ONLY <1>1, <3>1, <3>2, <3>4, SameText
    <3>6. QED BY <3>5 DEF y
  <2>4. QED BY <1>2, <1>3, <1>5, <2>1, <2>2, <2>3
<1>6. CASE Head(n) # "+"
  <2>1. Bare(n) = n
    BY <1>6 DEF Bare
  <2>2. CASE National(n)
    <3>1. Head(n) = "0" /\ Len(n) > 1 /\ Abroad(n) = CC \o Tail(n)
      BY <1>4, <2>1, <2>2 DEF National, Abroad
    <3>2. <<"+">> \o CC \o Tail(n) = <<"+">> \o (CC \o Tail(n))
      <4>1. <<"+">> \in Text /\ CC \in Text
        BY CountryCodeIs, CharactersAre, OneIs
      <4>2. QED BY <1>4, <4>1, ConcatAssociative, SMTT(30) DEF Text
    <3>3. x \in {n, <<"+">> \o n} \cup {<<"+">> \o CC \o Tail(n)}
      BY ONLY <1>3, <2>1, <3>1, <3>2, Zenon
    <3>4. Candidates(t) = Short({n, <<"+">> \o n} \cup {<<"+">> \o CC \o Tail(n)})
      BY ONLY <1>2, <1>6, <3>1, Zenon
    <3>5. QED BY <3>3, <3>4 DEF Short
  <2>3. CASE ~National(n)
    <3>1. Abroad(n) = n
      BY <2>1, <2>3 DEF Abroad
    <3>2. x = <<"+">> \o n
      BY <1>3, <2>1, <3>1
    <3>3. QED BY <1>2, <1>6, <3>2 DEF Short
  <2>4. QED BY <2>2, <2>3
<1>7. QED
  BY <1>5, <1>6

\* The international form of a number that leaves room for the country code
\* fits the buffer of a candidate.
LEMMA FormFits ==
    ASSUME NEW from \in Text, Sanitized(from) # <<>>,
           Len(Sanitized(from)) + Len(CC) < MaxPhone \/ Head(from) = "+"
    PROVE  /\ Len(<<"+">> \o Bare(Sanitized(from))) < MaxPhone
           /\ Len(<<"+">> \o Abroad(Sanitized(from))) < MaxPhone
<1> DEFINE n == Sanitized(from)
<1>1. n \in Text /\ n # <<>> /\ Len(n) \in Nat /\ Len(n) < MaxPhone
  BY SanitizedIs, TextIs DEF PhoneTexts
<1>2. from # <<>> => Len(from) > 0 /\ Head(from) = from[1]
  BY TextIs, TailIs
<1>3. from # <<>>
  <2>1. Sanitized(<<>>) = <<>>
    <3>1. PICK f : IsKept(f, <<>>) /\ Sanitized(<<>>) = f[Len(<<>>)]
      BY TextIs, SanitizedSteps
    <3>2. f[0] = <<>> /\ Len(<<>>) = 0
      BY <3>1 DEF IsKept
    <3>3. QED BY <3>1, <3>2
  <2>2. QED BY <2>1
<1>4. Head(from) = "+" => n[1] = "+"
  BY <1>2, <1>3, PlusKept
<1>5. n[1] = "+" \/ Len(n) + Len(CC) < MaxPhone
  BY <1>4
<1> HIDE DEF n
<1>6. Head(n) = n[1] /\ Tail(n) \in Text /\ Len(Tail(n)) = Len(n) - 1
  BY <1>1, TailIs
<1>7. Len(CC) \in Nat /\ Len(CC) > 0 /\ MaxPhone \in Nat
  BY CountryCodeIs, BufferSizes
<1>8. CASE n[1] = "+"
  <2>1. Bare(n) = Tail(n)
    BY <1>1, <1>6, <1>8 DEF Bare
  <2>2. Abroad(n) = Tail(n)
    BY <1>8, <2>1 DEF Abroad, National
  <2>3. Len(<<"+">> \o Tail(n)) = Len(Tail(n)) + 1
    BY <1>6, PlusIs
  <2> DEFINE y == <<"+">> \o Tail(n)
  <2> HIDE DEF y
  <2>4. Len(y) < MaxPhone
    BY ONLY <1>1, <1>6, <1>7, <2>3 DEF y
  <2>5. QED BY ONLY <2>1, <2>2, <2>4 DEF y, n
<1>9. CASE n[1] # "+"
  <2>1. Bare(n) = n
    BY <1>6, <1>9 DEF Bare
  <2>2. Abroad(n) = CC \o Tail(n) \/ Abroad(n) = n
    BY <2>1 DEF Abroad
  <2>3. Len(<<"+">> \o n) = Len(n) + 1
    BY <1>1, PlusIs
  <2>4. Len(<<"+">> \o (CC \o Tail(n))) = Len(CC) + Len(Tail(n)) + 1
    <3> DEFINE z == CC \o Tail(n)
    <3>1. z \in Text /\ Len(z) = Len(CC) + Len(Tail(n))
      BY <1>6, CountryCodeIs, ConcatIs
    <3> HIDE DEF z
    <3>2. Len(<<"+">> \o z) = Len(z) + 1
      BY <3>1, PlusIs
    <3>3. QED BY ONLY <3>1, <3>2 DEF z
  <2> DEFINE y == <<"+">> \o n
             z == <<"+">> \o (CC \o Tail(n))
  <2> HIDE DEF y, z
  <2>5. Len(n) + Len(CC) < MaxPhone
    BY <1>5, <1>9
  <2>6. Len(y) < MaxPhone /\ Len(z) < MaxPhone
    BY ONLY <1>1, <1>6, <1>7, <2>3, <2>4, <2>5 DEF y, z
  <2>7. QED BY ONLY <2>1, <2>2, <2>6 DEF y, z, n
<1>10. QED
  BY <1>8, <1>9

\* Every owner whose number leaves that room is heard: no form too few.
LEMMA OwnerIsAuthorized ==
    ASSUME TypeInv, IsOwner(message.from),
           Len(Sanitized(message.from)) + Len(CC) < MaxPhone \/ Head(message.from) = "+"
    PROVE  Authorized(message.from)
<1> DEFINE a == message.from
<1>1. PICK k \in PhoneKeys : SameSubscriber(a, table[k])
  BY DEF IsOwner
<1> DEFINE b == table[k]
<1>2. a \in Text /\ b \in Text
  <2>1. k \in Keys /\ k \in StringKeys
    BY KeysAre
  <2>2. table[k] \in ValuesOf(k) /\ message.from \in Text
    BY <2>1, Zenon DEF TypeInv, TableOK, MessageOK
  <2>3. QED BY <2>1, <2>2, Zenon DEF ValuesOf
<1>3. /\ Sanitized(a) # <<>> /\ Sanitized(b) # <<>>
      /\ \/ Bare(Sanitized(a)) = Bare(Sanitized(b))
         \/ Abroad(Sanitized(a)) = Abroad(Sanitized(b))
  BY <1>1, FormsOf DEF SameSubscriber
<1> HIDE DEF b
<1>4. /\ Len(<<"+">> \o Bare(Sanitized(a))) < MaxPhone
      /\ Len(<<"+">> \o Abroad(Sanitized(a))) < MaxPhone
  BY <1>2, <1>3, FormFits
<1> HIDE DEF a
<1> DEFINE x == <<"+">> \o Bare(Sanitized(a))
           y == <<"+">> \o Abroad(Sanitized(a))
<1>5. x \in Candidates(a) /\ y \in Candidates(a)
  BY <1>2, <1>3, <1>4, FormIs
<1>6. x \in Candidates(b) \/ y \in Candidates(b)
  BY <1>2, <1>3, <1>4, FormIs
<1>7. Candidates(a) \cap Candidates(b) # {}
  BY <1>5, <1>6
<1>8. QED
  BY <1>1, <1>7 DEF Authorized, a, b

-----------------------------------------------------------------------------
\* The translation of a text that sets a line of the list

\* A text taken apart where it was put together.
LEMMA SplitIs ==
    ASSUME NEW a \in Text, NEW r \in Text
    PROVE  /\ SubSeq(a \o r, 1, Len(a)) = a
           /\ SubSeq(a \o r, Len(a) + 1, Len(a \o r)) = r
<1> DEFINE t == a \o r
           m == Len(a)
           n == Len(r)
<1>1. /\ t \in Text /\ Len(t) = m + n
      /\ \A i \in 1 .. m : t[i] = a[i]
      /\ \A i \in 1 .. n : t[m + i] = r[i]
  BY ConcatIs
<1>2. m \in Nat /\ n \in Nat
  BY TextIs
<1> HIDE DEF t, m, n
<1>3. SubSeq(t, 1, m) = a
  <2> DEFINE x == SubSeq(t, 1, m)
  <2>1. /\ x \in Text /\ Len(x) = (IF 1 <= m THEN m - 1 + 1 ELSE 0)
        /\ \A i \in 1 .. m - 1 + 1 : x[i] = t[1 + i - 1]
    <3>1. 1 \in 1 .. Len(t) + 1 /\ m \in 0 .. Len(t)
      BY ONLY <1>1, <1>2
    <3>2. QED BY ONLY <1>1, <3>1, PartIs
  <2> HIDE DEF x
  <2>2. Len(x) = m
    BY ONLY <1>2, <2>1
  <2>3. \A i \in 1 .. m : i \in 1 .. m - 1 + 1 /\ 1 + i - 1 = i
    BY ONLY <1>2
  <2>4. \A i \in 1 .. m : x[i] = a[i]
    BY ONLY <2>1, <2>3, <1>1
  <2>5. x = a
    BY ONLY <2>1, <2>2, <2>4, a \in Text, SameText DEF m
  <2>6. QED BY <2>5 DEF x
<1>4. SubSeq(t, m + 1, Len(t)) = r
  <2> DEFINE k == m + 1
             l == Len(t)
             x == SubSeq(t, k, l)
  <2>1. l = m + n /\ k = m + 1
    BY ONLY <1>1
  <2> HIDE DEF k, l
  <2>2. /\ x \in Text /\ Len(x) = (IF k <= l THEN l - k + 1 ELSE 0)
        /\ \A i \in 1 .. l - k + 1 : x[i] = t[k + i - 1]
    <3>1. k \in 1 .. Len(t) + 1 /\ l \in 0 .. Len(t)
      BY ONLY <1>1, <1>2, <2>1
    <3>2. QED BY ONLY <1>1, <3>1, PartIs
  <2> HIDE DEF x
  <2>3. Len(x) = n
    BY ONLY <1>2, <2>1, <2>2
  <2>4. \A i \in 1 .. n : i \in 1 .. l - k + 1 /\ k + i - 1 = m + i
    BY ONLY <1>2, <2>1
  <2>5. \A i \in 1 .. n : x[i] = r[i]
    BY ONLY <2>2, <2>4, <1>1
  <2>6. x = r
    BY ONLY <2>2, <2>3, <2>5, r \in Text, SameText DEF n
  <2>7. QED BY <2>6 DEF x, k, l
<1>5. QED
  BY <1>3, <1>4 DEF t, m

\* A field ends where the first terminator was put.
LEMMA FieldOf ==
    ASSUME NEW a \in Text, NEW r \in Text, NEW ends, Len(r) > 0, r[1] \in ends,
           \A j \in 1 .. Len(a) : a[j] \notin ends
    PROVE  Field(a \o r, ends).is = a /\ Field(a \o r, ends).rest = r
<1> DEFINE t == a \o r
           m == Len(a)
           n == Len(r)
<1>1. /\ t \in Text /\ Len(t) = m + n
      /\ \A i \in 1 .. m : t[i] = a[i]
      /\ \A i \in 1 .. n : t[m + i] = r[i]
  BY ConcatIs
<1>2. m \in Nat /\ n \in Nat /\ n > 0
  BY TextIs
<1>3. SubSeq(t, 1, m) = a /\ SubSeq(t, m + 1, Len(t)) = r
  BY SplitIs
<1> HIDE DEF t
<1>4. PICK e \in 1 .. Len(t) + 1 :
         /\ Field(t, ends).is = SubSeq(t, 1, e - 1)
         /\ Field(t, ends).rest = SubSeq(t, e, Len(t))
         /\ \A j \in 1 .. e - 1 : t[j] \notin ends
         /\ e = Len(t) + 1 \/ t[e] \in ends
  BY <1>1, FieldIs
<1>5. \A j \in 1 .. m : t[j] \notin ends
  BY <1>1
<1>6. t[m + 1] \in ends
  <2>1. 1 \in 1 .. n
    BY ONLY <1>2
  <2>2. t[m + 1] = r[1]
    BY ONLY <1>1, <2>1
  <2>3. QED BY <2>2
<1> HIDE DEF m, n
<1>7. e = m + 1
  <2>1. ~(e <= m)
    <3>1. ASSUME e <= m PROVE FALSE
      <4>1. e \in 1 .. m /\ e # Len(t) + 1
        BY ONLY <1>1, <1>2, <3>1
      <4>2. QED BY ONLY <4>1, <1>4, <1>5
    <3>2. QED BY <3>1
  <2>2. ~(m + 1 <= e - 1)
    <3>1. ASSUME m + 1 <= e - 1 PROVE FALSE
      <4>1. m + 1 \in 1 .. e - 1
        BY ONLY <1>2, <3>1
      <4>2. QED BY ONLY <4>1, <1>4, <1>6
    <3>2. QED BY <3>1
  <2>3. e \in Int /\ m \in Int
    BY ONLY <1>1, <1>2
  <2>4. QED BY ONLY <2>1, <2>2, <2>3
<1>8. e - 1 = m
  BY ONLY <1>2, <1>7
<1>9. QED
  BY ONLY <1>3, <1>4, <1>7, <1>8 DEF t

\* The ways to write line i fit key_token and name that line alone.
LEMMA NamesOfAre ==
    ASSUME NEW i \in DOMAIN ListMap, NEW name \in NamesOf(i)
    PROVE  /\ name \in Text /\ Len(name) = 1
           /\ name[1] = Figure[i] \/ name[1] = ListMap[i].alias
           /\ name[1] \notin {",", "!", " "}
           /\ Size(name) >= 1 /\ Size(name) <= 6 /\ Size(name) \in Nat
           /\ Entries(name) = {i}
<1>1. /\ i \in 0 .. 9 /\ ListMap[i].alias \in Characters
      /\ ListMap[i].alias \notin Figures \cup {",", "!", " ", "+", "-"}
      /\ \A j \in DOMAIN ListMap : /\ j \in 0 .. 9
                                   /\ ListMap[j].alias \notin Figures
                                   /\ ListMap[j].alias = ListMap[i].alias => j = i
  BY EntryFacts
<1>2. Figure[i] \in Figures /\ Digit[Figure[i]] = i /\ Figure[i] \in Characters
  BY <1>1, DigitIs, CharactersAre
<1> DEFINE c == name[1]
<1>3. /\ name = <<c>> /\ c \in Characters
      /\ c = Figure[i] \/ c = ListMap[i].alias
  <2>1. CASE name = <<Figure[i]>>
    <3>1. c = Figure[i]
      BY ONLY <2>1
    <3>2. QED BY ONLY <1>2, <2>1, <3>1
  <2>2. CASE name = <<ListMap[i].alias>>
    <3>1. c = ListMap[i].alias
      BY ONLY <2>2
    <3>2. QED BY ONLY <1>1, <2>2, <3>1
  <2>3. QED BY <2>1, <2>2 DEF NamesOf
<1> HIDE DEF c
<1>4. name \in Text /\ Len(name) = 1 /\ name[1] = c
  BY ONLY <1>3, OneIs
<1>5. c \notin {",", "!", " "}
  BY <1>1, <1>2, <1>3, FiguresAre
<1>6. Size(name) = Width(c) /\ Width(c) \in Nat /\ Width(c) >= 1
  BY ONLY <1>3, SizeOne, WidthPositive
<1>7. Width(c) <= 6
  <2>1. c = Figure[i] => Width(c) = 1
    BY <1>2, WidthIs
  <2>2. c = ListMap[i].alias => Width(c) <= 6
    BY WidthIs
  <2>3. QED BY ONLY <1>3, <2>1, <2>2
<1>8. ASSUME NEW j \in Entries(name) PROVE j = i
  <2>1. j \in DOMAIN ListMap
    BY DEF Entries
  <2>2. Len(name) > 0 /\ ~(Len(name) > 9)
    BY ONLY <1>4
  <2>3. NamesEntry(name, j)
    BY ONLY <1>4, <1>8, <2>2, EntryNamed
  <2>4. \/ name = <<ListMap[j].alias>>
        \/ Last(name) = Figure[j]
    BY ONLY <2>2, <2>3 DEF NamesEntry
  <2>5. Last(name) = c
    BY ONLY <1>4 DEF Last
  <2>6. CASE name = <<ListMap[j].alias>>
    <3>1. c = ListMap[j].alias
      BY ONLY <1>3, <2>6
    <3>2. QED BY ONLY <3>1, <1>1, <1>2, <1>3, <2>1, Zenon
  <2>7. CASE Last(name) = Figure[j]
    <3>1. c = Figure[j] /\ Figure[j] \in Figures /\ Digit[Figure[j]] = j
      BY <1>1, <2>1, <2>5, <2>7, DigitIs
    <3>2. c = Figure[i]
      BY ONLY <1>1, <1>3, <3>1, Zenon
    <3>3. QED BY ONLY <1>2, <3>1, <3>2
  <2>8. QED BY <2>4, <2>6, <2>7
<1>9. i \in Entries(name)
  <2>1. CASE c = ListMap[i].alias
    BY <1>3, <2>1 DEF Entries
  <2>2. CASE c = Figure[i]
    <3>1. \A j \in 1 .. Len(name) : IsDigit(name[j])
      <4>1. \A j \in 1 .. 1 : j = 1
        OBVIOUS
      <4>2. QED BY ONLY <4>1, <1>2, <1>4, <2>2 DEF IsDigit
    <3>2. Natural(name) = i
      <4>1. PICK f : IsValues(f, name) /\ Natural(name) = f[Len(name)]
        BY ONLY <1>4, NaturalSteps
      <4>2. f[1] = 10 * f[0] + Digit[c]
        <5>1. 1 \in 1 .. Len(name) /\ 1 - 1 = 0
          BY ONLY <1>4
        <5>2. \A j \in 1 .. 1 : IsDigit(name[j])
          BY ONLY <3>1, <1>4
        <5>3. QED BY ONLY <4>1, <5>1, <5>2, <1>4 DEF IsValues
      <4>3. f[0] = 0
        BY ONLY <4>1 DEF IsValues
      <4>4. Digit[c] = i
        BY ONLY <1>2, <2>2
      <4>5. f[1] = i
        <5>1. i \in 0 .. 9
          BY ONLY <1>1
        <5>2. QED BY ONLY <4>2, <4>3, <4>4, <5>1
      <4>6. QED BY ONLY <4>1, <4>5, <1>4
    <3>3. Atoi(name) = i
      <4>1. name # <<>>
        BY ONLY <1>4, TextIs, SMTT(30)
      <4>2. Atoi(name) = IF Natural(name) >= AtoiLimit THEN OutOfRange(name)
                                                      ELSE Natural(name)
        BY ONLY <1>4, <3>1, <4>1, AtoiDigits
      <4>3. ~(Natural(name) >= AtoiLimit)
        <5>1. i \in 0 .. 9
          BY ONLY <1>1
        <5>2. QED BY ONLY <3>2, <5>1, SMT DEF AtoiLimit
      <4>4. QED BY ONLY <3>2, <4>2, <4>3
    <3>4. \A j \in DOMAIN name : IsDigit(name[j])
      <4>1. DOMAIN name = 1 .. Len(name)
        BY ONLY <1>4, TextIs
      <4>2. QED BY ONLY <3>1, <4>1
    <3>5. QED BY ONLY <3>3, <3>4, i \in DOMAIN ListMap DEF Entries
  <2>3. QED BY <1>3, <2>1, <2>2
<1>10. Entries(name) = {i}
  BY ONLY <1>8, <1>9
<1>11. QED
  BY ONLY <1>3, <1>4, <1>5, <1>6, <1>7, <1>10

\* Texts are put together in any order.
LEMMA Associate ==
    ASSUME NEW s \in Text, NEW t \in Text, NEW u \in Text
    PROVE  (s \o t) \o u = s \o (t \o u)
<1> DEFINE S == Characters
<1>1. s \in Seq(S) /\ t \in Seq(S) /\ u \in Seq(S)
  BY DEF Text
<1> HIDE DEF S
<1>2. QED
  BY ONLY <1>1, ConcatAssociative, SMTT(30)

\* A command to set as its fields, from the left.
LEMMA LineParts ==
    ASSUME NEW a \in Characters, NEW n \in Text, NEW v \in Text
    PROVE  LET end == v \o <<"!">>
               more == <<",">> \o end
           IN  /\ Line(a, n, v) = <<a, ",">> \o (n \o more)
               /\ end \in Text /\ more \in Text /\ n \o more \in Text
               /\ Len(more) > 0 /\ more[1] = "," /\ more # <<>> /\ Tail(more) = end
<1> DEFINE g == <<a, ",">>
           c == <<",">>
           b == <<"!">>
           end == v \o b
           more == c \o end
<1>1. g \in Text /\ c \in Text /\ b \in Text
  BY PairIs, OneIs, CharactersAre
<1>2. end \in Text
  BY <1>1, ConcatIs
<1> HIDE DEF end
<1>3. /\ more \in Text /\ more # <<>> /\ Len(more) = Len(end) + 1
      /\ Tail(more) = end /\ more[1] = ","
  BY <1>2, CharactersAre, AheadIs
<1>4. Len(end) \in Nat
  BY <1>2, TextIs
<1>5. Len(more) > 0
  <2> HIDE DEF more
  <2>1. Len(more) = Len(end) + 1
    BY <1>3
  <2>2. QED BY ONLY <2>1, <1>4
<1> HIDE DEF more, g, b, c
<1>6. n \o more \in Text
  BY <1>3, ConcatIs
<1>7. ((g \o n) \o c) \o (v \o b) = (g \o n) \o (c \o (v \o b))
  <2>1. g \o n \in Text
    BY <1>1, ConcatIs
  <2>2. v \o b \in Text
    BY ONLY <1>2 DEF end
  <2> DEFINE x == g \o n
             y == v \o b
  <2> HIDE DEF x, y
  <2>3. x \in Text /\ y \in Text /\ c \in Text
    BY ONLY <1>1, <2>1, <2>2 DEF x, y
  <2>4. (x \o c) \o y = x \o (c \o y)
    BY ONLY <2>3, Associate, SMTT(30)
  <2>5. QED BY ONLY <2>4 DEF x, y
<1>8. (((g \o n) \o c) \o v) \o b = ((g \o n) \o c) \o (v \o b)
  <2>1. g \o n \in Text
    BY <1>1, ConcatIs
  <2>2. (g \o n) \o c \in Text
    BY <1>1, <2>1, ConcatIs
  <2> DEFINE x == (g \o n) \o c
  <2> HIDE DEF x
  <2>3. x \in Text /\ v \in Text /\ b \in Text
    BY <1>1, <2>2 DEF x
  <2>4. (x \o v) \o b = x \o (v \o b)
    BY ONLY <2>3, Associate, SMTT(30)
  <2>5. QED BY ONLY <2>4 DEF x
<1>9. (g \o n) \o more = g \o (n \o more)
  <2>1. g \in Text /\ n \in Text /\ more \in Text
    BY <1>1, <1>3
  <2>2. QED BY ONLY <2>1, Associate, SMTT(30)
<1>10. Line(a, n, v) = (((g \o n) \o c) \o v) \o b
  BY DEF Line, g, b, c
<1>11. Line(a, n, v) = g \o (n \o more)
  BY ONLY <1>7, <1>8, <1>9, <1>10 DEF more, end
<1>12. QED
  BY ONLY <1>2, <1>3, <1>5, <1>6, <1>11 DEF g, c, b, end, more

\* sms_translate_param_command: the line of the list becomes the number of its
\* parameter, the value stays.
LEMMA TranslateLine ==
    ASSUME NEW i \in DOMAIN ListMap, NEW name \in NamesOf(i), NEW a \in {"S", "s"},
           NEW v \in Text, Len(v) > 0, \A j \in 1 .. Len(v) : v[j] \notin {"!"}
    PROVE  Translate(Line(a, name, v)) = SetLine(Decimal(ListMap[i].key), v)
<1> DEFINE t == Line(a, name, v)
           g == <<a, ",">>
           b == <<"!">>
           end == v \o b
           more == <<",">> \o end
           u == SubSeq(t, 3, Len(t))
           key == Field(u, {",", "!"})
           value == Field(Tail(key.rest), {"!"})
           entries == Entries(key.is)
           number == Decimal(ListMap[CHOOSE j \in entries : TRUE].key)
<1>1. a \in Characters
  BY CharactersAre
<1>2. /\ name \in Text /\ Len(name) = 1 /\ name[1] \notin {",", "!"}
      /\ Size(name) <= 6 /\ Size(name) \in Nat /\ Entries(name) = {i}
  BY NamesOfAre
<1>3. /\ t = g \o (name \o more)
      /\ end \in Text /\ more \in Text /\ name \o more \in Text
      /\ Len(more) > 0 /\ more[1] = "," /\ more # <<>> /\ Tail(more) = end
  BY <1>1, <1>2, LineParts
<1>4. g \in Text /\ Len(g) = 2 /\ g[1] = a /\ g[2] = ","
      /\ b \in Text /\ Len(b) = 1 /\ b[1] = "!"
  BY <1>1, CharactersAre, PairIs, OneIs
<1>5. Translate(t) =
        IF ~Addressed(t) THEN t
        ELSE IF key.is = <<>> \/ Size(key.is) >= MaxKey \/ entries = {}
                  \/ key.rest = <<>>
          THEN Rejected
        ELSE IF t[1] \in {"G", "g"}
          THEN IF key.rest = <<"!">> THEN GetLine(number) ELSE Rejected
        ELSE IF key.rest[1] = "," /\ value.is # <<>> /\ value.rest = b
          THEN SetLine(number, value.is)
          ELSE Rejected
  BY DEF Translate, GetLine, SetLine, Line
<1> HIDE DEF t, g, b, end, more
<1>6. u = name \o more
  <2>1. SubSeq(g \o (name \o more), Len(g) + 1, Len(g \o (name \o more))) = name \o more
    BY <1>3, <1>4, SplitIs
  <2>2. Len(g) + 1 = 3
    <3>1. Len(g) = 2
      BY ONLY <1>4
    <3>2. QED BY ONLY <3>1
  <2>3. QED BY ONLY <1>3, <2>1, <2>2
<1>7. Addressed(t) /\ t[1] = a
  <2>1. /\ Len(t) = Len(g) + Len(name \o more)
        /\ \A j \in 1 .. Len(g) : t[j] = g[j]
    <3> DEFINE x == name \o more
    <3>1. x \in Text /\ g \in Text /\ t = g \o x
      BY ONLY <1>3, <1>4
    <3> HIDE DEF x
    <3>2. /\ Len(g \o x) = Len(g) + Len(x)
          /\ \A j \in 1 .. Len(g) : (g \o x)[j] = g[j]
      BY ONLY <3>1, ConcatIs
    <3>3. QED BY ONLY <3>1, <3>2 DEF x
  <2>2. Len(name \o more) \in Nat
    BY <1>3, TextIs
  <2> DEFINE l == Len(name \o more)
  <2> HIDE DEF l
  <2>3. Len(t) = 2 + l /\ l \in Nat
    BY ONLY <2>1, <2>2, <1>4 DEF l
  <2>4. Len(t) >= 2
    BY ONLY <2>3
  <2>5. 1 \in 1 .. Len(g) /\ 2 \in 1 .. Len(g)
    <3>1. Len(g) = 2
      BY <1>4
    <3>2. QED BY ONLY <3>1
  <2>6. t[1] = a /\ t[2] = ","
    BY ONLY <2>1, <2>5, <1>4
  <2>7. a \in {"S", "s"}
    OBVIOUS
  <2>8. QED BY ONLY <2>4, <2>6, <2>7 DEF Addressed
<1> HIDE DEF u
<1>8. key.is = name /\ key.rest = more
  <2> DEFINE ends == {",", "!"}
  <2>1. \A j \in 1 .. Len(name) : name[j] \notin ends
    <3>1. \A j \in 1 .. 1 : j = 1
      OBVIOUS
    <3>2. Len(name) = 1 /\ name[1] \notin ends
      BY <1>2
    <3> HIDE DEF ends
    <3>3. QED BY ONLY <3>1, <3>2
  <2>2. more[1] \in ends
    BY <1>3
  <2> HIDE DEF ends
  <2>3. Field(name \o more, ends).is = name /\ Field(name \o more, ends).rest = more
    <3>1. name \in Text /\ more \in Text /\ Len(more) > 0
      BY ONLY <1>2, <1>3
    <3>2. QED BY ONLY <2>1, <2>2, <3>1, FieldOf
  <2>4. QED BY ONLY <1>6, <2>3 DEF ends, key
<1> HIDE DEF key
<1>9. value.is = v /\ value.rest = b
  <2> DEFINE ends == {"!"}
  <2>1. \A j \in 1 .. Len(v) : v[j] \notin ends
    OBVIOUS
  <2>2. b[1] \in ends /\ Len(b) > 0
    <3>1. Len(b) = 1
      BY <1>4
    <3>2. Len(b) > 0
      BY ONLY <3>1
    <3>3. QED BY <1>4, <3>2
  <2> HIDE DEF ends
  <2>3. Field(v \o b, ends).is = v /\ Field(v \o b, ends).rest = b
    <3>1. v \in Text /\ b \in Text
      BY ONLY v \in Text, <1>4
    <3>2. QED BY ONLY <2>1, <2>2, <3>1, FieldOf
  <2>4. Tail(key.rest) = v \o b
    BY ONLY <1>3, <1>8 DEF end
  <2>5. QED BY ONLY <2>3, <2>4 DEF ends, value
<1>10. number = Decimal(ListMap[i].key) /\ entries # {}
  <2>1. entries = {i}
    BY ONLY <1>2, <1>8
  <2>2. (CHOOSE j \in {i} : TRUE) = i
    OBVIOUS
  <2>3. QED BY ONLY <2>1, <2>2
<1>11. key.is # <<>> /\ key.rest # <<>> /\ ~(Size(key.is) >= MaxKey)
  <2>1. name # <<>>
    <3>1. name = <<>> => Len(name) = 0
      BY TextIs
    <3>2. Len(name) = 1
      BY <1>2
    <3>3. QED BY ONLY <3>1, <3>2
  <2> DEFINE z == Size(name)
  <2>2. z <= 6 /\ z \in Nat
    BY <1>2
  <2>3. MaxKey \in Nat /\ MaxKey > 6
    BY BufferSizes
  <2> HIDE DEF z
  <2>4. ~(z >= MaxKey)
    BY ONLY <2>2, <2>3
  <2>5. QED BY ONLY <1>3, <1>8, <2>1, <2>4 DEF z
<1>12. v # <<>> /\ t[1] \notin {"G", "g"} /\ key.rest[1] = ","
  <2>1. v # <<>>
    BY TextIs
  <2>2. a \notin {"G", "g"}
    OBVIOUS
  <2>3. QED BY ONLY <2>1, <2>2, <1>3, <1>7, <1>8
<1> HIDE DEF value, entries, number
<1>13. QED
  BY ONLY <1>5, <1>7, <1>9, <1>10, <1>11, <1>12, Zenon DEF t

\* What is before the terminator, and the sizes.
Open(a, n, v) == <<a, ",">> \o n \o <<",">> \o v

\* The length of a letter and its comma.
LEMMA PairSize ==
    ASSUME NEW c \in Characters, NEW d \in Characters, Width(c) = 1, Width(d) = 1
    PROVE  Size(<<c, d>>) = 2
<1> DEFINE p == <<c>>
           q == <<d>>
           r == <<c, d>>
<1>1. /\ p \in Text /\ Len(p) = 1 /\ p[1] = c /\ q \in Text /\ Len(q) = 1 /\ q[1] = d
      /\ r \in Text /\ Len(r) = 2 /\ r[1] = c /\ r[2] = d
  BY OneIs, PairIs
<1>2. Size(p) = 1 /\ Size(q) = 1
  BY SizeOne
<1> HIDE DEF p, q, r
<1>3. r = p \o q
  <2>1. /\ p \o q \in Text /\ Len(p \o q) = Len(p) + Len(q)
        /\ \A j \in 1 .. Len(p) : (p \o q)[j] = p[j]
        /\ \A j \in 1 .. Len(q) : (p \o q)[Len(p) + j] = q[j]
    BY ONLY <1>1, ConcatIs
  <2> DEFINE x == p \o q
  <2> HIDE DEF x
  <2>2. Len(p) = 1 /\ Len(q) = 1 /\ Len(r) = 2
    BY ONLY <1>1
  <2>3. Len(x) = 2 /\ 1 \in 1 .. Len(p) /\ 1 \in 1 .. Len(q) /\ Len(p) + 1 = 2
    BY ONLY <2>1, <2>2 DEF x
  <2>4. x[1] = p[1] /\ x[2] = q[1]
    BY ONLY <2>1, <2>3 DEF x
  <2>5. \A j \in 1 .. 2 : j = 1 \/ j = 2
    OBVIOUS
  <2>6. \A j \in 1 .. Len(r) : r[j] = x[j]
    BY ONLY <1>1, <2>2, <2>4, <2>5
  <2>7. r = x
    BY ONLY <1>1, <2>1, <2>2, <2>3, <2>6, SameText, ZenonT(60) DEF x
  <2>8. QED BY <2>7 DEF x
<1>4. Size(p \o q) = Size(p) + Size(q)
  BY ONLY <1>1, SizeConcat
<1>5. Size(r) = 2
  BY ONLY <1>2, <1>3, <1>4
<1>6. QED
  BY <1>5 DEF r

\* The lengths and ends of a command to set before and after its terminator.
LEMMA OpenIs ==
    ASSUME NEW a \in {"S", "s"}, NEW n \in Text, NEW v \in Text, Len(v) > 0
    PROVE  LET w == Open(a, n, v)
           IN  /\ w \in Text /\ w # <<>> /\ w[1] = a /\ w[Len(w)] = v[Len(v)]
               /\ Size(w) = Size(n) + Size(v) + 3
               /\ Size(n) \in Nat /\ Size(v) \in Nat
               /\ Line(a, n, v) = Append(w, "!")
               /\ Line(a, n, v) \in Text /\ Line(a, n, v) # <<>>
               /\ Line(a, n, v)[1] = a
               /\ Line(a, n, v)[Len(Line(a, n, v))] = "!"
               /\ Size(Line(a, n, v)) = Size(w) + 1
<1> DEFINE g == <<a, ",">>
           c == <<",">>
           b == <<"!">>
           h == g \o n
           p == h \o c
           w == p \o v
           y == Append(w, "!")
<1>1. a \in Characters /\ "," \in Characters /\ "!" \in Characters
  BY CharactersAre
<1>2. Width(a) = 1 /\ Width(",") = 1 /\ Width("!") = 1
  BY WidthIs
<1>3. /\ g \in Text /\ Len(g) = 2 /\ g[1] = a
      /\ c \in Text /\ Len(c) = 1 /\ b \in Text
  BY <1>1, PairIs, OneIs
<1>4. Size(g) = 2 /\ Size(c) = 1 /\ Size(b) = 1
  BY <1>1, <1>2, PairSize, SizeOne
<1> HIDE DEF g, c
<1>5. /\ h \in Text /\ Len(h) = Len(g) + Len(n) /\ Size(h) = Size(g) + Size(n)
      /\ \A j \in 1 .. Len(g) : h[j] = g[j]
  BY ONLY <1>3, n \in Text, ConcatIs, SizeConcat, ZenonT(60)
<1>6. Size(n) \in Nat /\ Size(v) \in Nat
  BY SizeConcat
<1>7. Len(n) \in Nat /\ Len(v) \in Nat
  BY TextIs
<1> HIDE DEF h
<1>8. /\ p \in Text /\ Len(p) = Len(h) + Len(c) /\ Size(p) = Size(h) + Size(c)
      /\ \A j \in 1 .. Len(h) : p[j] = h[j]
  BY ONLY <1>3, <1>5, ConcatIs, SizeConcat, ZenonT(60)
<1> HIDE DEF p
<1>9. /\ w \in Text /\ Len(w) = Len(p) + Len(v) /\ Size(w) = Size(p) + Size(v)
      /\ \A j \in 1 .. Len(p) : w[j] = p[j]
      /\ \A j \in 1 .. Len(v) : w[Len(p) + j] = v[j]
  BY ONLY <1>8, v \in Text, ConcatIs, SizeConcat
<1> HIDE DEF w
<1>10. /\ Len(g) = 2 /\ Len(c) = 1 /\ Len(h) = Len(g) + Len(n)
       /\ Len(p) = Len(h) + Len(c) /\ Len(w) = Len(p) + Len(v)
       /\ Len(v) > 0
  BY <1>3, <1>5, <1>8, <1>9
<1>11. /\ 1 \in 1 .. Len(g) /\ 1 \in 1 .. Len(h) /\ 1 \in 1 .. Len(p)
       /\ 1 \in 1 .. Len(w) /\ Len(v) \in 1 .. Len(v) /\ Len(w) \in Nat
  BY ONLY <1>7, <1>10
<1>12. w[1] = a
  BY ONLY <1>3, <1>5, <1>8, <1>9, <1>11
<1>13. w[Len(w)] = v[Len(v)]
  BY ONLY <1>9, <1>11
<1>14. Size(w) = Size(n) + Size(v) + 3
  <2>1. /\ Size(g) = 2 /\ Size(c) = 1 /\ Size(h) = Size(g) + Size(n)
        /\ Size(p) = Size(h) + Size(c) /\ Size(w) = Size(p) + Size(v)
    BY <1>4, <1>5, <1>8, <1>9
  <2>2. QED BY ONLY <2>1, <1>6
<1>15. /\ y \in Text /\ Len(y) = Len(w) + 1
       /\ \A j \in 1 .. Len(w) : y[j] = w[j]
       /\ y[Len(w) + 1] = "!" /\ y = w \o b
  BY ONLY <1>1, <1>9, AppendIs
<1> HIDE DEF y, b
<1>16. y[1] = a /\ y[Len(y)] = "!"
  <2>1. y[1] = w[1]
    BY ONLY <1>11, <1>15
  <2>2. y[Len(y)] = y[Len(w) + 1]
    BY ONLY <1>15
  <2>3. QED BY ONLY <2>1, <2>2, <1>12, <1>15
<1>17. Size(y) = Size(w) + 1
  <2>1. Size(w \o b) = Size(w) + Size(b)
    BY ONLY <1>3, <1>9, SizeConcat
  <2>2. QED BY ONLY <2>1, <1>4, <1>15
<1>18. w # <<>> /\ y # <<>>
  <2>1. Len(w) > 0 /\ Len(w) + 1 > 0
    BY ONLY <1>11
  <2>2. Len(<<>>) = 0
    OBVIOUS
  <2>3. Len(y) = Len(w) + 1
    BY ONLY <1>15
  <2>4. QED BY ONLY <2>1, <2>2, <2>3
<1>19. Line(a, n, v) = y /\ Open(a, n, v) = w
  BY <1>15 DEF Line, Open, w, p, h, g, c, b
<1>20. QED
  BY ONLY <1>6, <1>9, <1>12, <1>13, <1>14, <1>15, <1>16, <1>17, <1>18, <1>19 DEF y

\* A translated key has one digit or two.
LEMMA DecimalSize ==
    ASSUME NEW i \in DOMAIN ListMap
    PROVE  Size(Decimal(ListMap[i].key)) \in {1, 2}
<1> DEFINE n == Decimal(ListMap[i].key)
<1>1. \/ \E d \in 0 .. 9 : n = <<Figure[d]>>
      \/ \E d \in 0 .. 9 : n = <<"1", Figure[d]>>
  BY DecimalIs
<1>2. \A d \in 0 .. 9 : Figure[d] \in Characters /\ Width(Figure[d]) = 1
  BY DigitIs, CharactersAre, WidthIs
<1>3. "1" \in Characters /\ Width("1") = 1
  BY <1>2, FigureIs
<1> HIDE DEF n
<1>4. ASSUME NEW d \in 0 .. 9, n = <<Figure[d]>> PROVE Size(n) = 1
  BY <1>2, <1>4, SizeOne
<1>5. ASSUME NEW d \in 0 .. 9, n = <<"1", Figure[d]>> PROVE Size(n) = 2
  BY <1>2, <1>3, <1>5, PairSize
<1>6. Size(n) = 1 \/ Size(n) = 2
  BY <1>1, <1>4, <1>5
<1>7. QED
  BY <1>6 DEF n

\* A text that sets a line of the list to a plain value reaches the parser, with
\* the number of the parameter and the value as it is.
LEMMA TextToSet ==
    ASSUME NEW i \in DOMAIN ListMap, NEW v \in Text, Plain(v),
           NEW text \in TextsToSet(i, v), Size(text) + 2 < MaxCommand
    PROVE  LET n == Decimal(ListMap[i].key)
           IN  /\ Trimmed(text) = text /\ text # <<>>
               /\ ~(Size(text) >= MaxCommand)
               /\ Translate(Terminated(text)) = SetLine(n, v)
               /\ SetLine(n, v) # <<>>
               /\ Size(SetLine(n, v)) < MaxCommand
<1> DEFINE n == Decimal(ListMap[i].key)
<1>1. /\ Len(v) > 0 /\ \A j \in 1 .. Len(v) : v[j] \notin {",", "!", " "}
  BY TextIs DEF Plain
<1>2. v[Len(v)] \notin {"!", " "}
  <2>1. Len(v) \in 1 .. Len(v)
    <3>1. Len(v) \in Nat /\ Len(v) > 0
      BY <1>1, TextIs
    <3>2. QED BY ONLY <3>1
  <2>2. QED BY <1>1, <2>1
<1>3. PICK a \in {"S", "s"}, end \in {<<>>, <<"!">>}, name \in NamesOf(i) :
         text = <<a, ",">> \o name \o <<",">> \o v \o end
  <2>1. \E a \in {"S", "s"}, end \in {<<>>, <<"!">>}, name \in NamesOf(i) :
           text = SettingText(a, name, v, end)
    BY DEF TextsToSet
  <2>2. QED BY ONLY <2>1 DEF SettingText
<1>4. name \in Text /\ Size(name) >= 1 /\ Size(name) \in Nat
  BY NamesOfAre
<1> DEFINE w == Open(a, name, v)
           y == Line(a, name, v)
<1>5. /\ w \in Text /\ w # <<>> /\ w[1] = a /\ w[Len(w)] = v[Len(v)]
      /\ Size(w) = Size(name) + Size(v) + 3 /\ Size(v) \in Nat
      /\ y = Append(w, "!") /\ y \in Text /\ y # <<>> /\ y[1] = a
      /\ y[Len(y)] = "!" /\ Size(y) = Size(w) + 1
  <2>1. name \in Text /\ Len(v) > 0 /\ v \in Text /\ a \in {"S", "s"}
    BY <1>1, <1>4
  <2>2. /\ w \in Text /\ w # <<>> /\ w[1] = a /\ w[Len(w)] = v[Len(v)]
        /\ Size(w) = Size(name) + Size(v) + 3
        /\ Size(name) \in Nat /\ Size(v) \in Nat
        /\ y = Append(w, "!")
        /\ y \in Text /\ y # <<>>
        /\ y[1] = a
        /\ y[Len(y)] = "!"
        /\ Size(y) = Size(w) + 1
    BY ONLY <2>1, OpenIs, ZenonT(60)
  <2>3. QED BY ONLY <2>2, Zenon
<1>6. text = w \/ text = y
  <2>1. CASE end = <<>>
    <3>1. text = w \o <<>>
      BY <1>3, <2>1 DEF Open
    <3>2. w \o <<>> = w
      BY <1>5, ConcatEmptySeq DEF Text
    <3>3. QED BY ONLY <3>1, <3>2
  <2>2. CASE end = <<"!">>
    BY <1>3, <2>2 DEF Line
  <2>3. QED BY <2>1, <2>2
<1> HIDE DEF w, y
<1>7. a # " " /\ "!" # " "
  OBVIOUS
<1>8. Trimmed(text) = text /\ text # <<>>
  BY <1>2, <1>5, <1>6, <1>7, TrimmedIs
<1>9. MaxCommand \in Nat
  BY BufferSizes
<1> DEFINE sw == Size(w) sn == Size(name) sv == Size(v) st == Size(text) sy == Size(y)
<1>10. /\ sw = sn + sv + 3 /\ sn >= 1 /\ sn \in Nat /\ sv \in Nat /\ sy = sw + 1
       /\ st = sw \/ st = sy
       /\ st + 2 < MaxCommand
  BY <1>4, <1>5, <1>6
<1> HIDE DEF sw, sn, sv, st, sy
<1>11. /\ ~(st >= MaxCommand) /\ ~(sw >= MaxCommand - 1) /\ sv + 6 < MaxCommand
  BY ONLY <1>9, <1>10
<1>12. Terminated(text) = y
  <2>1. CASE text = y
    BY <1>5, <2>1 DEF Terminated
  <2>2. CASE text = w
    <3>1. w[Len(w)] # "!"
      BY <1>2, <1>5
    <3>2. ~(Size(w) >= MaxCommand - 1)
      BY ONLY <1>11 DEF sw
    <3>3. QED BY <1>5, <2>2, <3>1, <3>2 DEF Terminated
  <2>3. QED BY <1>6, <2>1, <2>2
<1>13. Translate(y) = SetLine(n, v)
  <2>1. \A j \in 1 .. Len(v) : v[j] \notin {"!"}
    BY <1>1
  <2>2. QED BY <1>1, <2>1, TranslateLine DEF y
<1>14. n \in Text /\ Size(n) \in {1, 2}
  BY DecimalIs, DecimalSize
<1> HIDE DEF n
<1>15. SetLine(n, v) # <<>> /\ Size(SetLine(n, v)) = Size(n) + Size(v) + 3 + 1
  <2>1. "S" \in {"S", "s"}
    OBVIOUS
  <2>2. /\ Size(Open("S", n, v)) = Size(n) + Size(v) + 3
        /\ Line("S", n, v) # <<>>
        /\ Size(Line("S", n, v)) = Size(Open("S", n, v)) + 1
    <3>1. n \in Text /\ Len(v) > 0 /\ v \in Text
      BY <1>1, <1>14
    <3>2. QED BY ONLY <3>1, <2>1, OpenIs
  <2>3. QED BY ONLY <2>2 DEF SetLine
<1> DEFINE sl == Size(SetLine(n, v)) ss == Size(n)
<1> HIDE DEF sl, ss
<1>16. sl = ss + sv + 3 + 1 /\ ss \in {1, 2}
  BY ONLY <1>14, <1>15 DEF sl, ss, sv
<1>17. sl < MaxCommand
  BY ONLY <1>9, <1>10, <1>11, <1>16
<1>18. QED
  BY ONLY <1>8, <1>11, <1>12, <1>13, <1>15, <1>17 DEF n, st, sl

-----------------------------------------------------------------------------
\* The parser on a plain value

\* A relay is switched by the digits 0 and 1, which no conversion changes.
LEMMA SwitchIs ==
    ASSUME NEW v \in DOMAIN Switched
    PROVE  /\ v \in Text /\ Plain(v)
           /\ Switched[v] = Signed(Atoi(v), 2^8)
<1> DEFINE c == v[1]
<1>1. v \in {<<"0">>, <<"1">>} /\ Switched[v] = Digit[v[1]]
  BY DEF Switched
<1>2. v = <<c>> /\ c \in {"0", "1"}
  BY ONLY <1>1
<1>3. c \in Figures /\ c \in Characters
  BY <1>2, FiguresAre, CharactersAre
<1>4. Digit[c] \in {0, 1}
  <2>1. Digit[Figure[0]] = 0 /\ Digit[Figure[1]] = 1
    BY DigitIs
  <2>2. Figure[0] = "0" /\ Figure[1] = "1"
    BY FigureIs
  <2>3. QED BY ONLY <1>2, <2>1, <2>2
<1>5. c \notin {",", "!", " "}
  BY ONLY <1>2
<1> HIDE DEF c
<1>6. v \in Text /\ Len(v) = 1 /\ v[1] = c
  BY ONLY <1>2, <1>3, OneIs
<1>7. v # <<>> /\ DOMAIN v = 1 .. 1
  <2>1. v = <<>> => Len(v) = 0
    BY ONLY <1>6, TextIs
  <2>2. DOMAIN v = 1 .. Len(v)
    BY ONLY <1>6, TextIs
  <2>3. QED BY ONLY <1>6, <2>1, <2>2
<1>8. \A j \in 1 .. 1 : j = 1
  OBVIOUS
<1>9. Plain(v)
  BY ONLY <1>5, <1>6, <1>7, <1>8 DEF Plain
<1>10. Natural(v) = Digit[c]
  <2>1. PICK f : IsValues(f, v) /\ Natural(v) = f[Len(v)]
    BY ONLY <1>6, NaturalSteps
  <2>2. f[0] = 0 /\ f[1] = 10 * f[0] + Digit[c]
    <3>1. 1 \in 1 .. Len(v) /\ 1 - 1 = 0
      BY ONLY <1>6
    <3>2. \A j \in 1 .. 1 : IsDigit(v[j])
      BY ONLY <1>3, <1>6, <1>8 DEF IsDigit
    <3>3. QED BY ONLY <2>1, <3>1, <3>2, <1>6 DEF IsValues
  <2>3. f[1] = Digit[c]
    BY ONLY <2>2, <1>4
  <2>4. QED BY ONLY <2>1, <2>3, <1>6
<1>11. Atoi(v) = Digit[c]
  <2>1. \A j \in 1 .. Len(v) : IsDigit(v[j])
    BY ONLY <1>3, <1>6, <1>8 DEF IsDigit
  <2>2. Atoi(v) = IF Natural(v) >= AtoiLimit THEN OutOfRange(v) ELSE Natural(v)
    BY ONLY <1>6, <1>7, <2>1, AtoiDigits
  <2>3. ~(Natural(v) >= AtoiLimit)
    BY ONLY <1>4, <1>10, SMT DEF AtoiLimit
  <2>4. QED BY ONLY <1>10, <2>2, <2>3
<1>12. Signed(Atoi(v), 2^8) = Digit[c]
  <2>1. Atoi(v) = 0 => Signed(Atoi(v), 2^8) = 0
    BY ONLY SMT DEF Signed
  <2>2. Atoi(v) = 1 => Signed(Atoi(v), 2^8) = 1
    BY ONLY SMT DEF Signed
  <2>3. QED BY ONLY <1>4, <1>11, <2>1, <2>2, Zenon
<1>13. QED
  BY ONLY <1>1, <1>6, <1>9, <1>12, Zenon

\* A command that the translation gives sets its parameter to the value that was
\* written, and no other.
LEMMA ProcessValue ==
    ASSUME NEW i \in DOMAIN ListMap, NEW v \in Text, Plain(v), TableOK,
           Process(SetLine(Decimal(ListMap[i].key), v)),
           Size(SetLine(Decimal(ListMap[i].key), v)) < MaxCommand
    PROVE  table' = [table EXCEPT ![ListMap[i].key] = ValueFor(ListMap[i].key, v)]
<1> DEFINE k == ListMap[i].key
           n == Decimal(k)
           y == SetLine(n, v)
           w == Front(y)
           tokens == Tokens(w)
<1>1. n \in Text /\ Len(n) \in {1, 2} /\ KeyOf(n) = {k}
      /\ \A j \in 1 .. Len(n) : n[j] \in Figures
  BY KeyOfDecimal
<1>2. k \in Keys
  BY EntryFacts
<1> HIDE DEF k, n
<1>3. y \in Text /\ y # <<>> /\ y[Len(y)] = "!" /\ IsSet(w, "S", n, v) /\ w \in Text
  <2>1. y \in Text /\ y # <<>> /\ y[Len(y)] = "!" /\ IsSet(w, "S", n, v)
    BY <1>1, SetLineIs
  <2> HIDE DEF y
  <2>2. QED BY <2>1, FrontIs
<1>4. Len(n) > 0 /\ \A j \in 1 .. Len(n) : ~Comma(n[j])
  <2>1. \A c \in Figures : ~Comma(c)
    BY FiguresAre DEF Comma
  <2>2. Len(n) > 0
    <3>1. \A m \in {1, 2} : m > 0
      OBVIOUS
    <3>2. QED BY ONLY <1>1, <3>1, Zenon
  <2>3. QED BY <1>1, <2>1, <2>2
<1>5. Len(v) > 0 /\ \A j \in 1 .. Len(v) : ~Comma(v[j])
  <2>1. v # <<>> /\ \A j \in DOMAIN v : ~Comma(v[j])
    BY DEF Plain, Comma
  <2>2. DOMAIN v = 1 .. Len(v) /\ (v = <<>> \/ Len(v) > 0)
    BY TextIs
  <2>3. QED BY ONLY <2>1, <2>2
<1>6. Size(y) < MaxCommand /\ Process(y)
  BY DEF n, k
<1> HIDE DEF w
<1>7. Len(tokens) = 3 /\ tokens[2] = n /\ tokens[3] = v
  <2>1. w \in Text /\ IsSet(w, "S", n, v)
    BY ONLY <1>3
  <2>2. /\ Len(Tokens(w)) >= 2 /\ Tokens(w)[2] = n
        /\ Len(v) > 0 /\ (\A j \in 1 .. Len(v) : ~Comma(v[j]))
             => Len(Tokens(w)) = 3 /\ Tokens(w)[3] = v
    BY ONLY <1>1, <1>4, <2>1, v \in Text, SetTokens
  <2>3. QED BY ONLY <1>5, <2>2
<1>8. tokens[1][1] = "S"
  <2>1. w[1] = "S" /\ Len(w) = Len(n) + Len(v) + 3
    BY ONLY <1>3 DEF IsSet
  <2>2. ~Comma(w[1])
    BY ONLY <2>1 DEF Comma
  <2>3. Len(w) > 0
    <3>1. Len(n) \in Nat /\ Len(v) \in Nat
      BY <1>1, TextIs
    <3>2. Len(w) = Len(n) + Len(v) + 3
      BY ONLY <2>1
    <3>3. QED BY ONLY <3>1, <3>2
  <2>4. Tokens(w)[1][1] = w[1]
    BY ONLY <1>3, <2>2, <2>3, FirstToken
  <2>5. QED BY ONLY <2>1, <2>4
<1>9. (IF y # <<>> /\ y[Len(y)] = "!" THEN Front(y) ELSE y) = w
  BY ONLY <1>3 DEF w
<1> HIDE DEF y, tokens
<1>10. Size(y) < MaxCommand /\ Len(tokens) >= 3 /\ tokens[1][1] \in {"S", "s"}
         => table' = [h \in Keys |-> IF h \in KeyOf(tokens[2])
                                       THEN ValueFor(h, tokens[3]) ELSE table[h]]
  BY ONLY <1>6, <1>9 DEF Process, tokens
<1>11. Len(tokens) >= 3 /\ tokens[1][1] \in {"S", "s"}
  <2>1. Len(tokens) >= 3
    <3>1. Len(tokens) = 3
      BY ONLY <1>7
    <3>2. QED BY ONLY <3>1
  <2>2. QED BY ONLY <1>8, <2>1
<1>12. table' = [h \in Keys |-> IF h \in {k} THEN ValueFor(h, v) ELSE table[h]]
  BY ONLY <1>1, <1>6, <1>7, <1>10, <1>11, Zenon
<1>13. DOMAIN table = Keys
  BY DEF TableOK
<1>14. table' = [table EXCEPT ![k] = ValueFor(k, v)]
  BY ONLY <1>2, <1>12, <1>13
<1>15. QED
  BY <1>14 DEF k

\* An owner who sets a line of the list sets its parameter to what he wrote: the
\* translation passes the value on, the parser finds the parameter and the value
\* again, and none of the buffers between them is too short.
THEOREM OwnersSet == Spec => OwnersSetWhatIsListed
<1> DEFINE Effect(i, v) ==
             table' = [table EXCEPT ![ListMap[i].key] = ValueFor(ListMap[i].key, v)]
           Goal == \A i \in DOMAIN ListMap :
                     LET k == ListMap[i].key
                     IN  IF k \in PhoneKeys
                           THEN \A v \in Numbers :
                                  Plain(v) /\ message.text \in TextsToSet(i, v)
                                    => table' = [table EXCEPT ![k] = v]
                           ELSE \A v \in DOMAIN Switched :
                                  message.text \in TextsToSet(i, v)
                                    => table' = [table EXCEPT ![k] = Switched[v]]
<1>1. ASSUME TypeInv, [Next]_vars, Handled, IsOwner(message.from), Fits(message),
             NEW i \in DOMAIN ListMap, NEW v \in Text, Plain(v),
             message.text \in TextsToSet(i, v)
      PROVE  Effect(i, v)
  <2> DEFINE n == Decimal(ListMap[i].key)
             text == message.text
  <2>1. /\ Trimmed(text) = text /\ text # <<>>
        /\ ~(Size(text) >= MaxCommand)
        /\ Translate(Terminated(text)) = SetLine(n, v)
        /\ SetLine(n, v) # <<>>
        /\ Size(SetLine(n, v)) < MaxCommand
    <3>1. Size(text) + 2 < MaxCommand
      BY <1>1 DEF Fits
    <3> HIDE DEF text
    <3>2. text \in TextsToSet(i, v)
      BY <1>1 DEF text
    <3>3. QED BY ONLY <1>1, <3>1, <3>2, TextToSet
  <2>2. Authorized(message.from)
    BY <1>1, OwnerIsAuthorized DEF Fits
  <2>3. HandleSms
    BY <1>1, HandledStep
  <2>4. Process(SetLine(n, v))
    <3>1. \/ Size(message.text) >= MaxCommand \/ Trimmed(message.text) = <<>>
             \/ ~Authorized(message.from)
          \/ Translate(Terminated(Trimmed(message.text))) = <<>>
          \/ Process(Translate(Terminated(Trimmed(message.text))))
      BY <2>3, Zenon DEF HandleSms, Rejected
    <3> HIDE DEF n
    <3>2. QED BY ONLY <2>1, <2>2, <3>1, Zenon
  <2>5. TableOK
    BY <1>1 DEF TypeInv
  <2>6. QED BY ONLY <1>1, <2>1, <2>4, <2>5, ProcessValue
<1>2. ASSUME TypeInv, [Next]_vars, Handled, IsOwner(message.from), Fits(message)
      PROVE  Goal
  <2> SUFFICES ASSUME NEW i \in DOMAIN ListMap
               PROVE  IF ListMap[i].key \in PhoneKeys
                        THEN \A v \in Numbers :
                               Plain(v) /\ message.text \in TextsToSet(i, v)
                                 => table' = [table EXCEPT ![ListMap[i].key] = v]
                        ELSE \A v \in DOMAIN Switched :
                               message.text \in TextsToSet(i, v)
                                 => table' = [table EXCEPT ![ListMap[i].key] = Switched[v]]
    BY Zenon
  <2> DEFINE k == ListMap[i].key
  <2>1. PhoneKeys \subseteq StringKeys /\ PhoneKeys = {15, 16, 17}
        /\ StringKeys = {0, 1, 2, 15, 16, 17}
    BY KeysAre
  <2>2. k \in {6, 7, 8, 9, 10, 15, 16, 17}
    BY EntryFacts
  <2> HIDE DEF k
  <2>3. ASSUME NEW v \in Numbers, k \in PhoneKeys, Plain(v),
               message.text \in TextsToSet(i, v)
        PROVE  table' = [table EXCEPT ![k] = v]
    <3>1. v \in Text
      BY SmsCommandAssumption
    <3>2. table' = [table EXCEPT ![k] = ValueFor(k, v)]
      BY ONLY <1>1, <1>2, <2>3, <3>1 DEF k
    <3>3. ValueFor(k, v) = v
      BY ONLY <2>1, <2>3 DEF ValueFor
    <3>4. QED BY ONLY <3>2, <3>3
  <2>4. ASSUME NEW v \in DOMAIN Switched, k \notin PhoneKeys,
               message.text \in TextsToSet(i, v)
        PROVE  table' = [table EXCEPT ![k] = Switched[v]]
    <3>1. v \in Text /\ Plain(v) /\ Switched[v] = Signed(Atoi(v), 2^8)
      BY SwitchIs
    <3>2. table' = [table EXCEPT ![k] = ValueFor(k, v)]
      BY ONLY <1>1, <1>2, <2>4, <3>1 DEF k
    <3>3. k \notin StringKeys /\ k # 3
      BY ONLY <2>1, <2>2, <2>4
    <3>4. ValueFor(k, v) = Signed(Atoi(v), 2^8)
      BY ONLY <3>3, Zenon DEF ValueFor
    <3>5. QED BY ONLY <3>1, <3>2, <3>4, Zenon
  <2>5. QED BY <2>3, <2>4, Zenon DEF k
<1>3. TypeInv /\ [Next]_vars
        => [Handled /\ IsOwner(message.from) /\ Fits(message) => Goal]_vars
  <2> HIDE DEF Goal
  <2>1. QED BY <1>2
<1>4. QED
  BY <1>3, TypeInvariant, PTL DEF Spec, OwnersSetWhatIsListed
=============================================================================
