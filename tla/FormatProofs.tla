---------------------------- MODULE FormatProofs -----------------------------
(***************************************************************************)
(* snprintf and vfprintf keep to their arrays, and the interpreters write  *)
(* what a format means, for every format, argument and size and integers   *)
(* of any width.                                                           *)
(*                                                                         *)
(* Text is shown to be made of characters, and so to go where it belongs   *)
(* (IInv).  For what it says, Meaning is turned into what is left to say   *)
(* from an index on (RestIs), the parts of a directive into what the       *)
(* scanner has at an index of it (Within), and a conversion into what the  *)
(* directive is rendered as (Renders): what was written and what is left   *)
(* to say are the meaning at every step (ReadingOK).                       *)
(***************************************************************************)
EXTENDS Format, FiniteSetTheorems, SequenceTheorems, TLAPS

-----------------------------------------------------------------------------
(* The inductive invariant.                                                *)

\* The characters there are: of the code, the formats and the arguments.
AllGlyphs == {"0", "1", "2", "3", "4", "5", "6", "7", "8", "9",
              "A", "B", "C", "D", "E", "F", "a", "b", "c", "d", "e", "f"}
Literals == AllGlyphs \cup {"-", "%", " ", "(", "n", "u", "l", ")", "x", "chr", "nul"}
Given == (UNION {Range(f) : f \in Formats}) \cup (UNION {Range(a.string) : a \in Args})
Characters == Literals \cup Given

CallOK ==
  /\ call.fmt \in Formats /\ call.arg \in Args
  /\ Stores => call.size \in 0 .. SizeMax
  /\ call.fn = "fprintf" => call.size = StreamBuf

DirOK ==
  dir = [left |-> dir.left, zero |-> dir.zero, width |-> dir.width, mods |-> dir.mods]
    /\ dir.width \in Nat

\* There is an array, and room in it for the terminator.
Sized == Stores /\ call.size # 0

\* As much of the text as there is room for, with the terminator at last.
Kept(n) == IF Len(text) < n THEN Len(text) ELSE n
BufOK ==
  Sized =>
    IF pc \in {"send", "done"}
    THEN LET n == Kept(call.size - 1)
         IN  buf = [k \in 0 .. n |-> IF k = n THEN "nul" ELSE text[k + 1]]
    ELSE buf = [k \in 0 .. Kept(call.size - 1) - 1 |-> text[k + 1]]

SentOK == pc = "done" /\ call.fn = "fprintf" /\ Len(text) < StreamBuf => sent = text

IInv == CallOK /\ i \in Nat \ {0} /\ DirOK /\ text \in Seq(Characters) /\ BufOK /\ SentOK

-----------------------------------------------------------------------------
(* The least number of a set, by which the inductions here go.             *)

\* The segments below the numbers of a set are well-founded by inclusion.
LEMMA Least ==
  ASSUME NEW T, T \subseteq Nat, T # {}
  PROVE  \E x \in T : \A y \in T : x <= y
<1> DEFINE Below(n) == 0 .. n - 1
           Segments == {Below(n) : n \in T}
           R == StrictSubsetOrdering(Nat)
<1>1. Segments \subseteq FiniteSubsetsOf(Nat) /\ Segments # {}
  <2>1. \A n \in T : IsFiniteSet(Below(n)) /\ Below(n) \subseteq Nat
    BY FS_Interval
  <2> QED
    BY <2>1 DEF FiniteSubsetsOf
<1>2. \E x \in Segments : \A y \in Segments : ~ (<<y, x>> \in R)
  <2>1. IsWellFoundedOn(R, FiniteSubsetsOf(Nat))
    BY FS_StrictSubsetOrderingWellFounded
  <2> HIDE DEF Segments, R
  <2> QED
    BY <1>1, <2>1, WFMin
<1>3. PICK x \in T : \A y \in T : ~ (<<Below(y), Below(x)>> \in R)
  BY <1>2
<1>4. ASSUME NEW y \in T, ~(x <= y) PROVE FALSE
  <2>1. Below(y) \subseteq Below(x) /\ y \in Below(x) /\ y \notin Below(y)
    BY <1>4
  <2>2. <<Below(y), Below(x)>> \in R
    BY <2>1 DEF StrictSubsetOrdering
  <2> QED
    BY <1>3, <2>2
<1> QED
  BY <1>4

-----------------------------------------------------------------------------
(* Recursion.                                                              *)

Before(f, n) == [k \in 0 .. n - 1 |-> f[k]]

\* G[n] makes the value at n of the values before it.
IsStep(G, S) == \A n \in Nat : G[n] \in [[0 .. n - 1 -> S] -> S]

\* f is made by G; and h is wherever it has values in S before.
Made(f, G, S) == f \in [Nat -> S] /\ \A n \in Nat : f[n] = G[n][Before(f, n)]
Follows(h, G, S) ==
  \A n \in Nat : Before(h, n) \in [0 .. n - 1 -> S] => h[n] = G[n][Before(h, n)]

\* f is made by G up to before n.
Solves(f, n, G, S) ==
  f \in [0 .. n - 1 -> S] /\ \A m \in 0 .. n - 1 : f[m] = G[m][Before(f, m)]

\* How far a solution goes does not matter.
LEMMA SolvedAlike ==
  ASSUME NEW G, NEW S, NEW m \in Nat, NEW n \in Nat, NEW f, NEW h,
         Solves(f, m, G, S), Solves(h, n, G, S)
  PROVE  \A j \in 0 .. n - 1 : j < m => f[j] = h[j]
<1> DEFINE D == {j \in 0 .. n - 1 : j < m /\ f[j] # h[j]}
<1>1. /\ \A j : j \in D <=> j \in 0 .. n - 1 /\ j < m /\ f[j] # h[j]
      /\ D \subseteq Nat
  OBVIOUS
<1> HIDE DEF D
<1>2. ASSUME D # {} PROVE FALSE
  <2>1. PICK j \in D : \A y \in D : j <= y
    BY <1>1, <1>2, Least
  <2>2. j \in 0 .. n - 1 /\ j \in 0 .. m - 1 /\ j \in Nat /\ f[j] # h[j]
    BY <1>1
  <2>3. ASSUME NEW k \in 0 .. j - 1 PROVE f[k] = h[k]
    <3>1. k \in 0 .. n - 1 /\ k < m /\ ~(j <= k)
      BY <2>2
    <3> QED
      BY <1>1, <2>1, <3>1
  <2>4. Before(f, j) = Before(h, j)
    BY <2>3 DEF Before
  <2> QED
    BY <2>2, <2>4 DEF Solves
<1> QED
  BY <1>1, <1>2

\* There is one of every length.
LEMMA SolutionExists ==
  ASSUME NEW G, NEW S, IsStep(G, S), NEW n \in Nat
  PROVE  \E f : Solves(f, n, G, S)
<1> DEFINE D == {j \in Nat : ~ \E f : Solves(f, j, G, S)}
<1>1. D \subseteq Nat /\ \A j \in Nat : j \in D <=> ~ \E f : Solves(f, j, G, S)
  OBVIOUS
<1> HIDE DEF D
<1>2. ASSUME D # {} PROVE FALSE
  <2>1. PICK j \in D : \A y \in D : j <= y
    BY <1>1, <1>2, Least
  <2>2. j \in Nat
    BY <1>1, <2>1
  <2>3. CASE j = 0
    <3>1. Solves([k \in {} |-> 0], 0, G, S)
      <4>1. 0 .. 0 - 1 = {}
        OBVIOUS
      <4> QED
        BY <4>1 DEF Solves
    <3> QED
      BY <1>1, <2>1, <2>3, <3>1
  <2>4. CASE j # 0
    <3> DEFINE p == j - 1
    <3>1. p \in Nat /\ ~(j <= p) /\ j = p + 1
      BY <2>2, <2>4
    <3> HIDE DEF p
    <3>2. PICK f : Solves(f, p, G, S)
      BY <1>1, <2>1, <3>1
    <3> DEFINE new == G[p][Before(f, p)]
               h == [k \in 0 .. j - 1 |-> IF k = p THEN new ELSE f[k]]
    <3>3. Before(f, p) \in [0 .. p - 1 -> S]
      BY <3>2 DEF Solves, Before
    <3>4. new \in S
      BY <3>1, <3>3 DEF IsStep
    <3>5. h \in [0 .. j - 1 -> S] /\ h[p] = new /\ \A k \in 0 .. p - 1 : h[k] = f[k]
      <4>1. \A k \in 0 .. j - 1 : k # p => k \in 0 .. p - 1
        BY <3>1
      <4>2. p \in 0 .. j - 1 /\ \A k \in 0 .. p - 1 : k \in 0 .. j - 1 /\ k # p
        BY <3>1
      <4> HIDE DEF new
      <4> QED
        BY <3>2, <3>4, <4>1, <4>2 DEF Solves
    <3> HIDE DEF h
    <3>6. ASSUME NEW m \in 0 .. j - 1 PROVE Before(h, m) = Before(f, m)
      <4>1. \A k \in 0 .. m - 1 : k \in 0 .. p - 1
        BY <3>1
      <4> QED
        BY <3>5, <4>1 DEF Before
    <3>7. ASSUME NEW m \in 0 .. j - 1 PROVE h[m] = G[m][Before(h, m)]
      <4>1. CASE m = p
        BY <3>5, <3>6, <4>1 DEF new
      <4>2. CASE m # p
        <5>1. m \in 0 .. p - 1
          BY <3>1, <4>2
        <5> QED
          BY <3>2, <3>5, <3>6, <5>1 DEF Solves
      <4> QED
        BY <4>1, <4>2
    <3> QED
      BY <1>1, <2>1, <3>5, <3>7 DEF Solves
  <2> QED
    BY <2>3, <2>4
<1> QED
  BY <1>1, <1>2

\* So the equation has a solution.
LEMMA Recursion ==
  ASSUME NEW G, NEW S, IsStep(G, S)
  PROVE  \E f : Made(f, G, S)
<1> DEFINE To(n) == CHOOSE f : Solves(f, n, G, S)
           all == [n \in Nat |-> To(n + 1)[n]]
<1>1. \A n \in Nat : Solves(To(n), n, G, S)
  BY SolutionExists
<1>2. \A n \in Nat : all[n] = To(n + 1)[n]
  OBVIOUS
<1>3. all = [n \in Nat |-> all[n]]
  OBVIOUS
<1> HIDE DEF To, all
<1>4. ASSUME NEW n \in Nat PROVE all[n] \in S /\ all[n] = G[n][Before(all, n)]
  <2>1. n \in 0 .. (n + 1) - 1 /\ n + 1 \in Nat
    OBVIOUS
  <2>2. Solves(To(n + 1), n + 1, G, S)
    BY <1>1, <2>1
  <2>3. ASSUME NEW k \in 0 .. n - 1 PROVE To(n + 1)[k] = all[k]
    <3>1. k \in Nat /\ k + 1 \in Nat /\ k \in 0 .. (n + 1) - 1 /\ k < k + 1
      OBVIOUS
    <3>2. Solves(To(k + 1), k + 1, G, S)
      BY <1>1, <3>1
    <3>3. To(k + 1)[k] = To(n + 1)[k]
      BY <2>1, <2>2, <3>1, <3>2, SolvedAlike
    <3> QED
      BY <1>2, <3>1, <3>3
  <2>4. Before(To(n + 1), n) = Before(all, n)
    BY <2>3 DEF Before
  <2>5. To(n + 1)[n] \in S /\ To(n + 1)[n] = G[n][Before(To(n + 1), n)]
    BY <2>1, <2>2 DEF Solves
  <2> QED
    BY <1>2, <2>4, <2>5
<1>5. all \in [Nat -> S]
  BY <1>3, <1>4
<1> QED
  BY <1>4, <1>5 DEF Made

\* And no other.
LEMMA RecursionOnly ==
  ASSUME NEW G, NEW S, NEW f, NEW h, Made(f, G, S), Follows(h, G, S)
  PROVE  \A n \in Nat : h[n] = f[n]
<1> DEFINE D == {j \in Nat : h[j] # f[j]}
<1>1. D \subseteq Nat /\ \A j \in Nat : j \in D <=> h[j] # f[j]
  OBVIOUS
<1> HIDE DEF D
<1>2. ASSUME D # {} PROVE FALSE
  <2>1. PICK j \in D : \A y \in D : j <= y
    BY <1>1, <1>2, Least
  <2>2. j \in Nat /\ h[j] # f[j]
    BY <1>1
  <2>3. ASSUME NEW k \in 0 .. j - 1 PROVE h[k] = f[k]
    <3>1. k \in Nat /\ ~(j <= k)
      BY <2>2
    <3> QED
      BY <1>1, <2>1, <3>1
  <2>4. Before(h, j) = Before(f, j)
    BY <2>3 DEF Before
  <2>5. Before(f, j) \in [0 .. j - 1 -> S]
    BY <2>2 DEF Before, Made
  <2> QED
    BY <2>2, <2>4, <2>5 DEF Made, Follows
<1> QED
  BY <1>1, <1>2

-----------------------------------------------------------------------------
(* The digits of a number.                                                 *)

Spellings == Seq(AllGlyphs) \ {<<>>}

\* What is left of a number is smaller, and its last digit is one.
LEMMA Smaller ==
  ASSUME NEW base \in {10, 16}, NEW n \in Nat, ~(n < base)
  PROVE  n \div base \in 0 .. n - 1 /\ n % base \in 0 .. base - 1
<1>1. CASE base = 10
  BY <1>1
<1>2. CASE base = 16
  BY <1>2
<1> QED
  BY <1>1, <1>2

\* All sixteen glyphs are ones.
LEMMA GlyphsAre ==
  ASSUME NEW upper, NEW k \in 1 .. 16
  PROVE  Glyphs(upper)[k] \in AllGlyphs
<1> DEFINE a == Figures
           b == IF upper THEN <<"A", "B", "C", "D", "E", "F">>
                ELSE <<"a", "b", "c", "d", "e", "f">>
<1>1. a \in Seq(AllGlyphs) /\ Len(a) = 10
  BY DEF Figures, AllGlyphs
<1>2. b \in Seq(AllGlyphs) /\ Len(b) = 6
  <2>1. CASE upper
    BY <2>1 DEF AllGlyphs
  <2>2. CASE ~upper
    BY <2>2 DEF AllGlyphs
  <2> QED
    BY <2>1, <2>2
<1>3. Glyphs(upper) = a \o b
  BY DEF Glyphs
<1> HIDE DEF a, b
<1>4. a \o b \in Seq(AllGlyphs) /\ Len(a \o b) = Len(a) + Len(b)
  BY <1>1, <1>2, ConcatProperties, Zenon
<1>5. k \in 1 .. Len(a \o b)
  BY <1>1, <1>2, <1>4
<1> QED
  BY <1>3, <1>4, <1>5, ElementOfSeq

\* Ten of them are figures, which have a value.
LEMMA DigitIs ==
  ASSUME NEW c \in DOMAIN Digit
  PROVE  Digit[c] \in 0 .. 9
<1>1. c \in Range(Figures) /\ Digit[c] = CHOOSE d \in 0 .. 9 : Figures[d + 1] = c
  BY DEF Digit
<1>2. PICK k \in DOMAIN Figures : Figures[k] = c
  BY <1>1 DEF Range
<1>3. DOMAIN Figures = 1 .. 10
  BY DEF Figures
<1>4. k - 1 \in 0 .. 9 /\ (k - 1) + 1 = k
  BY <1>2, <1>3
<1>5. \E d \in 0 .. 9 : Figures[d + 1] = c
  BY <1>2, <1>4
<1> QED
  BY <1>1, <1>5

\* A number is spelled by at least one of them.
LEMMA SpelledIs ==
  ASSUME NEW base \in {10, 16}, NEW upper, NEW v \in Nat
  PROVE  Spelled(v, base, upper) \in Spellings
<1> DEFINE g == Glyphs(upper)
           Step(n, h) == IF n < base THEN <<g[n + 1]>>
                         ELSE Append(h[n \div base], g[(n % base) + 1])
           G == [n \in Nat |-> [h \in [0 .. n - 1 -> Spellings] |-> Step(n, h)]]
<1>1. \A k \in 1 .. 16 : g[k] \in AllGlyphs
  BY GlyphsAre
<1> HIDE DEF g
<1>2. ASSUME NEW n \in Nat, NEW h \in [0 .. n - 1 -> Spellings] PROVE Step(n, h) \in Spellings
  <2>1. CASE n < base
    <3>1. g[n + 1] \in AllGlyphs
      <4>1. n + 1 \in 1 .. 16
        BY <2>1
      <4> QED
        BY <1>1, <4>1
    <3>2. <<g[n + 1]>> \in Seq(AllGlyphs) /\ <<g[n + 1]>> # <<>>
      BY <3>1
    <3> QED
      BY <2>1, <3>2 DEF Spellings
  <2>2. CASE ~(n < base)
    <3>1. n \div base \in 0 .. n - 1 /\ n % base \in 0 .. base - 1
      BY <2>2, Smaller
    <3> DEFINE s == h[n \div base]
               c == g[(n % base) + 1]
    <3>2. s \in Seq(AllGlyphs) /\ c \in AllGlyphs
      <4>1. s \in Spellings
        BY <3>1
      <4>2. (n % base) + 1 \in 1 .. 16
        BY <3>1
      <4> QED
        BY <1>1, <4>1, <4>2 DEF Spellings
    <3> HIDE DEF s, c
    <3>3. Append(s, c) \in Seq(AllGlyphs) /\ Append(s, c) # <<>>
      BY <3>2, AppendProperties
    <3> QED
      BY <2>2, <3>3 DEF Spellings, s, c
  <2> QED
    BY <2>1, <2>2
<1>3. IsStep(G, Spellings)
  <2> SUFFICES ASSUME NEW n \in Nat PROVE G[n] \in [[0 .. n - 1 -> Spellings] -> Spellings]
    BY DEF IsStep
  <2>1. G[n] = [h \in [0 .. n - 1 -> Spellings] |-> Step(n, h)]
    OBVIOUS
  <2> HIDE DEF Step, G
  <2> QED
    BY <1>2, <2>1
<1>4. ASSUME NEW n \in Nat, NEW h \in [0 .. n - 1 -> Spellings] PROVE G[n][h] = Step(n, h)
  OBVIOUS
<1> HIDE DEF G
<1>5. PICK f : Made(f, G, Spellings)
  BY <1>3, Recursion
<1>6. ASSUME NEW n \in Nat, NEW h PROVE Step(n, Before(h, n)) = Step(n, h)
  <2>1. ~(n < base) => Before(h, n)[n \div base] = h[n \div base]
    BY Smaller DEF Before
  <2> QED
    BY <2>1
<1>7. ASSUME NEW n \in Nat PROVE f[n] = Step(n, f)
  <2>1. Before(f, n) \in [0 .. n - 1 -> Spellings]
    BY <1>5 DEF Before, Made
  <2> QED
    BY <1>4, <1>5, <1>6, <2>1 DEF Made
<1>8. f = [n \in Nat |-> Step(n, f)]
  <2>1. f = [n \in Nat |-> f[n]]
    BY <1>5 DEF Made
  <2> QED
    BY <1>7, <2>1
<1> DEFINE digits[n \in Nat] ==
             IF n < base THEN <<Glyphs(upper)[n + 1]>>
             ELSE Append(digits[n \div base], Glyphs(upper)[(n % base) + 1])
<1>9. digits = [n \in Nat |-> IF n < base THEN <<Glyphs(upper)[n + 1]>>
                              ELSE Append(digits[n \div base], Glyphs(upper)[(n % base) + 1])]
  BY <1>8, Zenon DEF g
<1>10. Spelled(v, base, upper) = digits[v]
  BY Zenon DEF Spelled
<1> HIDE DEF digits
<1>11. digits = [n \in Nat |-> Step(n, digits)]
  BY <1>9, Zenon DEF g
<1>12. \A n \in Nat : digits[n] = Step(n, digits)
  BY <1>11
<1> HIDE DEF Step
<1>13. Follows(digits, G, Spellings)
  BY <1>4, <1>6, <1>12 DEF Follows
<1>14. \A n \in Nat : digits[n] = f[n]
  BY <1>5, <1>13, RecursionOnly
<1> QED
  BY <1>5, <1>10, <1>14 DEF Made

-----------------------------------------------------------------------------
(* The conversions.                                                        *)

\* What the code writes by itself.
LEMMA LiteralsAre ==
  /\ "0" \in Characters /\ " " \in Characters /\ "%" \in Characters /\ "nul" \in Characters
  /\ <<"-">> \in Seq(Characters) /\ <<"%">> \in Seq(Characters)
  /\ <<"chr">> \in Seq(Characters) /\ <<"0", "x">> \in Seq(Characters)
  /\ <<"(", "n", "u", "l", "l", ")">> \in Seq(Characters) /\ <<>> \in Seq(Characters)
BY DEF Characters, Literals, AllGlyphs

\* Two characters are a sequence of them.
LEMMA PairIs ==
  ASSUME NEW S, NEW x \in S, NEW y \in S
  PROVE  <<x, y>> \in Seq(S)
OBVIOUS

\* Glyphs are characters.
LEMMA SpelledChars ==
  ASSUME NEW base \in {10, 16}, NEW upper, NEW v \in Nat
  PROVE  Spelled(v, base, upper) \in Seq(Characters)
<1>1. AllGlyphs \subseteq Characters
  BY DEF Characters, Literals
<1>2. Spelled(v, base, upper) \in Seq(AllGlyphs)
  BY SpelledIs DEF Spellings
<1> QED
  BY <1>1, <1>2

\* Characters, joined.
LEMMA Joined ==
  ASSUME NEW s \in Seq(Characters), NEW t \in Seq(Characters)
  PROVE  s \o t \in Seq(Characters)
BY ConcatProperties

\* Padding adds characters.
LEMMA PadIs ==
  ASSUME NEW s \in Seq(Characters), NEW width \in Int, NEW c \in Characters, NEW left
  PROVE  Pad(s, width, c, left) \in Seq(Characters)
<1>1. \A x \in Characters, n \in Int : Fill(x, n) \in Seq(Characters)
  <2> SUFFICES ASSUME NEW x \in Characters, NEW n \in Int PROVE Fill(x, n) \in Seq(Characters)
    OBVIOUS
  <2> DEFINE m == IF n > 0 THEN n ELSE 0
  <2>1. m \in Nat
    OBVIOUS
  <2>2. Fill(x, n) = [k \in 1 .. m |-> x]
    BY DEF Fill
  <2> HIDE DEF m
  <2> QED
    BY <2>1, <2>2
<1>2. width - Len(s) \in Int
  BY LenProperties
<1>3. Fill(" ", width - Len(s)) \in Seq(Characters) /\ Fill(c, width - Len(s)) \in Seq(Characters)
  <2>1. " " \in Characters
    BY DEF Characters, Literals, AllGlyphs
  <2> QED
    BY <1>1, <1>2, <2>1
<1> QED
  BY <1>3, Joined DEF Pad

\* Formats and strings are characters.
LEMMA GivenIs ==
  ASSUME CallOK
  PROVE  call.fmt \in Seq(Characters) /\ call.arg.string \in Seq(Characters)
<1>1. ASSUME NEW S, NEW T, S \subseteq T, NEW s \in Seq(S) PROVE s \in Seq(T)
  BY <1>1
<1>2. call.fmt \in Seq(Range(call.fmt)) /\ call.arg.string \in Seq(Range(call.arg.string))
  BY FormatAssumption DEF CallOK
<1>3. Range(call.fmt) \subseteq Characters /\ Range(call.arg.string) \subseteq Characters
  <2>1. \A f \in Formats : Range(f) \subseteq Given
    BY DEF Given
  <2>2. \A a \in Args : Range(a.string) \subseteq Given
    BY DEF Given
  <2> QED
    BY <2>1, <2>2 DEF CallOK, Characters
<1>4. call.fmt \in Seq(Characters)
  BY <1>1, <1>2, <1>3
<1>5. call.arg.string \in Seq(Characters)
  BY <1>1, <1>2, <1>3
<1> QED
  BY <1>4, <1>5

\* The words numbers come in and what is made of them.
LEMMA WordIs ==
  ASSUME CallOK, NEW junk \in Junk
  PROVE  LET w == Word(dir.mods, junk)
         IN  /\ w \in Nat /\ ReadSigned(w) \in Int /\ ReadUnsigned(w) \in Nat
             /\ N!ToULong(call.arg.number) \in Nat
<1> DEFINE w == Word(dir.mods, junk)
<1>1. /\ junk \in Nat /\ IntValues \in Nat \ {0} /\ LongValues \in Nat \ {0}
      /\ call.arg.number \in Int
  BY FormatAssumption DEF CallOK
<1>2. \A x \in Int, y \in Nat \ {0} : x % y \in Nat
  OBVIOUS
<1>3. N!ToULong(call.arg.number) \in Nat
  BY <1>1, <1>2 DEF N!ToULong
<1>4. w \in Nat
  <2>1. call.arg.number % IntValues \in Nat /\ IntValues * junk \in Nat
    BY <1>1, <1>2
  <2> QED
    BY <1>3, <2>1 DEF Word
<1>5. \A x \in Nat, y \in Nat \ {0} : N!Signed(x, y) \in Int
  <2> SUFFICES ASSUME NEW x \in Nat, NEW y \in Nat \ {0} PROVE N!Signed(x, y) \in Int
    OBVIOUS
  <2>1. y \div 2 \in Int
    OBVIOUS
  <2>2. (x + y \div 2) % y \in Int
    BY <2>1, <1>2
  <2> QED
    BY <2>1, <2>2 DEF N!Signed
<1> HIDE DEF w
<1>6. ReadSigned(w) \in Int
  BY <1>1, <1>4, <1>5 DEF ReadSigned, N!ToInt, N!ToLong
<1>7. ReadUnsigned(w) \in Nat
  BY <1>1, <1>2, <1>4 DEF ReadUnsigned
<1> QED
  BY <1>3, <1>4, <1>6, <1>7 DEF w

\* What a conversion produces is characters.
LEMMA ConvertedIs ==
  ASSUME CallOK, DirOK, NEW c \in Characters, NEW junk \in Junk
  PROVE  Converted(c, Word(dir.mods, junk)) \in Seq(Characters)
<1> DEFINE w == Word(dir.mods, junk)
           v == ReadSigned(w)
           u == ReadUnsigned(w)
<1>1. v \in Int /\ u \in Nat /\ N!ToULong(call.arg.number) \in Nat
  BY WordIs
<1> HIDE DEF w, v, u
<1>2. \A n \in Int : Decimal(n) \in Seq(Characters)
  <2> SUFFICES ASSUME NEW n \in Int PROVE Decimal(n) \in Seq(Characters)
    OBVIOUS
  <2>1. Abs(n) \in Nat
    BY DEF Abs
  <2>2. Spelled(Abs(n), 10, FALSE) \in Seq(Characters)
    BY <2>1, SpelledChars
  <2>3. (IF n < 0 THEN <<"-">> ELSE <<>>) \in Seq(Characters)
    BY LiteralsAre
  <2> QED
    BY <2>2, <2>3, Joined DEF Decimal
<1>3. Unsigned(u, c) \in Seq(Characters)
  <2>1. Base(c) \in {10, 16}
    BY DEF Base
  <2> QED
    BY <1>1, <2>1, SpelledChars DEF Unsigned
<1>4. Address(call.arg) \in Seq(Characters)
  <2>1. Spelled(N!ToULong(call.arg.number), 16, FALSE) \in Seq(Characters)
    BY <1>1, SpelledChars
  <2> QED
    BY <2>1, LiteralsAre, Joined DEF Address
<1>5. /\ Text(call.arg) \in Seq(Characters) /\ Character \in Seq(Characters)
      /\ ZeroPad \in Characters /\ " " \in Characters /\ <<"%", c>> \in Seq(Characters)
  <2>1. call.arg.string \in Seq(Characters)
    BY GivenIs
  <2>2. <<"%", c>> \in Seq(Characters)
    BY LiteralsAre, PairIs
  <2> QED
    BY <2>1, <2>2, LiteralsAre DEF Text, Character, ZeroPad
<1>6. dir.width \in Int /\ dir.width - 1 \in Int
  BY DEF DirOK
<1>7. Emitted(c, w) \in Seq(Characters)
  <2>1. CASE c = "d" /\ v < 0
    <3>1. -v \in Int
      BY <1>1
    <3>2. Pad(Decimal(-v), dir.width - 1, ZeroPad, FALSE) \in Seq(Characters)
      BY <1>2, <1>5, <1>6, <3>1, PadIs
    <3>3. <<"-">> \o Pad(Decimal(-v), dir.width - 1, ZeroPad, FALSE) \in Seq(Characters)
      BY <3>2, LiteralsAre, Joined
    <3>4. c = "d" /\ ReadSigned(w) < 0 /\ ~(ReadSigned(w) >= 0)
      BY <1>1, <2>1 DEF v
    <3>5. Emitted(c, w) = <<"-">> \o Pad(Decimal(-v), dir.width - 1, ZeroPad, FALSE)
      BY <3>4, Zenon DEF Emitted, v
    <3> QED
      BY <3>3, <3>5
  <2>2. CASE c = "d" /\ ~(v < 0)
    <3>1. Pad(Decimal(v), dir.width, ZeroPad, FALSE) \in Seq(Characters)
      BY <1>1, <1>2, <1>5, <1>6, PadIs
    <3>2. v >= 0
      BY <1>1, <2>2
    <3> QED
      BY <2>2, <3>1, <3>2 DEF Emitted, v
  <2>3. CASE c \in {"u", "x", "X"}
    <3>1. Pad(Unsigned(u, c), dir.width, ZeroPad, FALSE) \in Seq(Characters)
      BY <1>3, <1>5, <1>6, PadIs
    <3> QED
      BY <2>3, <3>1 DEF Emitted, u
  <2>4. CASE c = "s"
    <3>1. Pad(Text(call.arg), dir.width, " ", dir.left) \in Seq(Characters)
      BY <1>5, <1>6, PadIs
    <3> QED
      BY <2>4, <3>1 DEF Emitted
  <2>5. CASE c \in {"p", "c"}
    BY <1>4, <1>5, <2>5 DEF Emitted
  <2>6. CASE c \notin {"d", "u", "x", "X", "p", "s", "c"}
    BY <1>5, <2>6 DEF Emitted
  <2> QED
    BY <2>1, <2>2, <2>3, <2>4, <2>5, <2>6
<1>8. Written(c, w) \in Seq(Characters)
  <2> DEFINE s == CASE c = "d" -> Decimal(ReadSigned(w))
                    [] c \in {"u", "x", "X"} -> Unsigned(ReadUnsigned(w), c)
                    [] c = "p" -> Address(call.arg)
                    [] c = "s" -> Text(call.arg)
                    [] c = "c" -> Character
                    [] OTHER   -> <<"%", c>>
  <2>1. s \in Seq(Characters)
    <3>1. CASE c = "d"
      BY <1>1, <1>2, <3>1 DEF v
    <3>2. CASE c \in {"u", "x", "X"}
      BY <1>3, <3>2 DEF u
    <3>3. CASE c \in {"p", "s", "c"}
      BY <1>4, <1>5, <3>3
    <3>4. CASE c \notin {"d", "u", "x", "X", "p", "s", "c"}
      BY <1>5, <3>4
    <3> QED
      BY <3>1, <3>2, <3>3, <3>4
  <2>2. Written(c, w) = Pad(s, dir.width, ZeroPad, dir.left)
    BY DEF Written
  <2> HIDE DEF s
  <2> QED
    BY <1>5, <1>6, <2>1, <2>2, PadIs
<1> QED
  BY <1>7, <1>8 DEF Converted, w

-----------------------------------------------------------------------------
(* The steps.                                                              *)

\* The room for characters is the array without the place of the terminator.
LEMMA RoomIs ==
  ASSUME CallOK, Sized
  PROVE  call.size \in Nat \ {0} /\ Room = call.size - 1 /\ Room \in Nat
<1>1. call.size \in 1 .. SizeMax /\ SizeMax \in Nat
  BY FormatAssumption DEF CallOK, Sized
<1>2. \A x, y \in Nat : x < y => x % y = x
  OBVIOUS
<1>3. call.size - 1 \in Nat /\ SizeMax + 1 \in Nat /\ call.size - 1 < SizeMax + 1
  BY <1>1
<1> QED
  BY <1>1, <1>2, <1>3 DEF Room

Scanning == pc \notin {"send", "done"}

\* Characters go where the text has them, as long as there is room.
LEMMA PutInv ==
  ASSUME IInv, Scanning, NEW s \in Seq(Characters), Put(s), UNCHANGED call, Scanning'
  PROVE  text' \in Seq(Characters) /\ BufOK'
<1>1. text \in Seq(Characters) /\ text' = text \o s
  BY DEF IInv, Put
<1>2. text \o s \in Seq(Characters) /\ Len(text \o s) = Len(text) + Len(s)
      /\ \A k \in 1 .. Len(text) + Len(s) :
           (text \o s)[k] = IF k <= Len(text) THEN text[k] ELSE s[k - Len(text)]
  BY <1>1, ConcatProperties, Zenon
<1>3. Len(text) \in Nat /\ Len(s) \in Nat
  BY <1>1, LenProperties
<1>4. ASSUME Sized PROVE BufOK'
  <2>1. call.size \in Nat /\ Room = call.size - 1 /\ Room \in Nat
    BY <1>4, RoomIs DEF IInv
  <2> DEFINE n == call.size - 1
             L == Len(text)
             M == Len(text) + Len(s)
             K == Kept(n)
             J == {j \in L .. M - 1 : j < n}
  <2>2. buf = [k \in 0 .. K - 1 |-> text[k + 1]]
    BY <1>4 DEF IInv, BufOK, Scanning
  <2>3. buf' = [k \in DOMAIN buf \cup J |-> IF k \in DOMAIN buf THEN buf[k] ELSE s[k - L + 1]]
    BY <1>4, <2>1 DEF Put, Sized
  <2>4. K = (IF L < n THEN L ELSE n) /\ n \in Nat /\ L \in Nat /\ M \in Nat /\ L <= M
    BY <1>3, <2>1 DEF Kept
  <2>5. \A j : j \in J <=> j \in L .. M - 1 /\ j < n
    OBVIOUS
  <2>6. \A k \in 1 .. M : text'[k] = IF k <= L THEN text[k] ELSE s[k - L]
    BY <1>1, <1>2
  <2>7. Len(text') = M
    BY <1>1, <1>2
  <2> DEFINE K2 == IF M < n THEN M ELSE n
  <2> HIDE DEF n, L, M, K, J
  <2>8. ASSUME NEW k PROVE k \in (0 .. K - 1) \cup J <=> k \in 0 .. K2 - 1
    BY <2>4, <2>5
  <2>9. DOMAIN buf \cup J = 0 .. K2 - 1
    BY <2>2, <2>8
  <2>10. ASSUME NEW k \in 0 .. K2 - 1
         PROVE  (IF k \in DOMAIN buf THEN buf[k] ELSE s[k - L + 1]) = text'[k + 1]
    <3>1. k + 1 \in 1 .. M /\ k \in Nat
      BY <2>4
    <3>2. CASE k \in 0 .. K - 1
      <4>1. k + 1 <= L
        BY <2>4, <3>2
      <4> QED
        BY <2>2, <2>6, <3>1, <3>2, <4>1
    <3>3. CASE k \notin 0 .. K - 1
      <4>1. ~(k + 1 <= L) /\ k - L + 1 = (k + 1) - L
        BY <2>4, <3>1, <3>3
      <4> QED
        BY <2>2, <2>6, <3>1, <3>3, <4>1
    <3> QED
      BY <3>2, <3>3
  <2>11. buf' = [k \in 0 .. K2 - 1 |-> text'[k + 1]]
    BY <2>3, <2>9, <2>10
  <2>12. Kept(call.size - 1)' = K2
    BY <2>7 DEF Kept, n
  <2> QED
    BY <2>11, <2>12 DEF BufOK, Scanning, Sized, Stores
<1>5. ASSUME ~Sized PROVE BufOK'
  BY <1>5 DEF BufOK, Sized, Stores
<1> QED
  BY <1>1, <1>2, <1>4, <1>5

\* The character at i is one of those there are.
LEMMA CharIs ==
  ASSUME IInv
  PROVE  Char \in Characters
<1>1. call.fmt \in Seq(Characters) /\ i \in Nat \ {0}
  BY GivenIs DEF IInv
<1>2. CASE i <= Len(call.fmt)
  <2>1. i \in 1 .. Len(call.fmt)
    BY <1>1, <1>2, LenProperties
  <2> QED
    BY <1>1, <1>2, <2>1, ElementOfSeq DEF Char
<1>3. CASE ~(i <= Len(call.fmt))
  BY <1>3, LiteralsAre DEF Char
<1> QED
  BY <1>2, <1>3

\* A step of the scanner that does not write.
LEMMA Reads ==
  ASSUME IInv, Scanning, Scanning', Nothing, UNCHANGED <<call, sent>>
  PROVE  CallOK' /\ text' \in Seq(Characters) /\ BufOK' /\ SentOK'
BY DEF IInv, Scanning, Nothing, CallOK, BufOK, Kept, SentOK, Sized, Stores

\* One that does.
LEMMA Writes ==
  ASSUME IInv, Scanning, Scanning', UNCHANGED <<call, sent>>,
         NEW s \in Seq(Characters), Put(s)
  PROVE  CallOK' /\ text' \in Seq(Characters) /\ BufOK' /\ SentOK'
<1>1. text' \in Seq(Characters) /\ BufOK'
  BY PutInv
<1> QED
  BY <1>1 DEF IInv, CallOK, SentOK, Scanning, Stores

\* Every step of the scanner preserves the invariant.
LEMMA ScanInv ==
  ASSUME IInv, Scan, ~Finish, UNCHANGED <<call, sent>>
  PROVE  IInv'
<1>1. i \in Nat \ {0} /\ DirOK /\ CallOK /\ Char \in Characters
  BY CharIs DEF IInv
<1>2. ASSUME Literal PROVE IInv'
  <2>1. Scanning /\ Scanning' /\ i' \in Nat \ {0} /\ DirOK'
    BY <1>1, <1>2 DEF Literal, Goto, Scanning, DirOK
  <2>2. <<Char>> \in Seq(Characters) /\ Put(<<Char>>)
    BY <1>1, <1>2 DEF Literal
  <2> QED
    BY <2>1, <2>2, Writes DEF IInv
<1>3. ASSUME Directive PROVE IInv'
  <2>1. Scanning /\ Scanning' /\ i' \in Nat \ {0} /\ DirOK' /\ Nothing
    BY <1>1, <1>3 DEF Directive, Goto, Scanning, DirOK, NoDirective
  <2> QED
    BY <2>1, Reads DEF IInv
<1>4. ASSUME Percent PROVE IInv'
  <2>1. Scanning /\ Scanning' /\ i' \in Nat \ {0} /\ DirOK'
    BY <1>1, <1>4 DEF Percent, Goto, Scanning, DirOK
  <2>2. CASE Char = "%"
    <3>1. Put(<<"%">>)
      BY <1>4, <2>2 DEF Percent
    <3> QED
      BY <2>1, <3>1, LiteralsAre, Writes DEF IInv
  <2>3. CASE Char # "%"
    <3>1. Nothing
      BY <1>4, <2>3 DEF Percent
    <3> QED
      BY <2>1, <3>1, Reads DEF IInv
  <2> QED
    BY <2>2, <2>3
<1>5. ASSUME Flags PROVE IInv'
  <2>1. Scanning /\ Scanning' /\ i' \in Nat \ {0} /\ Nothing
    BY <1>1, <1>5 DEF Flags, Goto, Scanning
  <2>2. DirOK'
    BY <1>1, <1>5 DEF Flags, DirOK
  <2> QED
    BY <2>1, <2>2, Reads DEF IInv
<1>6. ASSUME Width PROVE IInv'
  <2>1. Scanning /\ Scanning' /\ i' \in Nat \ {0} /\ Nothing
    BY <1>1, <1>6 DEF Width, Goto, Scanning
  <2>2. DirOK'
    <3>1. CASE Char \in DOMAIN Digit
      <4>1. Digit[Char] \in Nat
        BY <3>1, DigitIs
      <4>2. dir.width * 10 + Digit[Char] \in Nat
        BY <1>1, <4>1 DEF DirOK
      <4>3. dir' = [dir EXCEPT !.width = dir.width * 10 + Digit[Char]]
        BY <1>6, <3>1 DEF Width
      <4> QED
        BY <1>1, <4>2, <4>3 DEF DirOK
    <3>2. CASE Char \notin DOMAIN Digit
      BY <1>1, <1>6, <3>2 DEF Width, DirOK
    <3> QED
      BY <3>1, <3>2
  <2> QED
    BY <2>1, <2>2, Reads DEF IInv
<1>7. ASSUME Precision PROVE IInv'
  <2>1. Scanning /\ Scanning' /\ i' \in Nat \ {0} /\ Nothing /\ DirOK'
    BY <1>1, <1>7 DEF Precision, Goto, Scanning, DirOK
  <2> QED
    BY <2>1, Reads DEF IInv
<1>8. ASSUME Modifier PROVE IInv'
  <2>1. Scanning /\ Scanning' /\ i' \in Nat \ {0} /\ Nothing
    BY <1>1, <1>8 DEF Modifier, Goto, Scanning
  <2>2. DirOK'
    BY <1>1, <1>8 DEF Modifier, DirOK
  <2> QED
    BY <2>1, <2>2, Reads DEF IInv
<1>9. ASSUME Convert PROVE IInv'
  <2>1. Scanning /\ Scanning' /\ i' \in Nat \ {0} /\ DirOK'
    BY <1>1, <1>9 DEF Convert, Goto, Scanning, DirOK
  <2>2. PICK junk \in Junk : Put(Converted(Char, Word(dir.mods, junk)))
    BY <1>9 DEF Convert
  <2>3. Converted(Char, Word(dir.mods, junk)) \in Seq(Characters)
    BY <1>1, ConvertedIs
  <2> QED
    BY <2>1, <2>2, <2>3, Writes DEF IInv
<1> QED
  BY <1>2, <1>3, <1>4, <1>5, <1>6, <1>7, <1>8, <1>9 DEF Scan

\* The terminator goes behind what was stored.
LEMMA FinishInv ==
  ASSUME IInv, Finish, UNCHANGED <<call, sent>>
  PROVE  IInv'
<1>1. text' = text /\ i' = i /\ dir' = dir /\ pc' \in {"send", "done"} /\ Scanning
  BY DEF Finish, Scanning
<1>2. CallOK' /\ DirOK' /\ i' \in Nat \ {0} /\ text' \in Seq(Characters)
  BY <1>1 DEF IInv, CallOK, DirOK, Stores
<1>3. BufOK'
  <2>1. CASE ~Sized
    BY <2>1 DEF BufOK, Sized, Stores
  <2>2. CASE Sized
    <3>1. call.size \in Nat /\ Room = call.size - 1 /\ Room \in Nat
      BY <2>2, RoomIs DEF IInv
    <3> DEFINE n == Kept(call.size - 1)
    <3>2. n \in Nat
      BY <3>1, LenProperties DEF Kept, IInv
    <3>3. buf = [k \in 0 .. n - 1 |-> text[k + 1]]
      BY <2>2, <1>1 DEF IInv, BufOK, Scanning
    <3>4. n = IF Len(text) < Room THEN Len(text) ELSE call.size - 1
      BY <3>1 DEF Kept
    <3>5. buf' = [k \in DOMAIN buf \cup {n} |-> IF k = n THEN "nul" ELSE buf[k]]
      BY <2>2, <3>4 DEF Finish, Terminate, Sized
    <3>6. n' = n
      BY <1>1 DEF Kept
    <3> HIDE DEF n
    <3>7. DOMAIN buf \cup {n} = 0 .. n
      BY <3>2, <3>3
    <3>8. ASSUME NEW k \in 0 .. n
          PROVE  (IF k = n THEN "nul" ELSE buf[k]) = IF k = n THEN "nul" ELSE text[k + 1]
      <4>1. k # n => k \in 0 .. n - 1
        BY <3>2
      <4> QED
        BY <3>3, <4>1
    <3>9. buf' = [k \in 0 .. n |-> IF k = n THEN "nul" ELSE text[k + 1]]
      BY <3>5, <3>7, <3>8
    <3> QED
      BY <1>1, <3>6, <3>9 DEF BufOK, n
  <2> QED
    BY <2>1, <2>2
<1>4. SentOK'
  <2>1. call.fn = "fprintf" => pc' = "send"
    BY DEF Finish
  <2> QED
    BY <2>1 DEF SentOK
<1> QED
  BY <1>2, <1>3, <1>4 DEF IInv

\* fwrite gets the text if the array holds it.
LEMMA SendInv ==
  ASSUME IInv, Send, UNCHANGED call
  PROVE  IInv'
<1>1. /\ pc = "send" /\ pc' = "done" /\ text' = text /\ i' = i /\ dir' = dir /\ buf' = buf
      /\ sent' = [k \in 1 .. Len(text) |-> IF k - 1 \in DOMAIN buf THEN buf[k - 1] ELSE "stray"]
  BY DEF Send
<1>2. CallOK' /\ DirOK' /\ i' \in Nat \ {0} /\ text' \in Seq(Characters) /\ BufOK'
  BY <1>1 DEF IInv, CallOK, DirOK, BufOK, Kept, Sized, Stores
<1>3. ASSUME call.fn = "fprintf", Len(text) < StreamBuf PROVE sent' = text
  <2>1. Sized /\ call.size = StreamBuf
    BY <1>3, FormatAssumption DEF IInv, CallOK, Sized, Stores
  <2>2. Len(text) \in Nat /\ StreamBuf \in Nat /\ text \in Seq(Characters)
    BY LenProperties, FormatAssumption DEF IInv
  <2> DEFINE n == Kept(call.size - 1)
  <2>3. buf = [k \in 0 .. n |-> IF k = n THEN "nul" ELSE text[k + 1]]
    BY <1>1, <2>1 DEF IInv, BufOK
  <2>4. n = Len(text)
    BY <1>3, <2>1, <2>2 DEF Kept
  <2> HIDE DEF n
  <2>5. ASSUME NEW k \in 1 .. Len(text)
        PROVE  (IF k - 1 \in DOMAIN buf THEN buf[k - 1] ELSE "stray") = text[k]
    <3>1. k - 1 \in 0 .. n /\ k - 1 # n /\ (k - 1) + 1 = k
      BY <2>2, <2>4
    <3> QED
      BY <2>3, <3>1
  <2>6. sent' = [k \in 1 .. Len(text) |-> text[k]]
    BY <1>1, <2>5
  <2>7. text = [k \in 1 .. Len(text) |-> text[k]]
    BY <2>2
  <2> QED
    BY <2>6, <2>7
<1> QED
  BY <1>1, <1>2, <1>3 DEF IInv, SentOK

\* The invariant holds before the first character.
LEMMA InitInv == Init => IInv
<1> SUFFICES ASSUME Init PROVE IInv
  OBVIOUS
<1>1. /\ call.fmt \in Formats /\ call.arg \in Args
      /\ call.fn \in {"printf", "measure"} \/ call.size \in 0 .. SizeMax
      /\ call.fn = "fprintf" => call.size = StreamBuf
  <2>1. SizeMax \in 0 .. SizeMax /\ StreamBuf \in 0 .. SizeMax /\ Sizes \subseteq 0 .. SizeMax
    BY FormatAssumption
  <2>2. CASE call \in [fn : {"printf", "measure"}, fmt : Formats, arg : Args, size : {0}]
    BY <2>2
  <2>3. CASE call \in [fn : {"snprintf"}, fmt : Formats, arg : Args, size : Sizes \cup {SizeMax}]
    BY <2>1, <2>3
  <2>4. CASE call \in [fn : {"fprintf"}, fmt : Formats, arg : Args, size : {StreamBuf}]
    BY <2>1, <2>4
  <2> QED
    BY <2>2, <2>3, <2>4 DEF Init
<1>2. CallOK
  BY <1>1, FormatAssumption DEF CallOK, Stores
<1>3. i \in Nat \ {0} /\ DirOK /\ text \in Seq(Characters) /\ SentOK
  <2>1. i = 1 /\ pc = "text" /\ dir = NoDirective /\ text = <<>>
    BY DEF Init
  <2>2. i \in Nat \ {0} /\ text \in Seq(Characters)
    BY <2>1
  <2>3. DirOK
    BY <2>1 DEF DirOK, NoDirective
  <2>4. SentOK
    BY <2>1 DEF SentOK
  <2> QED
    BY <2>2, <2>3, <2>4
<1>4. BufOK
  <2> SUFFICES ASSUME Sized PROVE buf = [k \in 0 .. Kept(call.size - 1) - 1 |-> text[k + 1]]
    BY DEF BufOK, Init
  <2>1. call.size - 1 \in Nat /\ Len(text) = 0
    BY <1>2, RoomIs DEF Init
  <2> DEFINE n == call.size - 1
  <2>0. n \in Nat
    BY <2>1
  <2> HIDE DEF n
  <2>4. Kept(n) = 0
    BY <2>0, <2>1 DEF Kept
  <2>2. Kept(call.size - 1) = 0
    BY <2>4 DEF n
  <2>3. 0 .. Kept(call.size - 1) - 1 = {}
    BY <2>2
  <2> QED
    BY <2>3 DEF Init
<1> QED
  BY <1>2, <1>3, <1>4 DEF IInv

\* It is inductive.
LEMMA NextInv == IInv /\ [Next]_vars => IInv'
<1> SUFFICES ASSUME IInv, [Next]_vars PROVE IInv'
  OBVIOUS
<1>1. CASE Scan /\ UNCHANGED <<call, sent>>
  BY <1>1, ScanInv, FinishInv
<1>2. CASE Send /\ UNCHANGED call
  BY <1>2, SendInv
<1>3. CASE UNCHANGED vars
  BY <1>3 DEF vars, IInv, CallOK, DirOK, BufOK, Kept, SentOK, Sized, Stores
<1> QED
  BY <1>1, <1>2, <1>3 DEF Next

\* So it always holds.
LEMMA Invariance == Spec => []IInv
BY InitInv, NextInv, PTL DEF Spec

(* Truncated (vsnprintf_internal, stdio.c): whatever the format makes of   *)
(* its arguments, the array holds as much of the text as fits, terminated, *)
(* and no byte behind it is touched.                                       *)
THEOREM TruncatedHolds == Spec => []Truncated
<1>1. IInv => Truncated
  <2> SUFFICES ASSUME IInv, pc = "done", Stores, call.size > 0
               PROVE  LET n == IF Len(text) < call.size THEN Len(text) ELSE call.size - 1
                      IN  buf = [k \in 0 .. n |-> IF k = n THEN "nul" ELSE text[k + 1]]
    BY DEF Truncated
  <2>1. call.size \in Nat \ {0} /\ Len(text) \in Nat /\ Sized
    <3>1. Sized
      BY DEF Sized
    <3> QED
      BY <3>1, RoomIs, LenProperties DEF IInv
  <2>2. Kept(call.size - 1) = IF Len(text) < call.size THEN Len(text) ELSE call.size - 1
    BY <2>1 DEF Kept
  <2> QED
    BY <2>1, <2>2 DEF IInv, BufOK
<1> QED
  BY <1>1, Invariance, PTL

\* What fprintf formats is shorter than the array of vfprintf: it is sent.
Sends == pc = "done" /\ call.fn = "fprintf" /\ Len(text) < StreamBuf => sent = text

(* Sends (vfprintf, stdio.c): fprintf gives fwrite what was formatted, to  *)
(* the character, if it is shorter than the array of vfprintf.  SendsText  *)
(* says so of every text, and the run of it shows longer ones cut.         *)
THEOREM SendsHolds == Spec => []Sends
<1>1. IInv => Sends
  BY DEF IInv, SentOK, Sends
<1> QED
  BY <1>1, Invariance, PTL

-----------------------------------------------------------------------------
(* The parts of a directive.                                               *)

\* What Past looks for.
IsPast(fmt, k, set, m) ==
  /\ m \in k .. Len(fmt) + 1
  /\ \A j \in k .. m - 1 : fmt[j] \in set
  /\ m <= Len(fmt) => fmt[m] \notin set

\* There is a first index outside of the set, and one only.
LEMMA PastIs ==
  ASSUME NEW fmt, Len(fmt) \in Nat, NEW k \in 1 .. Len(fmt) + 1, NEW set
  PROVE  /\ IsPast(fmt, k, set, Past(fmt, k, set))
         /\ \A m : IsPast(fmt, k, set, m) => Past(fmt, k, set) = m
<1> DEFINE T == {m \in k .. Len(fmt) + 1 : m <= Len(fmt) => fmt[m] \notin set}
<1>1. /\ \A m : m \in T <=> m \in k .. Len(fmt) + 1 /\ (m <= Len(fmt) => fmt[m] \notin set)
      /\ T \subseteq Nat /\ Len(fmt) + 1 \in T
  OBVIOUS
<1> HIDE DEF T
<1>2. PICK m \in T : \A y \in T : m <= y
  BY <1>1, Least
<1>3. ASSUME NEW j \in k .. m - 1 PROVE fmt[j] \in set
  <2>1. j \in k .. Len(fmt) + 1 /\ ~(m <= j) /\ j <= Len(fmt)
    BY <1>1, <1>2
  <2> QED
    BY <1>1, <1>2, <2>1
<1>4. IsPast(fmt, k, set, m)
  BY <1>1, <1>3 DEF IsPast
<1>5. ASSUME NEW a, NEW b, IsPast(fmt, k, set, a), IsPast(fmt, k, set, b) PROVE ~(a < b)
  BY <1>5 DEF IsPast
<1>6. ASSUME NEW a, NEW b, IsPast(fmt, k, set, a), IsPast(fmt, k, set, b) PROVE a = b
  <2>1. a \in Int /\ b \in Int
    BY <1>6 DEF IsPast
  <2>2. ~(a < b)
    BY <1>5, <1>6
  <2>3. ~(b < a)
    BY <1>5, <1>6
  <2> QED
    BY <2>1, <2>2, <2>3
<1>7. Past(fmt, k, set) = CHOOSE n : n \in k .. Len(fmt) + 1 /\ IsPast(fmt, k, set, n)
  BY DEF Past, IsPast
<1>8. IsPast(fmt, k, set, Past(fmt, k, set))
  BY <1>4, <1>7 DEF IsPast
<1> QED
  BY <1>6, <1>8

\* The characters of a number.
Numeral(fmt, first, last) == \A j \in first .. last : fmt[j] \in DOMAIN Digit

\* The value of a numeral, by its last figure.
LEMMA ValueIs ==
  ASSUME NEW fmt, NEW first \in Nat \ {0}, NEW last \in Nat, first - 1 <= last,
         Numeral(fmt, first, last)
  PROVE  /\ Value(fmt, first, last) \in Nat
         /\ last < first => Value(fmt, first, last) = 0
         /\ first <= last => Value(fmt, first, last)
                               = Value(fmt, first, last - 1) * 10 + Digit[fmt[last]]
<1> DEFINE Figure(n) == n >= first /\ fmt[n] \in DOMAIN Digit
           Step(n, h) == IF Figure(n) THEN h[n - 1] * 10 + Digit[fmt[n]] ELSE 0
           G == [n \in Nat |-> [h \in [0 .. n - 1 -> Nat] |-> Step(n, h)]]
<1>1. ASSUME NEW n \in Nat, NEW h \in [0 .. n - 1 -> Nat] PROVE Step(n, h) \in Nat
  <2>1. CASE Figure(n)
    <3>1. n - 1 \in 0 .. n - 1
      BY <2>1
    <3> DEFINE x == h[n - 1]
               y == Digit[fmt[n]]
    <3>2. x \in Nat /\ y \in 0 .. 9
      BY <2>1, <3>1, DigitIs
    <3>3. Step(n, h) = x * 10 + y
      BY <2>1
    <3> HIDE DEF x, y, Step
    <3> QED
      BY <3>2, <3>3
  <2> QED
    BY <2>1
<1>2. IsStep(G, Nat)
  <2> SUFFICES ASSUME NEW n \in Nat PROVE G[n] \in [[0 .. n - 1 -> Nat] -> Nat]
    BY DEF IsStep
  <2>1. G[n] = [h \in [0 .. n - 1 -> Nat] |-> Step(n, h)]
    OBVIOUS
  <2> HIDE DEF Step, G
  <2> QED
    BY <1>1, <2>1
<1>3. ASSUME NEW n \in Nat, NEW h \in [0 .. n - 1 -> Nat] PROVE G[n][h] = Step(n, h)
  OBVIOUS
<1> HIDE DEF G
<1>4. PICK f : Made(f, G, Nat)
  BY <1>2, Recursion
<1>5. ASSUME NEW n \in Nat PROVE f[n] \in Nat /\ f[n] = Step(n, f)
  <2>1. Before(f, n) \in [0 .. n - 1 -> Nat] /\ f[n] \in Nat
    BY <1>4 DEF Before, Made
  <2>2. f[n] = Step(n, Before(f, n))
    BY <1>3, <1>4, <2>1 DEF Made
  <2>3. Figure(n) => Before(f, n)[n - 1] = f[n - 1]
    BY DEF Before
  <2> QED
    BY <2>1, <2>2, <2>3
<1>6. ASSUME NEW l \in Nat, first - 1 <= l, Numeral(fmt, first, l)
      PROVE  Value(fmt, first, l) = f[l]
  <2> DEFINE w == [k \in first - 1 .. l |-> f[k]]
  <2>1. ASSUME NEW k \in first - 1 .. l
        PROVE  f[k] = IF k < first THEN 0 ELSE w[k - 1] * 10 + Digit[fmt[k]]
    <3>1. k \in Nat
      OBVIOUS
    <3>2. CASE k < first
      BY <1>5, <3>1, <3>2
    <3>3. CASE ~(k < first)
      <4>1. Figure(k) /\ k - 1 \in first - 1 .. l
        BY <1>6, <3>3 DEF Numeral
      <4> QED
        BY <1>5, <3>1, <3>3, <4>1
    <3> QED
      BY <3>2, <3>3
  <2>2. w = [k \in first - 1 .. l |-> IF k < first THEN 0 ELSE w[k - 1] * 10 + Digit[fmt[k]]]
    BY <2>1
  <2> HIDE DEF w
  <2> DEFINE v[k \in first - 1 .. l] == IF k < first THEN 0 ELSE v[k - 1] * 10 + Digit[fmt[k]]
  <2>3. v = [k \in first - 1 .. l |-> IF k < first THEN 0 ELSE v[k - 1] * 10 + Digit[fmt[k]]]
    BY <2>2, Zenon
  <2>4. Value(fmt, first, l) = v[l]
    BY Zenon DEF Value
  <2> HIDE DEF v
  <2> DEFINE E == {k \in first - 1 .. l : v[k] # f[k]}
  <2>5. E \subseteq Nat /\ \A k : k \in E <=> k \in first - 1 .. l /\ v[k] # f[k]
    OBVIOUS
  <2> HIDE DEF E
  <2>6. ASSUME E # {} PROVE FALSE
    <3>1. PICK k \in E : \A y \in E : k <= y
      BY <2>5, <2>6, Least
    <3>2. k \in first - 1 .. l /\ k \in Nat /\ v[k] # f[k]
      BY <2>5
    <3>3. v[k] = IF k < first THEN 0 ELSE v[k - 1] * 10 + Digit[fmt[k]]
      BY <2>3, <3>2
    <3>4. CASE k < first
      BY <1>5, <3>2, <3>3, <3>4
    <3>5. CASE ~(k < first)
      <4>1. Figure(k) /\ k - 1 \in first - 1 .. l /\ ~(k <= k - 1)
        BY <1>6, <3>2, <3>5 DEF Numeral
      <4>2. v[k - 1] = f[k - 1]
        BY <2>5, <3>1, <4>1
      <4> QED
        BY <1>5, <3>2, <3>3, <3>5, <4>1, <4>2
    <3> QED
      BY <3>4, <3>5
  <2>7. l \in first - 1 .. l
    BY <1>6
  <2> QED
    BY <2>4, <2>5, <2>6, <2>7
<1>7. Value(fmt, first, last) = f[last] /\ f[last] \in Nat
  BY <1>5, <1>6
<1>8. CASE last < first
  BY <1>5, <1>7, <1>8
<1>9. CASE ~(last < first)
  <2>1. last - 1 \in Nat /\ first - 1 <= last - 1 /\ Figure(last)
    BY <1>9 DEF Numeral
  <2>2. Numeral(fmt, first, last - 1)
    BY <2>1 DEF Numeral
  <2>3. Value(fmt, first, last - 1) = f[last - 1]
    BY <1>6, <2>1, <2>2
  <2> QED
    BY <1>5, <1>7, <1>9, <2>1, <2>3
<1> QED
  BY <1>8, <1>9

-----------------------------------------------------------------------------
(* Words.                                                                  *)

\* Multiples of V do not matter to % V.
LEMMA ModIs ==
  ASSUME NEW V \in Nat \ {0}, NEW q \in Int, NEW r \in 0 .. V - 1
  PROVE  (r + V * q) % V = r
<1> DEFINE n == r + V * q
<1>1. n \in Int /\ V * q \in Int
  OBVIOUS
<1> DEFINE d == n \div V
           m == n % V
<1>2. d \in Int /\ m \in 0 .. V - 1 /\ n = V * d + m
  BY <1>1
<1> HIDE DEF d, m
<1> DEFINE e == q - d
<1>3. V * e = V * q - V * d
  BY <1>2
<1>4. V * e = m - r /\ e \in Int
  BY <1>2, <1>3
<1> HIDE DEF e
<1>5. e = 0
  <2>1. ASSUME e >= 1 PROVE FALSE
    <3>1. V * e >= V
      BY <1>4, <2>1
    <3> QED
      BY <1>2, <1>4, <3>1
  <2>2. ASSUME e <= -1 PROVE FALSE
    <3>1. V * e <= -V
      BY <1>4, <2>2
    <3> QED
      BY <1>2, <1>4, <3>1
  <2> QED
    BY <1>4, <2>1, <2>2
<1>6. m = r
  BY <1>2, <1>4, <1>5
<1> QED
  BY <1>6 DEF m, n

\* A number, as a word of some width with anything above it, is read as what
\* it is in that width.
LEMMA SignedIs ==
  ASSUME NEW V \in Nat \ {0}, NEW q \in Int, NEW n \in Int
  PROVE  /\ n % V \in 0 .. V - 1 /\ N!Signed(n, V) \in Int
         /\ N!Signed((n % V) + V * q, V) = N!Signed(n, V)
<1> DEFINE H == V \div 2
           m == n % V
           d == n \div V
           r == (n + H) % V
           e == (n + H) \div V
<1>1. H \in Int /\ m \in 0 .. V - 1 /\ d \in Int /\ n = V * d + m
  OBVIOUS
<1>2. n + H \in Int
  BY <1>1
<1>3. r \in 0 .. V - 1 /\ e \in Int /\ n + H = V * e + r
  BY <1>2
<1> HIDE DEF H, m, d, r, e
<1> DEFINE k == (e - d) + q
<1>4. k \in Int
  BY <1>1, <1>3
<1>5. V * k = (V * e - V * d) + V * q
  BY <1>1, <1>3
<1> HIDE DEF k
<1>6. (r + V * k) % V = r
  BY <1>3, <1>4, ModIs
<1>7. (m + V * q) + H = r + V * k
  BY <1>1, <1>3, <1>5
<1>8. ((m + V * q) + H) % V = r
  BY <1>6, <1>7
<1>9. N!Signed(m + V * q, V) = r - H /\ N!Signed(n, V) = r - H
  BY <1>8 DEF N!Signed, H, r
<1> QED
  BY <1>1, <1>3, <1>9 DEF m

-----------------------------------------------------------------------------
(* What a directive is rendered as.                                        *)

\* Spellings are characters and not signed.
LEMMA Unsigneds ==
  ASSUME NEW s \in Spellings
  PROVE  s \in Seq(Characters) /\ s # <<>> /\ s[1] # "-"
<1>1. AllGlyphs \subseteq Characters /\ "-" \notin AllGlyphs
  BY DEF Characters, Literals, AllGlyphs
<1>2. s \in Seq(AllGlyphs) /\ s # <<>>
  BY DEF Spellings
<1>3. Len(s) \in Nat /\ Len(s) # 0
  BY <1>2
<1>4. s[1] \in AllGlyphs
  BY <1>2, <1>3
<1>5. s \in Seq(Characters)
  BY <1>1, <1>2
<1> QED
  BY <1>1, <1>2, <1>4, <1>5

\* A sign and what it is in front of.
LEMMA SignIs ==
  ASSUME NEW s \in Seq(Characters)
  PROVE  LET t == <<"-">> \o s
         IN  t \in Seq(Characters) /\ t # <<>> /\ t[1] = "-" /\ Tail(t) = s
<1> DEFINE t == <<"-">> \o s
<1>1. <<"-">> \in Seq(Characters)
  BY LiteralsAre
<1>2. t \in Seq(Characters)
  BY <1>1, Joined
<1>3. Len(t) = Len(s) + 1 /\ Len(s) \in Nat
  BY <1>1
<1>4. t[1] = "-" /\ \A k \in 1 .. Len(s) : t[k + 1] = s[k]
  BY <1>1, <1>3
<1> HIDE DEF t
<1>5. t # <<>>
  BY <1>3
<1>6. /\ Tail(t) \in Seq(Characters) /\ Len(Tail(t)) = Len(t) - 1
      /\ \A k \in 1 .. Len(Tail(t)) : Tail(t)[k] = t[k + 1]
  BY <1>2, <1>5, HeadTailProperties, Zenon
<1>7. Len(Tail(t)) = Len(s) /\ \A k \in 1 .. Len(s) : Tail(t)[k] = s[k]
  BY <1>3, <1>4, <1>6
<1>8. Tail(t) = s
  BY <1>6, <1>7, SeqEqual, Zenon
<1> QED
  BY <1>2, <1>4, <1>5, <1>8 DEF t

\* A signed number is a spelling, behind a sign if it is negative.
LEMMA DecimalIs ==
  ASSUME NEW n \in Int
  PROVE  /\ Decimal(n) \in Seq(Characters) /\ Decimal(n) # <<>>
         /\ n >= 0 => Decimal(n)[1] # "-"
         /\ n < 0 => /\ Decimal(n)[1] = "-" /\ Decimal(-n) \in Seq(Characters)
                     /\ Decimal(n) = <<"-">> \o Decimal(-n)
                     /\ Tail(Decimal(n)) = Decimal(-n)
<1>1. ASSUME NEW m \in Int, m >= 0
      PROVE  Decimal(m) = Spelled(m, 10, FALSE) /\ Decimal(m) \in Spellings
  <2>1. ~(m < 0) /\ Abs(m) = m /\ m \in Nat
    BY <1>1 DEF Abs
  <2>2. Spelled(m, 10, FALSE) \in Spellings
    BY <2>1, SpelledIs
  <2>3. Spelled(m, 10, FALSE) \in Seq(Characters)
    BY <2>2, Unsigneds
  <2>4. <<>> \o Spelled(m, 10, FALSE) = Spelled(m, 10, FALSE)
    BY <2>3, ConcatEmptySeq
  <2> QED
    BY <2>1, <2>2, <2>4 DEF Decimal
<1>2. CASE n >= 0
  <2>1. Decimal(n) \in Spellings
    BY <1>1, <1>2, Zenon
  <2>3. ~(n < 0)
    BY <1>2
  <2>2. Decimal(n) \in Seq(Characters) /\ Decimal(n) # <<>> /\ Decimal(n)[1] # "-"
    BY <2>1, Unsigneds, Zenon
  <2> QED
    BY <2>2, <2>3
<1>3. CASE n < 0
  <2>1. -n \in Int /\ -n >= 0 /\ Abs(n) = -n
    BY <1>3 DEF Abs
  <2>2. Decimal(-n) = Spelled(-n, 10, FALSE) /\ Decimal(-n) \in Seq(Characters)
    BY <1>1, <2>1, Unsigneds
  <2>3. Decimal(n) = <<"-">> \o Decimal(-n)
    BY <1>3, <2>1, <2>2 DEF Decimal
  <2> QED
    BY <1>3, <2>2, <2>3, SignIs
<1> QED
  BY <1>2, <1>3

\* A field without width adds nothing.
LEMMA PadNone ==
  ASSUME NEW s \in Seq(Characters), NEW width \in Int, width <= 0, NEW c, NEW left
  PROVE  Pad(s, width, c, left) = s
<1>1. ~(width - Len(s) > 0)
  OBVIOUS
<1>2. ASSUME NEW x PROVE Fill(x, width - Len(s)) = <<>>
  BY <1>1 DEF Fill
<1>3. s \o <<>> = s /\ <<>> \o s = s
  BY ConcatEmptySeq
<1>4. CASE left
  BY <1>2, <1>3, <1>4, Zenon DEF Pad
<1>5. CASE ~left
  BY <1>2, <1>3, <1>5, Zenon DEF Pad
<1> QED
  BY <1>4, <1>5

\* The conversions of numbers, and all there are.
Numeric == {"d", "u", "x", "X"}
Known == Numeric \cup {"p", "s", "c"}

\* The number a directive is given is an integer.
LEMMA PassedIs ==
  ASSUME NEW arg \in Args, NEW d
  PROVE  Passed(d, arg) \in Int
<1>1. IntValues \in Nat \ {0} /\ LongValues \in Nat \ {0} /\ arg.number \in Int /\ 0 \in Int
  BY FormatAssumption
<1>2. N!Signed(arg.number, IntValues) \in Int
  BY <1>1, SignedIs, Zenon
<1>3. N!Signed(arg.number, LongValues) \in Int
  BY <1>1, SignedIs, Zenon
<1> QED
  BY <1>2, <1>3 DEF Passed, N!ToInt, N!ToLong

\* What d would have in a field as wide as itself.
LEMMA PlainIs ==
  ASSUME NEW arg \in Args, NEW d, d.spec \in Known \cup Characters
  PROVE  /\ Plain(d, arg) \in Seq(Characters)
         /\ d.spec \in Numeric => Plain(d, arg) # <<>>
         /\ d.spec \in Numeric \ {"d"} => Plain(d, arg)[1] # "-"
<1>1. /\ arg.number \in Int /\ IntValues \in Nat \ {0} /\ LongValues \in Nat \ {0}
      /\ arg.string \in Seq(Range(arg.string))
  BY FormatAssumption
<1>2. ASSUME NEW V \in Nat \ {0} PROVE arg.number % V \in Nat
  BY <1>1
<1>3. CASE d.spec = "d"
  <2>1. Plain(d, arg) = Decimal(Passed(d, arg)) /\ Passed(d, arg) \in Int
    BY <1>3, PassedIs, Zenon DEF Plain
  <2> QED
    BY <1>3, <2>1, DecimalIs
<1>4. CASE d.spec \in {"u", "x", "X"}
  <2> DEFINE V == IF d.mods = {} THEN IntValues ELSE LongValues
  <2>1. V \in Nat \ {0}
    BY <1>1
  <2>2. Plain(d, arg) = Unsigned(arg.number % V, d.spec)
    BY <1>4 DEF Plain
  <2> HIDE DEF V
  <2>3. arg.number % V \in Nat /\ Base(d.spec) \in {10, 16}
    BY <1>2, <2>1 DEF Base
  <2>4. Plain(d, arg) \in Spellings
    BY <2>2, <2>3, SpelledIs DEF Unsigned
  <2> QED
    BY <2>4, Unsigneds
<1>5. CASE d.spec = "p"
  <2>1. Spelled(N!ToULong(arg.number), 16, FALSE) \in Seq(Characters)
    BY <1>1, <1>2, SpelledChars DEF N!ToULong
  <2>2. Plain(d, arg) = Address(arg)
    BY <1>5 DEF Plain
  <2> QED
    BY <1>5, <2>1, <2>2, LiteralsAre, Joined DEF Address, Numeric
<1>6. CASE d.spec = "s"
  <2>1. Plain(d, arg) = Text(arg)
    BY <1>6 DEF Plain
  <2>2. arg.string \in Seq(Characters)
    <3>1. Range(arg.string) \subseteq Characters
      BY DEF Given, Characters
    <3> QED
      BY <1>1, <3>1
  <2> QED
    BY <1>6, <2>1, <2>2, LiteralsAre DEF Text, Numeric
<1>7. CASE d.spec = "c"
  BY <1>7, LiteralsAre DEF Plain, Character, Numeric
<1>8. CASE d.spec \notin Known
  <2>1. Plain(d, arg) = <<"%", d.spec>>
    BY <1>8 DEF Plain, Known, Numeric
  <2> QED
    BY <1>8, <2>1, LiteralsAre, PairIs DEF Known
<1> QED
  BY <1>3, <1>4, <1>5, <1>6, <1>7, <1>8 DEF Known, Numeric

\* A number in front of which zeros go behind the sign.
Split(d, arg) == d.flags = {"0"} /\ d.spec \in Numeric /\ Plain(d, arg)[1] = "-"

\* How it is rendered then, and how else.
LEMMA RenderedIs ==
  ASSUME NEW arg \in Args, NEW d, d.spec \in Known \cup Characters, d.width \in Nat
  PROVE  LET s == Plain(d, arg)
         IN  /\ Rendered(d, arg) \in Seq(Characters)
             /\ Split(d, arg) =>
                  Rendered(d, arg) = <<"-">> \o Pad(Tail(s), d.width - 1, "0", FALSE)
             /\ ~Split(d, arg) =>
                  Rendered(d, arg)
                    = Pad(s, d.width, IF d.flags = {"0"} /\ d.spec \in Numeric THEN "0" ELSE " ",
                          "-" \in d.flags)
<1> DEFINE s == Plain(d, arg)
<1>1. s \in Seq(Characters) /\ d.width \in Int /\ d.width - 1 \in Int
  BY PlainIs
<1>2. CASE Split(d, arg)
  <2>1. s # <<>> /\ Tail(s) \in Seq(Characters)
    BY <1>1, <1>2, PlainIs DEF Split
  <2>2. Rendered(d, arg) = <<"-">> \o Pad(Tail(s), d.width - 1, "0", FALSE)
    BY <1>2 DEF Split, Rendered, Numeric
  <2>3. Pad(Tail(s), d.width - 1, "0", FALSE) \in Seq(Characters)
    BY <1>1, <2>1, LiteralsAre, PadIs
  <2> QED
    BY <1>2, <2>2, <2>3, LiteralsAre, Joined
<1>3. CASE ~Split(d, arg)
  <2> DEFINE x == IF d.flags = {"0"} /\ d.spec \in Numeric THEN "0" ELSE " "
  <2>1. Rendered(d, arg) = Pad(s, d.width, x, "-" \in d.flags)
    BY <1>3 DEF Split, Rendered, Numeric
  <2>2. x \in Characters
    BY LiteralsAre
  <2> HIDE DEF x
  <2>3. Pad(s, d.width, x, "-" \in d.flags) \in Seq(Characters)
    BY <1>1, <2>2, PadIs
  <2> QED
    BY <1>3, <2>1, <2>3 DEF x
<1> QED
  BY <1>2, <1>3

\* The scanner has read d.
ReadAs(d) ==
  /\ (dir.left <=> "-" \in d.flags) /\ (dir.zero <=> "0" \in d.flags)
  /\ dir.width = d.width /\ dir.mods = d.mods
  /\ d.flags \subseteq Flag /\ d.width \in Nat /\ d.mods \subseteq Length

\* A number is read as what was passed.
LEMMA WordRead ==
  ASSUME CallOK, NEW junk \in Junk, NEW d, dir.mods = d.mods, d.mods \subseteq Length,
         "h" \notin d.mods
  PROVE  LET w == Word(dir.mods, junk)
         IN  /\ ReadSigned(w) = Passed(d, call.arg)
             /\ ReadUnsigned(w)
                  = call.arg.number % (IF d.mods = {} THEN IntValues ELSE LongValues)
<1> DEFINE n == call.arg.number
           w == Word(dir.mods, junk)
<1>1. /\ IntValues \in Nat \ {0} /\ LongValues \in Nat \ {0} /\ junk \in Int /\ n \in Int
  BY FormatAssumption DEF CallOK
<1> HIDE DEF n
<1>2. CASE d.mods = {}
  <2>1. w = (n % IntValues) + IntValues * junk
    BY <1>2 DEF Word, n
  <2>2. /\ n % IntValues \in 0 .. IntValues - 1
        /\ N!Signed((n % IntValues) + IntValues * junk, IntValues) = N!Signed(n, IntValues)
    BY <1>1, SignedIs, Zenon
  <2>3. N!Signed(w, IntValues) = N!Signed(n, IntValues)
    BY <2>1, <2>2, Zenon
  <2>4. w % IntValues = n % IntValues
    BY <1>1, <2>1, <2>2, ModIs
  <2> HIDE DEF w
  <2>5. ReadSigned(w) = N!Signed(n, IntValues) /\ ReadUnsigned(w) = n % IntValues
    BY <1>2, <2>3, <2>4 DEF ReadSigned, ReadUnsigned, N!ToInt
  <2> QED
    BY <1>2, <2>5 DEF w, n, Passed, N!ToInt
<1>3. CASE d.mods # {}
  <2>1. dir.mods \cap {"l", "z"} # {}
    BY <1>3 DEF Length
  <2>2. w = n % LongValues
    BY <2>1 DEF Word, N!ToULong, n
  <2>3. /\ n % LongValues \in 0 .. LongValues - 1
        /\ N!Signed((n % LongValues) + LongValues * 0, LongValues) = N!Signed(n, LongValues)
    <3>1. 0 \in Int
      OBVIOUS
    <3> QED
      BY <1>1, <3>1, SignedIs, Zenon
  <2>4. (n % LongValues) + LongValues * 0 = n % LongValues
    BY <1>1, <2>3
  <2>5. N!Signed(w, LongValues) = N!Signed(n, LongValues)
    BY <2>2, <2>3, <2>4
  <2> HIDE DEF w
  <2>6. ReadSigned(w) = N!Signed(n, LongValues) /\ ReadUnsigned(w) = n % LongValues
    BY <1>3, <2>2, <2>5 DEF ReadSigned, ReadUnsigned, N!ToLong
  <2> QED
    BY <1>3, <2>6 DEF w, n, Passed, N!ToLong
<1> QED
  BY <1>2, <1>3

\* What both interpreters are about to pad, for a directive that is on.
LEMMA Converts ==
  ASSUME CallOK, NEW junk \in Junk, NEW d, ReadAs(d), d.spec \in Known, ~Off(d)
  PROVE  LET w == Word(dir.mods, junk)
             n == Passed(d, call.arg)
             s == Plain(d, call.arg)
         IN  /\ Written(d.spec, w) = Pad(s, dir.width, ZeroPad, dir.left)
             /\ d.spec = "d" =>
                  /\ s = Decimal(n)
                  /\ n < 0 => Emitted(d.spec, w)
                                = <<"-">> \o Pad(Decimal(-n), dir.width - 1, ZeroPad, FALSE)
                  /\ n >= 0 => Emitted(d.spec, w) = Pad(s, dir.width, ZeroPad, FALSE)
             /\ d.spec \in {"u", "x", "X"} =>
                  Emitted(d.spec, w) = Pad(s, dir.width, ZeroPad, FALSE)
             /\ d.spec \in {"p", "c"} => Emitted(d.spec, w) = s
             /\ d.spec = "s" => Emitted(d.spec, w) = Pad(s, dir.width, " ", dir.left)
<1> DEFINE w == Word(dir.mods, junk)
           n == Passed(d, call.arg)
           s == Plain(d, call.arg)
<1>1. d.spec \in Numeric =>
        /\ ReadSigned(w) = n
        /\ ReadUnsigned(w)
             = call.arg.number % (IF d.mods = {} THEN IntValues ELSE LongValues)
  BY WordRead DEF ReadAs, Off, Numeric
<1>2. n \in Int
  BY PassedIs DEF CallOK
<1> HIDE DEF w
<1>3. CASE d.spec = "d"
  <2>1. s = Decimal(n) /\ ReadSigned(w) = n
    BY <1>1, <1>3 DEF Plain, Numeric
  <2>2. Written(d.spec, w) = Pad(s, dir.width, ZeroPad, dir.left)
    BY <1>3, <2>1 DEF Written
  <2>3. n < 0 => Emitted(d.spec, w)
                   = <<"-">> \o Pad(Decimal(-n), dir.width - 1, ZeroPad, FALSE)
    <3>1. SUFFICES ASSUME n < 0
                   PROVE  Emitted(d.spec, w)
                            = <<"-">> \o Pad(Decimal(-n), dir.width - 1, ZeroPad, FALSE)
      OBVIOUS
    <3>2. ReadSigned(w) < 0 /\ ~(ReadSigned(w) >= 0)
      BY <1>2, <2>1, <3>1
    <3>3. Emitted(d.spec, w)
            = <<"-">> \o Pad(Decimal(-ReadSigned(w)), dir.width - 1, ZeroPad, FALSE)
      BY <1>3, <3>2, Zenon DEF Emitted
    <3> QED
      BY <2>1, <3>3, Zenon
  <2>4. n >= 0 => Emitted(d.spec, w) = Pad(s, dir.width, ZeroPad, FALSE)
    <3>1. SUFFICES ASSUME n >= 0 PROVE Emitted(d.spec, w) = Pad(s, dir.width, ZeroPad, FALSE)
      OBVIOUS
    <3>2. ReadSigned(w) >= 0 /\ ~(ReadSigned(w) < 0)
      BY <1>2, <2>1, <3>1
    <3>3. Emitted(d.spec, w) = Pad(Decimal(ReadSigned(w)), dir.width, ZeroPad, FALSE)
      BY <1>3, <3>2, Zenon DEF Emitted
    <3> QED
      BY <2>1, <3>3, Zenon
  <2> HIDE DEF s
  <2> QED
    BY <1>3, <2>1, <2>2, <2>3, <2>4 DEF w, s
<1>4. CASE d.spec \in {"u", "x", "X"}
  <2>1. s = Unsigned(call.arg.number % (IF d.mods = {} THEN IntValues ELSE LongValues), d.spec)
    BY <1>4 DEF Plain
  <2>2. s = Unsigned(ReadUnsigned(w), d.spec)
    BY <1>1, <1>4, <2>1 DEF Numeric
  <2>3. Written(d.spec, w) = Pad(s, dir.width, ZeroPad, dir.left)
    BY <1>4, <2>2 DEF Written
  <2>4. Emitted(d.spec, w) = Pad(s, dir.width, ZeroPad, FALSE)
    BY <1>4, <2>2 DEF Emitted
  <2> HIDE DEF s
  <2> QED
    BY <1>4, <2>3, <2>4 DEF w, s
<1>5. CASE d.spec = "p"
  BY <1>5 DEF Plain, Written, Emitted, w
<1>6. CASE d.spec = "s"
  BY <1>6 DEF Plain, Written, Emitted, w
<1>7. CASE d.spec = "c"
  BY <1>7 DEF Plain, Written, Emitted, w
<1> QED
  BY <1>3, <1>4, <1>5, <1>6, <1>7 DEF Known, Numeric

\* A field to the left is filled with blanks, whatever the character.
LEMMA PadLeft ==
  ASSUME NEW s, NEW width, NEW x, NEW y, NEW a, NEW b, a, b
  PROVE  Pad(s, width, x, a) = Pad(s, width, y, b)
BY Zenon DEF Pad

\* One to the right does not care how the flag was written down.
LEMMA PadRight ==
  ASSUME NEW s, NEW width, NEW x, NEW a, NEW b, ~a, ~b
  PROVE  Pad(s, width, x, a) = Pad(s, width, x, b)
BY Zenon DEF Pad

\* Both interpreters render a directive that is on as C does.
LEMMA Renders ==
  ASSUME CallOK, DirOK, NEW junk \in Junk, NEW d, ReadAs(d), d.spec \in Known, ~Off(d)
  PROVE  Converted(d.spec, Word(dir.mods, junk)) = Rendered(d, call.arg)
<1> DEFINE w == Word(dir.mods, junk)
           n == Passed(d, call.arg)
           s == Plain(d, call.arg)
           r == Rendered(d, call.arg)
           x == IF d.flags = {"0"} /\ d.spec \in Numeric THEN "0" ELSE " "
<1>1. /\ s \in Seq(Characters) /\ n \in Int
      /\ d.spec \in Numeric \ {"d"} => s[1] # "-"
      /\ d.width \in Nat /\ dir.width = d.width
  BY PassedIs, PlainIs DEF CallOK, ReadAs
<1>2. /\ Split(d, call.arg) => r = <<"-">> \o Pad(Tail(s), d.width - 1, "0", FALSE)
      /\ ~Split(d, call.arg) => r = Pad(s, d.width, x, "-" \in d.flags)
  BY RenderedIs DEF CallOK, ReadAs
<1>3. /\ Written(d.spec, w) = Pad(s, d.width, ZeroPad, dir.left)
      /\ d.spec = "d" =>
           /\ s = Decimal(n)
           /\ n < 0 => Emitted(d.spec, w)
                         = <<"-">> \o Pad(Decimal(-n), d.width - 1, ZeroPad, FALSE)
           /\ n >= 0 => Emitted(d.spec, w) = Pad(s, d.width, ZeroPad, FALSE)
      /\ d.spec \in {"u", "x", "X"} => Emitted(d.spec, w) = Pad(s, d.width, ZeroPad, FALSE)
      /\ d.spec \in {"p", "c"} => Emitted(d.spec, w) = s
      /\ d.spec = "s" => Emitted(d.spec, w) = Pad(s, d.width, " ", dir.left)
  BY <1>1, Converts, Zenon
<1>4. /\ n >= 0 /\ d.spec = "d" => s[1] # "-"
      /\ n < 0 /\ d.spec = "d" =>
           /\ s[1] = "-" /\ Decimal(-n) \in Seq(Characters)
           /\ s = <<"-">> \o Decimal(-n) /\ Tail(s) = Decimal(-n)
  <2>1. d.spec = "d" => s = Decimal(n)
    BY <1>3
  <2> HIDE DEF s, n
  <2> QED
    BY <1>1, <2>1, DecimalIs, Zenon
<1>5. n < 0 \/ n >= 0
  BY <1>1
<1>6. Split(d, call.arg) <=> d.flags = {"0"} /\ d.spec = "d" /\ n < 0
  <2>1. ASSUME Split(d, call.arg) PROVE d.flags = {"0"} /\ d.spec = "d" /\ n < 0
    <3>1. d.flags = {"0"} /\ d.spec \in Numeric /\ s[1] = "-"
      BY <2>1 DEF Split
    <3> HIDE DEF s, n
    <3> QED
      BY <1>1, <1>4, <1>5, <3>1
  <2>2. ASSUME d.flags = {"0"}, d.spec = "d", n < 0 PROVE Split(d, call.arg)
    <3>1. s[1] = "-"
      BY <1>4, <2>2, Zenon
    <3> QED
      BY <2>2, <3>1 DEF Split, Numeric
  <2> QED
    BY <2>1, <2>2
<1> HIDE DEF s, n, w, r, x
<1>7. ASSUME d.width = 0 PROVE Written(d.spec, w) = r /\ Emitted(d.spec, w) = r
  <2>1. d.width \in Int /\ d.width - 1 \in Int /\ d.width <= 0 /\ d.width - 1 <= 0
    BY <1>1, <1>7
  <2>2. r = s
    <3>1. CASE Split(d, call.arg)
      <4>1. Tail(s) \in Seq(Characters) /\ s = <<"-">> \o Tail(s)
        BY <1>4, <1>6, <3>1, Zenon
      <4>2. Pad(Tail(s), d.width - 1, "0", FALSE) = Tail(s)
        BY <2>1, <4>1, PadNone, Zenon
      <4> QED
        BY <1>2, <3>1, <4>1, <4>2, Zenon
    <3>2. CASE ~Split(d, call.arg)
      <4>1. Pad(s, d.width, x, "-" \in d.flags) = s
        BY <1>1, <2>1, PadNone, Zenon
      <4> QED
        BY <1>2, <3>2, <4>1, Zenon
    <3> QED
      BY <3>1, <3>2
  <2>3. Written(d.spec, w) = s
    <3>1. Pad(s, d.width, ZeroPad, dir.left) = s
      BY <1>1, <2>1, PadNone, Zenon
    <3> QED
      BY <1>3, <3>1, Zenon
  <2>4. Emitted(d.spec, w) = s
    <3>1. CASE d.spec = "d" /\ n < 0
      <4>1. Pad(Decimal(-n), d.width - 1, ZeroPad, FALSE) = Decimal(-n)
        BY <1>4, <2>1, <3>1, PadNone, Zenon
      <4> QED
        BY <1>3, <1>4, <3>1, <4>1, Zenon
    <3>2. CASE d.spec = "s"
      <4>1. Pad(s, d.width, " ", dir.left) = s
        BY <1>1, <2>1, PadNone, Zenon
      <4> QED
        BY <1>3, <3>2, <4>1, Zenon
    <3>3. CASE d.spec \in {"p", "c"}
      BY <1>3, <3>3, Zenon
    <3>4. CASE d.spec \in {"u", "x", "X"} \/ (d.spec = "d" /\ n >= 0)
      <4>1. Pad(s, d.width, ZeroPad, FALSE) = s
        BY <1>1, <2>1, PadNone, Zenon
      <4> QED
        BY <1>3, <3>4, <4>1, Zenon
    <3> QED
      BY <1>5, <3>1, <3>2, <3>3, <3>4 DEF Known, Numeric
  <2> QED
    BY <2>2, <2>3, <2>4
<1>8. ASSUME d.width > 0 PROVE Converted(d.spec, w) = r
  <2>1. /\ d.flags \subseteq {"-", "0"}
        /\ (dir.left <=> "-" \in d.flags) /\ (dir.zero <=> "0" \in d.flags)
    BY DEF ReadAs, Flag
  <2>2. "-" \notin d.flags =>
          (d.flags = {} /\ ZeroPad = " ") \/ (d.flags = {"0"} /\ ZeroPad = "0")
    <3>1. "-" \notin d.flags => d.flags = {} \/ d.flags = {"0"}
      BY <2>1
    <3> QED
      BY <2>1, <3>1 DEF ZeroPad
  <2>3. CASE call.fn = "printf"
    <3>1. Converted(d.spec, w) = Emitted(d.spec, w)
      BY <2>3 DEF Converted
    <3>2. CASE d.spec \in Numeric
      <4>1. "-" \notin d.flags /\ (d.spec = "d" /\ n < 0 => d.flags # {})
        BY <1>8, <2>3, <3>2 DEF Off, Numeric, n
      <4>2. CASE d.spec = "d" /\ n < 0
        <5>1. d.flags = {"0"} /\ ZeroPad = "0" /\ Split(d, call.arg)
          BY <1>6, <2>2, <4>1, <4>2
        <5> QED
          BY <1>2, <1>3, <1>4, <3>1, <4>2, <5>1
      <4>3. CASE ~(d.spec = "d" /\ n < 0)
        <5>1. Emitted(d.spec, w) = Pad(s, d.width, ZeroPad, FALSE)
          BY <1>3, <1>5, <3>2, <4>3 DEF Numeric
        <5>2. x = ZeroPad
          BY <2>2, <3>2, <4>1 DEF x
        <5>3. r = Pad(s, d.width, ZeroPad, "-" \in d.flags)
          BY <1>2, <1>6, <4>3, <5>2
        <5>4. Pad(s, d.width, ZeroPad, "-" \in d.flags) = Pad(s, d.width, ZeroPad, FALSE)
          BY <4>1, PadRight, Zenon
        <5> QED
          BY <3>1, <5>1, <5>3, <5>4
      <4> QED
        BY <4>2, <4>3
    <3>3. CASE d.spec \in {"p", "c"}
      BY <1>8, <2>3, <3>3 DEF Off
    <3>4. CASE d.spec = "s"
      <4>1. r = Pad(s, d.width, " ", "-" \in d.flags)
        BY <1>2, <1>6, <3>4 DEF x, Numeric
      <4>2. Pad(s, d.width, " ", "-" \in d.flags) = Pad(s, d.width, " ", dir.left)
        <5>1. CASE "-" \in d.flags
          BY <2>1, <5>1, PadLeft, Zenon
        <5>2. CASE "-" \notin d.flags
          BY <2>1, <5>2, PadRight, Zenon
        <5> QED
          BY <5>1, <5>2
      <4> QED
        BY <1>3, <3>1, <3>4, <4>1, <4>2
    <3> QED
      BY <3>2, <3>3, <3>4 DEF Known
  <2>4. CASE call.fn # "printf"
    <3>1. Converted(d.spec, w) = Pad(s, d.width, ZeroPad, dir.left)
      BY <1>3, <2>4 DEF Converted
    <3>2. ~(d.flags = {"0"} /\ (d.spec \in {"p", "s", "c"} \/ (d.spec = "d" /\ n < 0)))
      BY <1>8, <2>4 DEF Off, n
    <3>3. r = Pad(s, d.width, x, "-" \in d.flags)
      BY <1>2, <1>6, <3>2
    <3>4. CASE "-" \in d.flags
      BY <2>1, <3>1, <3>3, <3>4, PadLeft, Zenon
    <3>5. CASE "-" \notin d.flags
      <4>1. x = ZeroPad
        BY <2>2, <3>2, <3>5 DEF x, Known
      <4> QED
        BY <2>1, <3>1, <3>3, <3>5, <4>1, PadRight, Zenon
    <3> QED
      BY <3>4, <3>5
  <2> QED
    BY <2>3, <2>4
<1>9. d.width = 0 \/ d.width > 0
  BY <1>1
<1> QED
  BY <1>7, <1>8, <1>9 DEF Converted, w, r

\* Formats are characters, and none is the terminator.
LEMMA FormatIs ==
  ASSUME NEW fmt \in Formats
  PROVE  /\ fmt \in Seq(Characters) /\ Len(fmt) \in Nat
         /\ \A j \in 1 .. Len(fmt) : fmt[j] \in Characters /\ fmt[j] # "nul"
<1>1. fmt \in Seq(Range(fmt)) /\ "nul" \notin Range(fmt) /\ Range(fmt) \subseteq Characters
  BY FormatAssumption DEF Given, Characters
<1>2. fmt \in Seq(Characters)
  BY <1>1
<1>3. Len(fmt) \in Nat /\ \A j \in 1 .. Len(fmt) : fmt[j] \in Range(fmt)
  BY <1>1
<1> QED
  BY <1>1, <1>2, <1>3

\* Where the parts of the directive from k on end.
FlagsEnd(fmt, k) == Past(fmt, k, Flag)
WidthEnd(fmt, k) == Past(fmt, FlagsEnd(fmt, k), DOMAIN Digit)
Precise(fmt, p) == p <= Len(fmt) /\ fmt[p] = "."
PrecisionEnd(fmt, k) ==
  LET p == WidthEnd(fmt, k) IN IF Precise(fmt, p) THEN Past(fmt, p + 1, DOMAIN Digit) ELSE p
ModsEnd(fmt, k) == Past(fmt, PrecisionEnd(fmt, k), Length)

\* They end one behind the other.
LEMMA EndsAre ==
  ASSUME NEW fmt \in Formats, NEW k \in 1 .. Len(fmt) + 1
  PROVE  /\ IsPast(fmt, k, Flag, FlagsEnd(fmt, k))
         /\ IsPast(fmt, FlagsEnd(fmt, k), DOMAIN Digit, WidthEnd(fmt, k))
         /\ Precise(fmt, WidthEnd(fmt, k)) =>
              IsPast(fmt, WidthEnd(fmt, k) + 1, DOMAIN Digit, PrecisionEnd(fmt, k))
         /\ ~Precise(fmt, WidthEnd(fmt, k)) => PrecisionEnd(fmt, k) = WidthEnd(fmt, k)
         /\ IsPast(fmt, PrecisionEnd(fmt, k), Length, ModsEnd(fmt, k))
         /\ FlagsEnd(fmt, k) \in k .. Len(fmt) + 1
         /\ WidthEnd(fmt, k) \in FlagsEnd(fmt, k) .. Len(fmt) + 1
         /\ PrecisionEnd(fmt, k) \in WidthEnd(fmt, k) .. Len(fmt) + 1
         /\ ModsEnd(fmt, k) \in PrecisionEnd(fmt, k) .. Len(fmt) + 1
<1> DEFINE w == FlagsEnd(fmt, k)
           p == WidthEnd(fmt, k)
           l == PrecisionEnd(fmt, k)
           c == ModsEnd(fmt, k)
           n == Len(fmt) + 1
<1>1. Len(fmt) \in Nat
  BY FormatIs
<1>2. IsPast(fmt, k, Flag, w)
  BY <1>1, PastIs DEF FlagsEnd
<1>3. w \in k .. n /\ w \in 1 .. n
  BY <1>1, <1>2 DEF IsPast
<1>4. IsPast(fmt, w, DOMAIN Digit, p)
  BY <1>1, <1>3, PastIs DEF WidthEnd
<1>5. p \in w .. n /\ p \in 1 .. n
  BY <1>1, <1>3, <1>4 DEF IsPast
<1>6. CASE Precise(fmt, p)
  <2>1. p + 1 \in 1 .. n
    BY <1>1, <1>5, <1>6 DEF Precise
  <2>2. l = Past(fmt, p + 1, DOMAIN Digit)
    BY <1>6 DEF PrecisionEnd
  <2>3. IsPast(fmt, p + 1, DOMAIN Digit, l)
    BY <1>1, <2>1, <2>2, PastIs
  <2>4. l \in p .. n /\ l \in 1 .. n
    BY <1>1, <1>5, <2>1, <2>3 DEF IsPast
  <2>5. IsPast(fmt, l, Length, c)
    BY <1>1, <2>4, PastIs DEF ModsEnd
  <2>6. c \in l .. n
    BY <2>5 DEF IsPast
  <2> HIDE DEF w, p, l, c, n
  <2>7. IsPast(fmt, k, Flag, w) /\ IsPast(fmt, w, DOMAIN Digit, p) /\ w \in k .. n /\ p \in w .. n
    BY <1>2, <1>3, <1>4, <1>5
  <2> QED
    BY <1>6, <2>3, <2>4, <2>5, <2>6, <2>7 DEF w, p, l, c, n
<1>7. CASE ~Precise(fmt, p)
  <2>1. l = p
    BY <1>7 DEF PrecisionEnd
  <2>2. l \in p .. n /\ l \in 1 .. n
    BY <1>1, <1>5, <2>1
  <2>3. IsPast(fmt, l, Length, c)
    BY <1>1, <2>2, PastIs DEF ModsEnd
  <2>4. c \in l .. n
    BY <2>3 DEF IsPast
  <2> HIDE DEF w, p, l, c, n
  <2>5. IsPast(fmt, k, Flag, w) /\ IsPast(fmt, w, DOMAIN Digit, p) /\ w \in k .. n /\ p \in w .. n
    BY <1>2, <1>3, <1>4, <1>5
  <2> QED
    BY <1>7, <2>1, <2>2, <2>3, <2>4, <2>5 DEF w, p, l, c, n
<1> QED
  BY <1>6, <1>7

\* A directive by its parts.
LEMMA ParsedIs ==
  ASSUME NEW fmt \in Formats, NEW k \in 1 .. Len(fmt) + 1
  PROVE  LET d == Parsed(fmt, k)
             w == FlagsEnd(fmt, k)
             p == WidthEnd(fmt, k)
             l == PrecisionEnd(fmt, k)
             c == ModsEnd(fmt, k)
         IN  /\ d.flags = {fmt[j] : j \in k .. w - 1} /\ d.flags \subseteq Flag
             /\ d.width = Value(fmt, w, p - 1) /\ d.width \in Nat
             /\ d.mods = {fmt[j] : j \in l .. c - 1} /\ d.mods \subseteq Length
             /\ d.spec = (IF c <= Len(fmt) THEN fmt[c] ELSE "nul") /\ d.spec \in Characters
             /\ d.last = c /\ c \in k .. Len(fmt) + 1
<1> DEFINE d == Parsed(fmt, k)
           w == FlagsEnd(fmt, k)
           p == WidthEnd(fmt, k)
           l == PrecisionEnd(fmt, k)
           c == ModsEnd(fmt, k)
<1>1. d = [flags |-> {fmt[j] : j \in k .. w - 1},
           width |-> Value(fmt, w, p - 1),
           mods  |-> {fmt[j] : j \in l .. c - 1},
           spec  |-> IF c <= Len(fmt) THEN fmt[c] ELSE "nul",
           last  |-> c]
  BY Zenon DEF Parsed, FlagsEnd, WidthEnd, PrecisionEnd, ModsEnd, Precise
<1>2. /\ IsPast(fmt, k, Flag, w) /\ IsPast(fmt, w, DOMAIN Digit, p) /\ IsPast(fmt, l, Length, c)
      /\ w \in k .. Len(fmt) + 1 /\ p \in w .. Len(fmt) + 1
      /\ l \in p .. Len(fmt) + 1 /\ c \in l .. Len(fmt) + 1
  BY EndsAre
<1>3. Len(fmt) \in Nat
  BY FormatIs
<1> HIDE DEF d, w, p, l, c
<1>4. c \in k .. Len(fmt) + 1 /\ c \in 1 .. Len(fmt) + 1
  BY <1>2, <1>3
<1>5. Value(fmt, w, p - 1) \in Nat
  <2>1. w \in Nat \ {0} /\ p - 1 \in Nat /\ w - 1 <= p - 1
    BY <1>2, <1>3
  <2>2. Numeral(fmt, w, p - 1)
    BY <1>2 DEF IsPast, Numeral
  <2> QED
    BY <2>1, <2>2, ValueIs
<1>6. (IF c <= Len(fmt) THEN fmt[c] ELSE "nul") \in Characters
  <2>1. c <= Len(fmt) => c \in 1 .. Len(fmt)
    BY <1>3, <1>4
  <2>2. c <= Len(fmt) => fmt[c] \in Characters
    BY <2>1, FormatIs
  <2> QED
    BY <2>2, LiteralsAre
<1>7. {fmt[j] : j \in k .. w - 1} \subseteq Flag /\ {fmt[j] : j \in l .. c - 1} \subseteq Length
  BY <1>2 DEF IsPast
<1>8. /\ d.flags = {fmt[j] : j \in k .. w - 1} /\ d.width = Value(fmt, w, p - 1)
      /\ d.mods = {fmt[j] : j \in l .. c - 1} /\ d.last = c
      /\ d.spec = IF c <= Len(fmt) THEN fmt[c] ELSE "nul"
  BY <1>1
<1> QED
  BY <1>4, <1>5, <1>6, <1>7, <1>8, Zenon DEF d, w, p, l, c

-----------------------------------------------------------------------------
(* What the rest of a format means.                                        *)

\* How from of Meaning goes on at k.
Goes(from, fmt, arg, k) ==
  IF k > Len(fmt) THEN <<>>
  ELSE IF fmt[k] # "%" THEN <<fmt[k]>> \o from[k + 1]
  ELSE IF k = Len(fmt) THEN <<>>
  ELSE IF fmt[k + 1] = "%" THEN <<"%">> \o from[k + 2]
  ELSE IF Parsed(fmt, k + 1).spec = "nul" THEN <<>>
  ELSE Rendered(Parsed(fmt, k + 1), arg) \o from[Parsed(fmt, k + 1).last + 1]

\* h has at n what from has n characters before the end.
Turned(h, from, fmt) == \A k \in 1 .. Len(fmt) + 1 : from[k] = h[Len(fmt) + 1 - k]

\* Then h goes on from smaller numbers.
More(h, fmt, arg, n) ==
  LET k == Len(fmt) + 1 - n
      d == Parsed(fmt, k + 1)
  IN  IF n = 0 \/ n > Len(fmt) THEN <<>>
      ELSE IF fmt[k] # "%" THEN <<fmt[k]>> \o h[n - 1]
      ELSE IF n = 1 THEN <<>>
      ELSE IF fmt[k + 1] = "%" THEN <<"%">> \o h[n - 2]
      ELSE IF d.spec = "nul" THEN <<>>
      ELSE Rendered(d, arg) \o h[Len(fmt) - d.last]

\* A directive that is not cut short ends in the format.
LEMMA LastIs ==
  ASSUME NEW fmt \in Formats, NEW k \in 1 .. Len(fmt) - 1, Parsed(fmt, k + 1).spec # "nul"
  PROVE  Parsed(fmt, k + 1).last \in k + 1 .. Len(fmt)
<1> DEFINE d == Parsed(fmt, k + 1)
           c == ModsEnd(fmt, k + 1)
<1>1. Len(fmt) \in Nat
  BY FormatIs
<1>2. k + 1 \in 1 .. Len(fmt) + 1
  BY <1>1
<1>3. /\ d.last = c /\ c \in k + 1 .. Len(fmt) + 1
      /\ d.spec = (IF c <= Len(fmt) THEN fmt[c] ELSE "nul")
  BY <1>2, ParsedIs, Zenon
<1> HIDE DEF d, c
<1>4. c <= Len(fmt)
  BY <1>3 DEF d
<1>5. d.last \in k + 1 .. Len(fmt)
  BY <1>1, <1>3, <1>4
<1> QED
  BY <1>5 DEF d

\* Both ways of going on are the same.
LEMMA TurnedGoes ==
  ASSUME NEW fmt \in Formats, NEW arg, NEW h, NEW from, Turned(h, from, fmt),
         NEW k \in 1 .. Len(fmt) + 1
  PROVE  Goes(from, fmt, arg, k) = More(h, fmt, arg, Len(fmt) + 1 - k)
<1> DEFINE L == Len(fmt)
           n == L + 1 - k
           d == Parsed(fmt, k + 1)
<1>1. L \in Nat /\ n \in 0 .. L /\ L + 1 - n = k /\ (n = 0 <=> k > L) /\ ~(n > L)
      /\ (n = 1 <=> k = L)
  BY FormatIs
<1>2. ASSUME NEW j \in k .. L + 1 PROVE from[j] = h[L + 1 - j]
  BY <1>1 DEF Turned
<1>3. n # 0 => from[k + 1] = h[n - 1]
  <2>1. n # 0 => k + 1 \in k .. L + 1 /\ L + 1 - (k + 1) = n - 1
    BY <1>1
  <2> HIDE DEF L, n
  <2> QED
    BY <1>2, <2>1
<1>4. n # 0 /\ n # 1 => from[k + 2] = h[n - 2]
  <2>1. n # 0 /\ n # 1 => k + 2 \in k .. L + 1 /\ L + 1 - (k + 2) = n - 2
    BY <1>1
  <2> HIDE DEF L, n
  <2> QED
    BY <1>2, <2>1
<1>5. n # 0 /\ n # 1 /\ d.spec # "nul" => from[d.last + 1] = h[L - d.last]
  <2> SUFFICES ASSUME n # 0, n # 1, d.spec # "nul" PROVE from[d.last + 1] = h[L - d.last]
    OBVIOUS
  <2>1. k \in 1 .. L - 1
    BY <1>1
  <2>2. d.last \in k + 1 .. L
    BY <2>1, LastIs
  <2> HIDE DEF d
  <2>3. d.last + 1 \in k .. L + 1 /\ L + 1 - (d.last + 1) = L - d.last
    BY <1>1, <2>2
  <2> HIDE DEF L, n
  <2> QED
    BY <1>2, <2>3
<1>6. Goes(from, fmt, arg, k) =
        IF n = 0 THEN <<>>
        ELSE IF fmt[k] # "%" THEN <<fmt[k]>> \o from[k + 1]
        ELSE IF n = 1 THEN <<>>
        ELSE IF fmt[k + 1] = "%" THEN <<"%">> \o from[k + 2]
        ELSE IF d.spec = "nul" THEN <<>>
        ELSE Rendered(d, arg) \o from[d.last + 1]
  BY <1>1, Zenon DEF Goes
<1>7. More(h, fmt, arg, n) =
        IF n = 0 THEN <<>>
        ELSE IF fmt[k] # "%" THEN <<fmt[k]>> \o h[n - 1]
        ELSE IF n = 1 THEN <<>>
        ELSE IF fmt[k + 1] = "%" THEN <<"%">> \o h[n - 2]
        ELSE IF d.spec = "nul" THEN <<>>
        ELSE Rendered(d, arg) \o h[L - d.last]
  BY <1>1, Zenon DEF More
<1> HIDE DEF d, n, L
<1>8. Goes(from, fmt, arg, k) = More(h, fmt, arg, n)
  BY <1>3, <1>4, <1>5, <1>6, <1>7
<1> QED
  BY <1>8 DEF n, L

\* It goes on by characters.
LEMMA MoreIs ==
  ASSUME NEW fmt \in Formats, NEW arg \in Args, NEW n \in Nat,
         NEW h \in [0 .. n - 1 -> Seq(Characters)]
  PROVE  More(h, fmt, arg, n) \in Seq(Characters)
<1> DEFINE L == Len(fmt)
           k == L + 1 - n
           d == Parsed(fmt, k + 1)
<1>1. L \in Nat
  BY FormatIs
<1>2. CASE n = 0 \/ n > L
  BY <1>2, LiteralsAre DEF More
<1>3. CASE ~(n = 0 \/ n > L)
  <2>1. /\ k \in 1 .. L /\ n - 1 \in 0 .. n - 1
        /\ (n # 1 => k \in 1 .. L - 1 /\ n - 2 \in 0 .. n - 1)
        /\ k + 1 \in 1 .. L + 1
    BY <1>1, <1>3
  <2>2. More(h, fmt, arg, n) =
          IF fmt[k] # "%" THEN <<fmt[k]>> \o h[n - 1]
          ELSE IF n = 1 THEN <<>>
          ELSE IF fmt[k + 1] = "%" THEN <<"%">> \o h[n - 2]
          ELSE IF d.spec = "nul" THEN <<>>
          ELSE Rendered(d, arg) \o h[L - d.last]
    BY <1>3, Zenon DEF More
  <2>3. <<fmt[k]>> \o h[n - 1] \in Seq(Characters)
    <3>1. fmt[k] \in Characters
      BY <2>1, FormatIs
    <3>2. <<fmt[k]>> \in Seq(Characters) /\ h[n - 1] \in Seq(Characters)
      BY <2>1, <3>1
    <3> QED
      BY <3>2, Joined
  <2>4. n # 1 => <<"%">> \o h[n - 2] \in Seq(Characters)
    BY <2>1, LiteralsAre, Joined
  <2>5. n # 1 /\ d.spec # "nul" => Rendered(d, arg) \o h[L - d.last] \in Seq(Characters)
    <3> SUFFICES ASSUME n # 1, d.spec # "nul"
                 PROVE  Rendered(d, arg) \o h[L - d.last] \in Seq(Characters)
      OBVIOUS
    <3>1. d.last \in k + 1 .. L
      BY <2>1, LastIs
    <3>2. d.spec \in Known \cup Characters /\ d.width \in Nat
      BY <2>1, ParsedIs
    <3>3. Rendered(d, arg) \in Seq(Characters)
      BY <3>2, RenderedIs, Zenon
    <3> HIDE DEF d
    <3>4. L - d.last \in 0 .. n - 1
      BY <1>1, <1>3, <3>1
    <3> QED
      BY <3>3, <3>4, Joined
  <2> HIDE DEF d, k, L
  <2> QED
    BY <2>2, <2>3, <2>4, <2>5, LiteralsAre
<1> QED
  BY <1>2, <1>3

\* More looks at what is before n.
LEMMA MoreBefore ==
  ASSUME NEW fmt \in Formats, NEW arg, NEW n \in Nat, NEW h
  PROVE  More(Before(h, n), fmt, arg, n) = More(h, fmt, arg, n)
<1> DEFINE L == Len(fmt)
           k == L + 1 - n
           d == Parsed(fmt, k + 1)
           g == Before(h, n)
<1>1. L \in Nat
  BY FormatIs
<1>2. \A j \in 0 .. n - 1 : g[j] = h[j]
  BY DEF Before
<1> HIDE DEF g
<1>3. CASE n = 0 \/ n > L
  BY <1>3, Zenon DEF More
<1>4. CASE ~(n = 0 \/ n > L)
  <2>1. n - 1 \in 0 .. n - 1 /\ (n # 1 => k \in 1 .. L - 1 /\ n - 2 \in 0 .. n - 1)
    BY <1>1, <1>4
  <2>2. \A f : More(f, fmt, arg, n) =
          IF fmt[k] # "%" THEN <<fmt[k]>> \o f[n - 1]
          ELSE IF n = 1 THEN <<>>
          ELSE IF fmt[k + 1] = "%" THEN <<"%">> \o f[n - 2]
          ELSE IF d.spec = "nul" THEN <<>>
          ELSE Rendered(d, arg) \o f[L - d.last]
    BY <1>4, Zenon DEF More
  <2>3. n # 1 /\ d.spec # "nul" => g[L - d.last] = h[L - d.last]
    <3> SUFFICES ASSUME n # 1, d.spec # "nul" PROVE g[L - d.last] = h[L - d.last]
      OBVIOUS
    <3>1. d.last \in k + 1 .. L
      BY <2>1, LastIs
    <3> HIDE DEF d
    <3>2. L - d.last \in 0 .. n - 1
      BY <1>1, <1>4, <3>1
    <3> QED
      BY <1>2, <3>2
  <2>4. g[n - 1] = h[n - 1] /\ (n # 1 => g[n - 2] = h[n - 2])
    BY <1>2, <2>1
  <2> HIDE DEF d, k, L
  <2>5. More(g, fmt, arg, n) = More(h, fmt, arg, n)
    BY <2>2, <2>3, <2>4
  <2> QED
    BY <2>5 DEF g
<1> QED
  BY <1>3, <1>4 DEF g

\* What Meaning means from each index on.
IsMeant(from, fmt, arg) ==
  /\ \A k \in 1 .. Len(fmt) + 1 :
       from[k] \in Seq(Characters) /\ from[k] = Goes(from, fmt, arg, k)
  /\ Meaning(fmt, arg) = from[1]

\* Meaning computes such a function: there is one that goes on like this, made
\* from the end of the format, and its text is made of characters.
LEMMA MeantExists ==
  ASSUME NEW fmt \in Formats, NEW arg \in Args
  PROVE  \E from : IsMeant(from, fmt, arg)
<1> DEFINE L == Len(fmt)
           S == Seq(Characters)
           G == [n \in Nat |-> [h \in [0 .. n - 1 -> S] |-> More(h, fmt, arg, n)]]
<1>1. L \in Nat
  BY FormatIs
<1>2. IsStep(G, S)
  <2> SUFFICES ASSUME NEW n \in Nat PROVE G[n] \in [[0 .. n - 1 -> S] -> S]
    BY DEF IsStep
  <2>1. \A h \in [0 .. n - 1 -> S] : More(h, fmt, arg, n) \in S
    BY MoreIs
  <2>2. G[n] = [h \in [0 .. n - 1 -> S] |-> More(h, fmt, arg, n)]
    OBVIOUS
  <2> HIDE DEF G, S
  <2> QED
    BY <2>1, <2>2
<1>3. ASSUME NEW n \in Nat, NEW h, Before(h, n) \in [0 .. n - 1 -> S]
      PROVE  G[n][Before(h, n)] = More(h, fmt, arg, n)
  <2>1. \A f \in [0 .. n - 1 -> S] : G[n][f] = More(f, fmt, arg, n)
    OBVIOUS
  <2> HIDE DEF G, S
  <2> QED
    BY <1>3, <2>1, MoreBefore
<1> HIDE DEF G, S
<1>4. PICK f : Made(f, G, S)
  BY <1>2, Recursion
<1>5. ASSUME NEW n \in Nat PROVE f[n] \in S /\ f[n] = More(f, fmt, arg, n)
  <2>1. Before(f, n) \in [0 .. n - 1 -> S] /\ f[n] \in S /\ f[n] = G[n][Before(f, n)]
    BY <1>4 DEF Made, Before
  <2> QED
    BY <1>3, <2>1
<1> DEFINE e == [k \in 1 .. L + 1 |-> f[L + 1 - k]]
<1>6. Turned(f, e, fmt)
  BY DEF Turned
<1>7. ASSUME NEW k \in 1 .. L + 1 PROVE e[k] = Goes(e, fmt, arg, k)
  <2>1. e[k] = f[L + 1 - k] /\ L + 1 - k \in Nat
    BY <1>1
  <2>2. Goes(e, fmt, arg, k) = More(f, fmt, arg, L + 1 - k)
    BY <1>6, TurnedGoes
  <2> QED
    BY <1>5, <2>1, <2>2
<1>8. e = [k \in 1 .. L + 1 |-> e[k]]
  OBVIOUS
<1> HIDE DEF e
<1>9. e = [k \in 1 .. L + 1 |-> Goes(e, fmt, arg, k)]
  BY <1>7, <1>8
<1> DEFINE from[k \in 1 .. Len(fmt) + 1] ==
             IF k > Len(fmt) THEN <<>>
             ELSE IF fmt[k] # "%" THEN <<fmt[k]>> \o from[k + 1]
             ELSE IF k = Len(fmt) THEN <<>>
             ELSE IF fmt[k + 1] = "%" THEN <<"%">> \o from[k + 2]
             ELSE LET d == Parsed(fmt, k + 1)
                  IN  IF d.spec = "nul" THEN <<>>
                      ELSE Rendered(d, arg) \o from[d.last + 1]
<1>10. from = [k \in 1 .. Len(fmt) + 1 |->
             IF k > Len(fmt) THEN <<>>
             ELSE IF fmt[k] # "%" THEN <<fmt[k]>> \o from[k + 1]
             ELSE IF k = Len(fmt) THEN <<>>
             ELSE IF fmt[k + 1] = "%" THEN <<"%">> \o from[k + 2]
             ELSE LET d == Parsed(fmt, k + 1)
                  IN  IF d.spec = "nul" THEN <<>>
                      ELSE Rendered(d, arg) \o from[d.last + 1]]
  BY <1>9, Zenon DEF Goes
<1>11. Meaning(fmt, arg) = from[1]
  BY Zenon DEF Meaning
<1> HIDE DEF from
<1>12. from = [k \in 1 .. L + 1 |-> Goes(from, fmt, arg, k)]
  BY <1>10, Zenon DEF Goes
<1>13. \A k \in 1 .. L + 1 : from[k] = Goes(from, fmt, arg, k)
  BY <1>12
<1> DEFINE h == [n \in Nat |-> IF n <= L THEN from[L + 1 - n] ELSE <<>>]
<1>14. Turned(h, from, fmt)
  <2>1. ASSUME NEW k \in 1 .. L + 1 PROVE h[L + 1 - k] = from[k]
    <3>1. L + 1 - k \in Nat /\ L + 1 - k <= L /\ L + 1 - (L + 1 - k) = k
      BY <1>1
    <3> QED
      BY <3>1
  <2> HIDE DEF h
  <2> QED
    BY <2>1 DEF Turned
<1>15. ASSUME NEW n \in Nat PROVE h[n] = More(h, fmt, arg, n)
  <2>1. CASE n <= L
    <3>1. L + 1 - n \in 1 .. L + 1 /\ L + 1 - (L + 1 - n) = n
      BY <1>1, <2>1
    <3>2. h[n] = from[L + 1 - n]
      BY <2>1
    <3> DEFINE k == L + 1 - n
    <3> HIDE DEF h
    <3>3. k \in 1 .. Len(fmt) + 1 /\ Len(fmt) + 1 - k = n
      BY <3>1
    <3> HIDE DEF k
    <3>4. Goes(from, fmt, arg, k) = More(h, fmt, arg, Len(fmt) + 1 - k)
      BY <1>14, <3>3, TurnedGoes
    <3> QED
      BY <1>13, <3>2, <3>3, <3>4 DEF k
  <2>2. CASE ~(n <= L)
    <3>1. n > L
      BY <1>1, <2>2
    <3>2. h[n] = <<>>
      BY <2>2
    <3> HIDE DEF h
    <3> QED
      BY <3>1, <3>2 DEF More
  <2> QED
    BY <2>1, <2>2
<1> HIDE DEF h
<1>16. Follows(h, G, S)
  BY <1>3, <1>15 DEF Follows
<1>17. \A n \in Nat : h[n] = f[n]
  BY <1>4, <1>16, RecursionOnly
<1>18. ASSUME NEW k \in 1 .. L + 1 PROVE from[k] \in S
  <2>1. L + 1 - k \in Nat /\ from[k] = h[L + 1 - k]
    BY <1>1, <1>14 DEF Turned
  <2> QED
    BY <1>5, <1>17, <2>1
<1>19. IsMeant(from, fmt, arg)
  BY <1>11, <1>13, <1>18 DEF IsMeant, S
<1> QED
  BY <1>19

Rest(fmt, arg, k) == (CHOOSE from : IsMeant(from, fmt, arg))[k]

\* What is left to say from k on.
LEMMA RestIs ==
  ASSUME NEW fmt \in Formats, NEW arg \in Args
  PROVE  /\ Meaning(fmt, arg) = Rest(fmt, arg, 1)
         /\ \A k \in 1 .. Len(fmt) + 1 :
              LET d == Parsed(fmt, k + 1)
              IN  /\ Rest(fmt, arg, k) \in Seq(Characters)
                  /\ Rest(fmt, arg, k) =
                       IF k > Len(fmt) THEN <<>>
                       ELSE IF fmt[k] # "%" THEN <<fmt[k]>> \o Rest(fmt, arg, k + 1)
                       ELSE IF k = Len(fmt) THEN <<>>
                       ELSE IF fmt[k + 1] = "%" THEN <<"%">> \o Rest(fmt, arg, k + 2)
                       ELSE IF d.spec = "nul" THEN <<>>
                       ELSE Rendered(d, arg) \o Rest(fmt, arg, d.last + 1)
<1> DEFINE from == CHOOSE f : IsMeant(f, fmt, arg)
<1>1. IsMeant(from, fmt, arg)
  BY MeantExists, Zenon
<1>2. \A k : Rest(fmt, arg, k) = from[k]
  BY DEF Rest
<1> HIDE DEF from
<1>3. Meaning(fmt, arg) = from[1]
  BY <1>1 DEF IsMeant
<1>4. ASSUME NEW k \in 1 .. Len(fmt) + 1
      PROVE  /\ from[k] \in Seq(Characters)
             /\ from[k] = IF k > Len(fmt) THEN <<>>
                          ELSE IF fmt[k] # "%" THEN <<fmt[k]>> \o from[k + 1]
                          ELSE IF k = Len(fmt) THEN <<>>
                          ELSE IF fmt[k + 1] = "%" THEN <<"%">> \o from[k + 2]
                          ELSE IF Parsed(fmt, k + 1).spec = "nul" THEN <<>>
                          ELSE Rendered(Parsed(fmt, k + 1), arg)
                                 \o from[Parsed(fmt, k + 1).last + 1]
  <2>1. from[k] \in Seq(Characters) /\ from[k] = Goes(from, fmt, arg, k)
    BY <1>1 DEF IsMeant
  <2> QED
    BY <2>1, Zenon DEF Goes
<1>5. from[1] = Rest(fmt, arg, 1)
  BY <1>2
<1>6. Meaning(fmt, arg) = Rest(fmt, arg, 1)
  BY <1>3, <1>5
<1>7. ASSUME NEW k \in 1 .. Len(fmt) + 1
      PROVE  LET d == Parsed(fmt, k + 1)
             IN  /\ Rest(fmt, arg, k) \in Seq(Characters)
                 /\ Rest(fmt, arg, k) =
                      IF k > Len(fmt) THEN <<>>
                      ELSE IF fmt[k] # "%" THEN <<fmt[k]>> \o Rest(fmt, arg, k + 1)
                      ELSE IF k = Len(fmt) THEN <<>>
                      ELSE IF fmt[k + 1] = "%" THEN <<"%">> \o Rest(fmt, arg, k + 2)
                      ELSE IF d.spec = "nul" THEN <<>>
                      ELSE Rendered(d, arg) \o Rest(fmt, arg, d.last + 1)
  <2> DEFINE d == Parsed(fmt, k + 1)
  <2>1. /\ Rest(fmt, arg, k) = from[k] /\ Rest(fmt, arg, k + 1) = from[k + 1]
        /\ Rest(fmt, arg, k + 2) = from[k + 2] /\ Rest(fmt, arg, d.last + 1) = from[d.last + 1]
    BY <1>2
  <2> QED
    BY <1>4, <2>1
<1> QED
  BY <1>6, <1>7, Zenon

-----------------------------------------------------------------------------
(* How far the scanner is.                                                 *)

\* D has the flags from k to before m.
Flagged(D, fmt, k, m) ==
  /\ D.left <=> \E j \in k .. m - 1 : fmt[j] = "-"
  /\ D.zero <=> \E j \in k .. m - 1 : fmt[j] = "0"

Mods(fmt, l, m) == {fmt[j] : j \in l .. m - 1}

\* In the directive from k on, the scanner is at index I in part P, having
\* read D.
Within(fmt, k, P, I, D) ==
  LET w == FlagsEnd(fmt, k)
      p == WidthEnd(fmt, k)
      l == PrecisionEnd(fmt, k)
      c == ModsEnd(fmt, k)
      n == Len(fmt) + 1
  IN  /\ P = "flags" =>
           /\ I \in k .. n /\ \A j \in k .. I - 1 : fmt[j] \in Flag
           /\ Flagged(D, fmt, k, I) /\ D.width = 0 /\ D.mods = {}
      /\ P # "flags" => Flagged(D, fmt, k, w)
      /\ P = "width" =>
           /\ I \in w .. n /\ Numeral(fmt, w, I - 1)
           /\ D.width = Value(fmt, w, I - 1) /\ D.mods = {}
      /\ P \in {"precision", "length", "convert"} => D.width = Value(fmt, w, p - 1)
      /\ P = "precision" =>
           /\ Precise(fmt, p) /\ I \in p + 1 .. n /\ Numeral(fmt, p + 1, I - 1) /\ D.mods = {}
      /\ P = "length" =>
           /\ I \in l .. n /\ \A j \in l .. I - 1 : fmt[j] \in Length
           /\ D.mods = Mods(fmt, l, I)
      /\ P = "convert" => I = c /\ I < n /\ D.mods = Mods(fmt, l, c)

\* A set of so many characters and one more.
LEMMA OneMore ==
  ASSUME NEW a \in Nat, NEW I \in Nat, a <= I, NEW j
  PROVE  j \in a .. (I + 1) - 1 <=> j \in a .. I - 1 \/ j = I
OBVIOUS

\* A flag is read.
LEMMA ReadsFlag ==
  ASSUME NEW fmt \in Formats, NEW k \in 1 .. Len(fmt), NEW I, NEW D, NEW E,
         Within(fmt, k, "flags", I, D), I <= Len(fmt), fmt[I] \in Flag,
         E.left <=> (D.left \/ fmt[I] = "-"), E.zero <=> (D.zero \/ fmt[I] = "0"),
         E.width = D.width, E.mods = D.mods
  PROVE  Within(fmt, k, "flags", I + 1, E)
<1>1. /\ I \in k .. Len(fmt) + 1 /\ \A j \in k .. I - 1 : fmt[j] \in Flag
      /\ Flagged(D, fmt, k, I) /\ D.width = 0 /\ D.mods = {}
  BY DEF Within
<1>2. Len(fmt) \in Nat /\ I + 1 \in k .. Len(fmt) + 1 /\ k \in Nat /\ I \in Nat /\ k <= I
  BY <1>1, FormatIs
<1>3. \A j : j \in k .. (I + 1) - 1 <=> j \in k .. I - 1 \/ j = I
  BY <1>2, OneMore
<1>4. \A j \in k .. (I + 1) - 1 : fmt[j] \in Flag
  BY <1>1, <1>3
<1>5. Flagged(E, fmt, k, I + 1)
  BY <1>1, <1>3, Zenon DEF Flagged
<1> QED
  BY <1>1, <1>2, <1>4, <1>5 DEF Within

\* The last flag was.
LEMMA ReadFlags ==
  ASSUME NEW fmt \in Formats, NEW k \in 1 .. Len(fmt), NEW I, NEW D,
         Within(fmt, k, "flags", I, D), I <= Len(fmt) => fmt[I] \notin Flag
  PROVE  FlagsEnd(fmt, k) = I /\ Within(fmt, k, "width", I, D)
<1>1. /\ I \in k .. Len(fmt) + 1 /\ \A j \in k .. I - 1 : fmt[j] \in Flag
      /\ Flagged(D, fmt, k, I) /\ D.width = 0 /\ D.mods = {}
  BY DEF Within
<1>2. Len(fmt) \in Nat /\ k \in 1 .. Len(fmt) + 1
  BY FormatIs
<1>3. IsPast(fmt, k, Flag, I)
  BY <1>1 DEF IsPast
<1>4. FlagsEnd(fmt, k) = I
  BY <1>2, <1>3, PastIs DEF FlagsEnd
<1>5. I \in Nat \ {0} /\ I - 1 \in Nat /\ I - 1 < I /\ I - 1 <= I - 1
  BY <1>1, <1>2
<1>6. Numeral(fmt, I, I - 1)
  BY <1>5 DEF Numeral
<1>7. Value(fmt, I, I - 1) = 0
  BY <1>5, <1>6, ValueIs
<1>8. I \in I .. Len(fmt) + 1
  BY <1>1
<1> QED
  BY <1>1, <1>4, <1>6, <1>7, <1>8 DEF Within

\* A figure of the width is read.
LEMMA ReadsWidth ==
  ASSUME NEW fmt \in Formats, NEW k \in 1 .. Len(fmt), NEW I, NEW D, NEW E,
         Within(fmt, k, "width", I, D), I <= Len(fmt), fmt[I] \in DOMAIN Digit,
         E.left <=> D.left, E.zero <=> D.zero,
         E.width = D.width * 10 + Digit[fmt[I]], E.mods = D.mods
  PROVE  Within(fmt, k, "width", I + 1, E)
<1> DEFINE w == FlagsEnd(fmt, k)
<1>1. /\ Flagged(D, fmt, k, w) /\ I \in w .. Len(fmt) + 1 /\ Numeral(fmt, w, I - 1)
      /\ D.width = Value(fmt, w, I - 1) /\ D.mods = {}
  BY DEF Within
<1>2. w \in k .. Len(fmt) + 1 /\ Len(fmt) \in Nat
  BY EndsAre, FormatIs
<1> HIDE DEF w
<1>3. w \in Nat \ {0} /\ I \in Nat /\ w <= I /\ w - 1 <= I /\ I + 1 \in w .. Len(fmt) + 1
      /\ (I + 1) - 1 = I
  BY <1>1, <1>2
<1>4. Numeral(fmt, w, I)
  <2>1. \A j : j \in w .. I <=> j \in w .. I - 1 \/ j = I
    BY <1>3
  <2> QED
    BY <1>1, <2>1 DEF Numeral
<1>5. Value(fmt, w, I) = Value(fmt, w, I - 1) * 10 + Digit[fmt[I]]
  BY <1>3, <1>4, ValueIs
<1>6. Flagged(E, fmt, k, w)
  BY <1>1, Zenon DEF Flagged
<1> QED
  BY <1>1, <1>3, <1>4, <1>5, <1>6 DEF Within, w

\* The last one was: of the precision only the point counts.
LEMMA ReadWidth ==
  ASSUME NEW fmt \in Formats, NEW k \in 1 .. Len(fmt), NEW I, NEW D,
         Within(fmt, k, "width", I, D), I <= Len(fmt) => fmt[I] \notin DOMAIN Digit
  PROVE  /\ WidthEnd(fmt, k) = I
         /\ Precise(fmt, I) => Within(fmt, k, "precision", I + 1, D)
         /\ ~Precise(fmt, I) => Within(fmt, k, "length", I, D)
<1> DEFINE w == FlagsEnd(fmt, k)
<1>1. /\ Flagged(D, fmt, k, w) /\ I \in w .. Len(fmt) + 1 /\ Numeral(fmt, w, I - 1)
      /\ D.width = Value(fmt, w, I - 1) /\ D.mods = {}
  BY DEF Within
<1>2. w \in k .. Len(fmt) + 1 /\ w \in 1 .. Len(fmt) + 1 /\ Len(fmt) \in Nat
  BY EndsAre, FormatIs
<1>3. IsPast(fmt, w, DOMAIN Digit, I)
  BY <1>1 DEF IsPast, Numeral
<1>4. WidthEnd(fmt, k) = I
  BY <1>2, <1>3, PastIs DEF WidthEnd
<1> HIDE DEF w
<1>5. I \in Nat /\ I \in I .. Len(fmt) + 1
  BY <1>1, <1>2
<1>6. ASSUME Precise(fmt, I) PROVE Within(fmt, k, "precision", I + 1, D)
  <2>1. I + 1 \in I + 1 .. Len(fmt) + 1 /\ (I + 1) - 1 < I + 1
    BY <1>2, <1>5, <1>6 DEF Precise
  <2>2. Numeral(fmt, I + 1, (I + 1) - 1)
    BY <1>5 DEF Numeral
  <2> QED
    BY <1>1, <1>4, <1>6, <2>1, <2>2 DEF Within, w
<1>7. ASSUME ~Precise(fmt, I) PROVE Within(fmt, k, "length", I, D)
  <2>1. PrecisionEnd(fmt, k) = I
    BY <1>4, <1>7 DEF PrecisionEnd
  <2>2. \A j : j \notin I .. I - 1
    BY <1>5
  <2>3. Mods(fmt, I, I) = {}
    BY <2>2 DEF Mods
  <2> QED
    BY <1>1, <1>4, <1>5, <2>1, <2>2, <2>3 DEF Within, w
<1> QED
  BY <1>4, <1>6, <1>7

\* A figure of the precision is read over.
LEMMA ReadsPrecision ==
  ASSUME NEW fmt \in Formats, NEW k \in 1 .. Len(fmt), NEW I, NEW D,
         Within(fmt, k, "precision", I, D), I <= Len(fmt), fmt[I] \in DOMAIN Digit
  PROVE  Within(fmt, k, "precision", I + 1, D)
<1> DEFINE p == WidthEnd(fmt, k)
<1>1. I \in p + 1 .. Len(fmt) + 1 /\ Numeral(fmt, p + 1, I - 1)
  BY DEF Within
<1>2. p \in FlagsEnd(fmt, k) .. Len(fmt) + 1 /\ FlagsEnd(fmt, k) \in k .. Len(fmt) + 1
      /\ Len(fmt) \in Nat
  BY EndsAre, FormatIs
<1> HIDE DEF p
<1>3. I \in Nat /\ p \in Nat /\ I + 1 \in p + 1 .. Len(fmt) + 1 /\ (I + 1) - 1 = I
  BY <1>1, <1>2
<1>4. Numeral(fmt, p + 1, (I + 1) - 1)
  <2>1. \A j : j \in p + 1 .. I <=> j \in p + 1 .. I - 1 \/ j = I
    BY <1>1, <1>3
  <2> QED
    BY <1>1, <1>3, <2>1 DEF Numeral
<1> QED
  BY <1>3, <1>4 DEF Within, p

\* The last one was.
LEMMA ReadPrecision ==
  ASSUME NEW fmt \in Formats, NEW k \in 1 .. Len(fmt), NEW I, NEW D,
         Within(fmt, k, "precision", I, D), I <= Len(fmt) => fmt[I] \notin DOMAIN Digit
  PROVE  Within(fmt, k, "length", I, D)
<1> DEFINE p == WidthEnd(fmt, k)
<1>1. I \in p + 1 .. Len(fmt) + 1 /\ Numeral(fmt, p + 1, I - 1) /\ Precise(fmt, p)
      /\ Flagged(D, fmt, k, FlagsEnd(fmt, k)) /\ D.mods = {}
      /\ D.width = Value(fmt, FlagsEnd(fmt, k), p - 1)
  BY DEF Within
<1>2. p \in FlagsEnd(fmt, k) .. Len(fmt) + 1 /\ FlagsEnd(fmt, k) \in k .. Len(fmt) + 1
      /\ Len(fmt) \in Nat
  BY EndsAre, FormatIs
<1>3. p + 1 \in 1 .. Len(fmt) + 1
  BY <1>1, <1>2 DEF Precise
<1>4. IsPast(fmt, p + 1, DOMAIN Digit, I)
  BY <1>1 DEF IsPast, Numeral
<1>5. PrecisionEnd(fmt, k) = I
  <2>1. Past(fmt, p + 1, DOMAIN Digit) = I
    BY <1>2, <1>3, <1>4, PastIs
  <2> QED
    BY <1>1, <2>1 DEF PrecisionEnd
<1>6. \A j : j \notin I .. I - 1
  BY <1>1, <1>3
<1>7. Mods(fmt, I, I) = {} /\ I \in I .. Len(fmt) + 1
  BY <1>1, <1>6 DEF Mods
<1> QED
  BY <1>1, <1>5, <1>6, <1>7 DEF Within

\* A length modifier is read.
LEMMA ReadsMod ==
  ASSUME NEW fmt \in Formats, NEW k \in 1 .. Len(fmt), NEW I, NEW D, NEW E,
         Within(fmt, k, "length", I, D), I <= Len(fmt), fmt[I] \in Length,
         E.left <=> D.left, E.zero <=> D.zero,
         E.width = D.width, E.mods = D.mods \cup {fmt[I]}
  PROVE  Within(fmt, k, "length", I + 1, E)
<1> DEFINE l == PrecisionEnd(fmt, k)
<1>1. /\ Flagged(D, fmt, k, FlagsEnd(fmt, k)) /\ I \in l .. Len(fmt) + 1
      /\ \A j \in l .. I - 1 : fmt[j] \in Length
      /\ D.width = Value(fmt, FlagsEnd(fmt, k), WidthEnd(fmt, k) - 1)
      /\ D.mods = Mods(fmt, l, I)
  BY DEF Within
<1>2. l \in Nat /\ Len(fmt) \in Nat
  BY EndsAre, FormatIs
<1> HIDE DEF l
<1>3. I \in Nat /\ l <= I /\ I + 1 \in l .. Len(fmt) + 1
  BY <1>1, <1>2
<1>4. \A j : j \in l .. (I + 1) - 1 <=> j \in l .. I - 1 \/ j = I
  BY <1>2, <1>3, OneMore
<1>5. \A j \in l .. (I + 1) - 1 : fmt[j] \in Length
  BY <1>1, <1>4
<1>6. E.mods = Mods(fmt, l, I + 1)
  BY <1>1, <1>4 DEF Mods
<1>7. Flagged(E, fmt, k, FlagsEnd(fmt, k))
  BY <1>1, Zenon DEF Flagged
<1> QED
  BY <1>1, <1>3, <1>5, <1>6, <1>7 DEF Within, l

\* The last one was.
LEMMA ReadMods ==
  ASSUME NEW fmt \in Formats, NEW k \in 1 .. Len(fmt), NEW I, NEW D,
         Within(fmt, k, "length", I, D), I <= Len(fmt) => fmt[I] \notin Length
  PROVE  /\ ModsEnd(fmt, k) = I
         /\ I <= Len(fmt) => Within(fmt, k, "convert", I, D)
<1> DEFINE l == PrecisionEnd(fmt, k)
<1>1. /\ Flagged(D, fmt, k, FlagsEnd(fmt, k)) /\ I \in l .. Len(fmt) + 1
      /\ \A j \in l .. I - 1 : fmt[j] \in Length
      /\ D.width = Value(fmt, FlagsEnd(fmt, k), WidthEnd(fmt, k) - 1)
      /\ D.mods = Mods(fmt, l, I)
  BY DEF Within
<1>2. l \in 1 .. Len(fmt) + 1 /\ Len(fmt) \in Nat
  BY EndsAre, FormatIs
<1>3. IsPast(fmt, l, Length, I)
  BY <1>1 DEF IsPast
<1>4. ModsEnd(fmt, k) = I
  BY <1>2, <1>3, PastIs DEF ModsEnd
<1>5. I <= Len(fmt) => I < Len(fmt) + 1
  BY <1>1, <1>2
<1> QED
  BY <1>1, <1>4, <1>5 DEF Within

Parts == {"flags", "width", "precision", "length", "convert"}

\* A directive that the format ends in has no conversion.
LEMMA CutShort ==
  ASSUME NEW fmt \in Formats, NEW k \in 1 .. Len(fmt), NEW P \in Parts \ {"convert"},
         NEW I, NEW D, Within(fmt, k, P, I, D), ~(I <= Len(fmt))
  PROVE  Parsed(fmt, k).spec = "nul"
<1>1. Within(fmt, k, "flags", I, D) => Within(fmt, k, "width", I, D)
  BY ReadFlags
<1>2. Within(fmt, k, "width", I, D) => Within(fmt, k, "length", I, D)
  BY ReadWidth DEF Precise
<1>3. Within(fmt, k, "precision", I, D) => Within(fmt, k, "length", I, D)
  BY ReadPrecision
<1>4. Within(fmt, k, "length", I, D)
  BY <1>1, <1>2, <1>3 DEF Parts
<1>5. ModsEnd(fmt, k) = I
  BY <1>4, ReadMods
<1>6. k \in 1 .. Len(fmt) + 1
  BY FormatIs
<1> DEFINE d == Parsed(fmt, k)
           c == ModsEnd(fmt, k)
<1>7. d.spec = IF c <= Len(fmt) THEN fmt[c] ELSE "nul"
  BY <1>6, ParsedIs, Zenon
<1> QED
  BY <1>5, <1>7

\* Reading gets to k, which may be the end.
Reached(fmt, k) == k \in 1 .. Len(fmt) => k \in Begins(fmt)

\* It gets to the first character, and behind whatever begins where it got to.
LEMMA ReachedFirst ==
  ASSUME NEW fmt, NEW k, k = 1
  PROVE  Reached(fmt, k)
BY DEF Reached, Begins

LEMMA ReachedNext ==
  ASSUME NEW fmt, Len(fmt) \in Nat, NEW k \in 1 .. Len(fmt), Reached(fmt, k),
         NEW m, m = Behind(fmt, k)
  PROVE  Reached(fmt, m)
<1> SUFFICES ASSUME m \in 1 .. Len(fmt) PROVE m \in Begins(fmt)
  BY DEF Reached
<1> DEFINE Closed(R) ==
        1 \in R /\ \A j \in R : Behind(fmt, j) <= Len(fmt) => Behind(fmt, j) \in R
<1>1. k \in Begins(fmt) /\ m <= Len(fmt)
  BY DEF Reached
<1>2. ASSUME NEW R \in SUBSET (1 .. Len(fmt)), Closed(R) PROVE m \in R
  <2>1. k \in R
    BY <1>1, <1>2 DEF Begins
  <2> QED
    BY <1>1, <1>2, <2>1
<1> QED
  BY <1>2 DEF Begins

\* At its conversion a directive has been read.
LEMMA ReadWhole ==
  ASSUME NEW fmt \in Formats, NEW k \in 1 .. Len(fmt) - 1, fmt[k] = "%", fmt[k + 1] # "%",
         Reached(fmt, k), NEW I, Within(fmt, k + 1, "convert", I, dir)
  PROVE  LET d == Parsed(fmt, k + 1)
         IN  /\ d \in Directives(fmt) /\ ReadAs(d)
             /\ I \in 1 .. Len(fmt) /\ d.last = I /\ d.spec = fmt[I] /\ d.spec # "nul"
<1> DEFINE d == Parsed(fmt, k + 1)
           w == FlagsEnd(fmt, k + 1)
           p == WidthEnd(fmt, k + 1)
           l == PrecisionEnd(fmt, k + 1)
           c == ModsEnd(fmt, k + 1)
<1>1. Len(fmt) \in Nat /\ k \in 1 .. Len(fmt) /\ k + 1 \in 1 .. Len(fmt) + 1
  BY FormatIs
<1>2. /\ d.flags = {fmt[j] : j \in k + 1 .. w - 1} /\ d.flags \subseteq Flag
      /\ d.width = Value(fmt, w, p - 1) /\ d.width \in Nat
      /\ d.mods = {fmt[j] : j \in l .. c - 1} /\ d.mods \subseteq Length
      /\ d.spec = (IF c <= Len(fmt) THEN fmt[c] ELSE "nul")
      /\ d.last = c /\ c \in k + 1 .. Len(fmt) + 1
  BY <1>1, ParsedIs, Zenon
<1>3. /\ Flagged(dir, fmt, k + 1, w) /\ dir.width = Value(fmt, w, p - 1)
      /\ I = c /\ I < Len(fmt) + 1 /\ dir.mods = Mods(fmt, l, c)
  BY DEF Within
<1>4. d \in Directives(fmt)
  <2>1. k \in Begins(fmt) /\ k < Len(fmt)
    BY <1>1 DEF Reached
  <2> QED
    BY <2>1 DEF Directives
<1> HIDE DEF d, w, p, l, c
<1>5. I \in 1 .. Len(fmt) /\ d.last = I /\ d.spec = fmt[I]
  BY <1>1, <1>2, <1>3
<1>6. d.spec # "nul"
  BY <1>5, FormatIs
<1>7. (dir.left <=> "-" \in d.flags) /\ (dir.zero <=> "0" \in d.flags)
  BY <1>2, <1>3 DEF Flagged
<1>8. ReadAs(d)
  BY <1>2, <1>3, <1>7, Zenon DEF ReadAs, Mods
<1> QED
  BY <1>4, <1>5, <1>6, <1>8 DEF d

-----------------------------------------------------------------------------
(* What was written and what is left to say are what the format means.     *)

On == \A d \in Directives(call.fmt) : ~Off(d)

\* t and the rest from k on are all of it.
Whole(fmt, arg, t, k) == t \o Rest(fmt, arg, k) = Meaning(fmt, arg)

\* The scanner at I in part P has written what is in front of k.
At(fmt, P, I, D, k) ==
  /\ k \in Nat /\ P \in {"text", "percent"} \cup Parts
  /\ Reached(fmt, k)
  /\ P = "text" => I = k /\ k \in 1 .. Len(fmt) + 1
  /\ P = "percent" => I = k + 1 /\ k \in 1 .. Len(fmt) /\ fmt[k] = "%" /\ D = NoDirective
  /\ P \in Parts =>
       /\ k \in 1 .. Len(fmt) - 1 /\ fmt[k] = "%" /\ fmt[k + 1] # "%"
       /\ Within(fmt, k + 1, P, I, D)

ReadingOK ==
  IF Scanning
  THEN \E k : At(call.fmt, pc, i, dir, k) /\ (On => Whole(call.fmt, call.arg, text, k))
  ELSE On => text = Meaning(call.fmt, call.arg)

\* What is on stays on, as the call stays.
LEMMA OnStays ==
  ASSUME UNCHANGED call
  PROVE  On' <=> On
BY DEF On, Off

\* The character looked at.
LEMMA Looks ==
  ASSUME IInv
  PROVE  /\ call.fmt \in Formats /\ call.arg \in Args /\ Len(call.fmt) \in Nat
         /\ i \in Nat /\ i >= 1 /\ text \in Seq(Characters)
         /\ i <= Len(call.fmt) => Char = call.fmt[i] /\ Char # "nul"
         /\ ~(i <= Len(call.fmt)) => Char = "nul"
<1>1. call.fmt \in Formats /\ call.arg \in Args /\ i \in Nat \ {0} /\ text \in Seq(Characters)
  BY DEF IInv, CallOK
<1>2. Len(call.fmt) \in Nat /\ \A j \in 1 .. Len(call.fmt) : call.fmt[j] # "nul"
  BY <1>1, FormatIs
<1> QED
  BY <1>1, <1>2 DEF Char

\* Something said moves from what is left to what was written.
LEMMA Says ==
  ASSUME NEW fmt \in Formats, NEW arg \in Args, NEW t \in Seq(Characters),
         NEW s \in Seq(Characters), NEW k \in 1 .. Len(fmt) + 1, NEW m \in 1 .. Len(fmt) + 1,
         Whole(fmt, arg, t, k), Rest(fmt, arg, k) = s \o Rest(fmt, arg, m)
  PROVE  Whole(fmt, arg, t \o s, m)
<1>1. Rest(fmt, arg, m) \in Seq(Characters)
  BY RestIs, Zenon
<1>2. (t \o s) \o Rest(fmt, arg, m) = t \o (s \o Rest(fmt, arg, m))
  BY <1>1, ConcatAssociative
<1> QED
  BY <1>2 DEF Whole

\* With nothing left to say everything was written.
LEMMA SaysNothing ==
  ASSUME NEW fmt, NEW arg, NEW t \in Seq(Characters), NEW k,
         Whole(fmt, arg, t, k), Rest(fmt, arg, k) = <<>>
  PROVE  t = Meaning(fmt, arg)
BY ConcatEmptySeq DEF Whole

\* A character that means itself.
LEMMA LiteralReads ==
  ASSUME IInv, ReadingOK, Literal, UNCHANGED call
  PROVE  ReadingOK'
<1> DEFINE fmt == call.fmt
           arg == call.arg
<1>1. /\ fmt \in Formats /\ arg \in Args /\ Len(fmt) \in Nat /\ text \in Seq(Characters)
      /\ i \in Nat /\ i >= 1 /\ i <= Len(fmt) /\ Char = fmt[i] /\ Char # "%"
  BY Looks DEF Literal
<1>2. pc = "text" /\ pc' = "text" /\ i' = i + 1 /\ dir' = dir /\ text' = text \o <<Char>>
  BY DEF Literal, Goto, Put
<1>3. PICK k : At(fmt, pc, i, dir, k) /\ (On => Whole(fmt, arg, text, k))
  BY <1>2 DEF ReadingOK, Scanning
<1>4. i = k /\ k \in 1 .. Len(fmt) + 1
  BY <1>2, <1>3 DEF At
<1>5. i + 1 \in 1 .. Len(fmt) + 1
  BY <1>1
<1>6. <<Char>> \in Seq(Characters)
  BY CharIs
<1>7. Rest(fmt, arg, i) = <<fmt[i]>> \o Rest(fmt, arg, i + 1)
  <2>1. ~(i > Len(fmt))
    BY <1>1
  <2> QED
    BY <1>1, <1>4, <2>1, RestIs, Zenon
<1> HIDE DEF fmt, arg
<1>8. On => Whole(fmt, arg, text \o <<Char>>, i + 1)
  BY <1>1, <1>3, <1>4, <1>5, <1>6, <1>7, Says
<1>9. At(fmt, "text", i + 1, dir, i + 1)
  <2>1. Reached(fmt, i) /\ i \in 1 .. Len(fmt)
    BY <1>1, <1>3, <1>4 DEF At
  <2>2. i + 1 = Behind(fmt, i)
    BY <1>1 DEF Behind
  <2>3. Reached(fmt, i + 1)
    BY <1>1, <2>1, <2>2, ReachedNext, Zenon
  <2> QED
    BY <1>1, <1>5, <2>3 DEF At, Parts
<1> QED
  BY <1>2, <1>8, <1>9, OnStays DEF ReadingOK, Scanning, fmt, arg

\* The '%' of a directive.
LEMMA DirectiveReads ==
  ASSUME IInv, ReadingOK, Directive, UNCHANGED call
  PROVE  ReadingOK'
<1>1. /\ call.fmt \in Formats /\ Len(call.fmt) \in Nat
      /\ i \in Nat /\ i >= 1 /\ i <= Len(call.fmt) /\ call.fmt[i] = "%"
  BY Looks DEF Directive
<1>2. pc = "text" /\ pc' = "percent" /\ i' = i + 1 /\ dir' = NoDirective /\ text' = text
  BY DEF Directive, Goto, Nothing
<1>3. PICK k : At(call.fmt, pc, i, dir, k) /\ (On => Whole(call.fmt, call.arg, text, k))
  BY <1>2 DEF ReadingOK, Scanning
<1>4. i = k /\ Reached(call.fmt, k)
  BY <1>2, <1>3 DEF At
<1>5. At(call.fmt, "percent", i + 1, NoDirective, k)
  BY <1>1, <1>4 DEF At, Parts
<1> QED
  BY <1>2, <1>3, <1>5, OnStays DEF ReadingOK, Scanning

\* "%%", or the first character of a directive.
LEMMA PercentReads ==
  ASSUME IInv, ReadingOK, Percent, UNCHANGED call
  PROVE  ReadingOK'
<1> DEFINE fmt == call.fmt
           arg == call.arg
<1>1. /\ fmt \in Formats /\ arg \in Args /\ Len(fmt) \in Nat /\ text \in Seq(Characters)
      /\ i \in Nat /\ i >= 1 /\ i <= Len(fmt) /\ Char = fmt[i]
  BY Looks DEF Percent
<1>2. pc = "percent" /\ dir' = dir
  BY DEF Percent
<1>3. PICK k : At(fmt, pc, i, dir, k) /\ (On => Whole(fmt, arg, text, k))
  BY <1>2 DEF ReadingOK, Scanning
<1>4. i = k + 1 /\ k \in 1 .. Len(fmt) /\ fmt[k] = "%" /\ dir = NoDirective /\ k \in Nat
      /\ Reached(fmt, k)
  BY <1>2, <1>3 DEF At
<1>5. k \in 1 .. Len(fmt) - 1 /\ k + 1 \in 1 .. Len(fmt) /\ k + 2 \in 1 .. Len(fmt) + 1
      /\ k \in 1 .. Len(fmt) + 1 /\ i + 1 = k + 2 /\ ~(k > Len(fmt)) /\ k # Len(fmt)
  BY <1>1, <1>4
<1>6. CASE Char = "%"
  <2>1. pc' = "text" /\ i' = i + 1 /\ text' = text \o <<"%">>
    BY <1>6 DEF Percent, Goto, Put
  <2>2. Rest(fmt, arg, k) = <<"%">> \o Rest(fmt, arg, k + 2)
    BY <1>1, <1>4, <1>5, <1>6, RestIs, Zenon
  <2>3. <<"%">> \in Seq(Characters)
    BY LiteralsAre
  <2> HIDE DEF fmt, arg
  <2>4. On => Whole(fmt, arg, text \o <<"%">>, k + 2)
    BY <1>1, <1>3, <1>5, <2>2, <2>3, Says
  <2>5. At(fmt, "text", i + 1, dir, k + 2)
    <3>1. k + 2 = Behind(fmt, k)
      BY <1>1, <1>4, <1>5, <1>6 DEF Behind
    <3>2. Reached(fmt, k + 2)
      BY <1>1, <1>4, <3>1, ReachedNext, Zenon
    <3> QED
      BY <1>5, <3>2 DEF At, Parts
  <2> QED
    BY <1>2, <2>1, <2>4, <2>5, OnStays DEF ReadingOK, Scanning, fmt, arg
<1>7. CASE Char # "%"
  <2>1. pc' = "flags" /\ i' = i /\ text' = text
    BY <1>7 DEF Percent, Nothing
  <2>2. \A j : j \notin k + 1 .. (k + 1) - 1
    BY <1>4
  <2>3. Flagged(dir, fmt, k + 1, k + 1)
    BY <1>4, <2>2 DEF Flagged, NoDirective
  <2>4. Within(fmt, k + 1, "flags", k + 1, dir)
    <3>1. k + 1 \in k + 1 .. Len(fmt) + 1 /\ dir.width = 0 /\ dir.mods = {}
      BY <1>1, <1>4 DEF NoDirective
    <3> QED
      BY <2>2, <2>3, <3>1 DEF Within
  <2>5. At(fmt, "flags", i, dir, k)
    BY <1>1, <1>4, <1>5, <1>7, <2>4 DEF At, Parts
  <2> QED
    BY <1>2, <1>3, <2>1, <2>5, OnStays DEF ReadingOK, Scanning
<1> QED
  BY <1>6, <1>7

\* In a directive, the scanner is within its text.
LEMMA InDirective ==
  ASSUME IInv, ReadingOK, pc \in Parts
  PROVE  \E k \in 1 .. Len(call.fmt) - 1 :
           /\ k \in 1 .. Len(call.fmt) /\ k + 1 \in 1 .. Len(call.fmt)
           /\ call.fmt[k] = "%" /\ call.fmt[k + 1] # "%"
           /\ Within(call.fmt, k + 1, pc, i, dir) /\ Reached(call.fmt, k)
           /\ On => Whole(call.fmt, call.arg, text, k)
<1>1. PICK k : At(call.fmt, pc, i, dir, k) /\ (On => Whole(call.fmt, call.arg, text, k))
  BY DEF ReadingOK, Scanning, Parts
<1>2. /\ k \in 1 .. Len(call.fmt) - 1 /\ call.fmt[k] = "%" /\ call.fmt[k + 1] # "%"
      /\ Within(call.fmt, k + 1, pc, i, dir) /\ Reached(call.fmt, k)
  BY <1>1 DEF At
<1>3. Len(call.fmt) \in Nat
  BY Looks
<1>4. k \in 1 .. Len(call.fmt) /\ k + 1 \in 1 .. Len(call.fmt)
  BY <1>2, <1>3
<1> QED
  BY <1>1, <1>2, <1>4

\* It stays there when it reads on.
LEMMA StaysIn ==
  ASSUME UNCHANGED call, Nothing, NEW k \in 1 .. Len(call.fmt) - 1, Len(call.fmt) \in Nat,
         call.fmt[k] = "%", call.fmt[k + 1] # "%", On => Whole(call.fmt, call.arg, text, k),
         pc' \in Parts, Within(call.fmt, k + 1, pc', i', dir'), Reached(call.fmt, k)
  PROVE  ReadingOK'
<1>1. At(call.fmt, pc', i', dir', k)
  BY DEF At, Parts
<1>2. text' = text /\ call' = call
  BY DEF Nothing
<1>3. Scanning'
  BY DEF Scanning, Parts
<1> QED
  BY <1>1, <1>2, <1>3, OnStays DEF ReadingOK

\* Flags.
LEMMA FlagsRead ==
  ASSUME IInv, ReadingOK, Flags, UNCHANGED call
  PROVE  ReadingOK'
<1>1. pc = "flags" /\ Char # "nul" /\ Nothing
  BY DEF Flags
<1>2. /\ call.fmt \in Formats /\ Len(call.fmt) \in Nat /\ i \in Nat
      /\ i <= Len(call.fmt) /\ Char = call.fmt[i]
  BY <1>1, Looks
<1>3. PICK k \in 1 .. Len(call.fmt) - 1 :
           /\ k + 1 \in 1 .. Len(call.fmt)
           /\ call.fmt[k] = "%" /\ call.fmt[k + 1] # "%"
           /\ Within(call.fmt, k + 1, "flags", i, dir) /\ Reached(call.fmt, k)
           /\ On => Whole(call.fmt, call.arg, text, k)
  BY <1>1, InDirective DEF Parts
<1>4. CASE Char \in Flag
  <2>1. pc' = "flags" /\ i' = i + 1
    BY <1>4 DEF Flags, Goto
  <2>2. dir' = [dir EXCEPT !.left = @ \/ Char = "-", !.zero = @ \/ Char = "0"]
    BY <1>4 DEF Flags
  <2>3. dir = [left |-> dir.left, zero |-> dir.zero, width |-> dir.width, mods |-> dir.mods]
    BY DEF IInv, DirOK
  <2>4. /\ dir'.left = (dir.left \/ Char = "-") /\ dir'.zero = (dir.zero \/ Char = "0")
        /\ dir'.width = dir.width /\ dir'.mods = dir.mods
    BY <2>2, <2>3
  <2>5. /\ dir'.left <=> (dir.left \/ call.fmt[i] = "-")
        /\ dir'.zero <=> (dir.zero \/ call.fmt[i] = "0")
    BY <1>2, <2>4, Zenon
  <2>6. Within(call.fmt, k + 1, "flags", i + 1, dir')
    BY <1>2, <1>3, <1>4, <2>4, <2>5, ReadsFlag, Zenon
  <2> QED
    BY <1>1, <1>2, <1>3, <2>1, <2>6, StaysIn DEF Parts
<1>5. CASE Char \notin Flag
  <2>1. pc' = "width" /\ i' = i /\ dir' = dir
    BY <1>5 DEF Flags
  <2>2. Within(call.fmt, k + 1, "width", i, dir)
    BY <1>2, <1>3, <1>5, ReadFlags, Zenon
  <2> QED
    BY <1>1, <1>2, <1>3, <2>1, <2>2, StaysIn DEF Parts
<1> QED
  BY <1>4, <1>5

\* The width.
LEMMA WidthReads ==
  ASSUME IInv, ReadingOK, Width, UNCHANGED call
  PROVE  ReadingOK'
<1>1. pc = "width" /\ Char # "nul" /\ Nothing
  BY DEF Width
<1>2. /\ call.fmt \in Formats /\ Len(call.fmt) \in Nat /\ i \in Nat
      /\ i <= Len(call.fmt) /\ Char = call.fmt[i]
  BY <1>1, Looks
<1>3. PICK k \in 1 .. Len(call.fmt) - 1 :
           /\ k + 1 \in 1 .. Len(call.fmt)
           /\ call.fmt[k] = "%" /\ call.fmt[k + 1] # "%"
           /\ Within(call.fmt, k + 1, "width", i, dir) /\ Reached(call.fmt, k)
           /\ On => Whole(call.fmt, call.arg, text, k)
  BY <1>1, InDirective DEF Parts
<1>4. CASE Char \in DOMAIN Digit
  <2>1. pc' = "width" /\ i' = i + 1
    BY <1>4 DEF Width, Goto
  <2>2. dir' = [dir EXCEPT !.width = dir.width * 10 + Digit[Char]]
    BY <1>4 DEF Width
  <2>3. dir = [left |-> dir.left, zero |-> dir.zero, width |-> dir.width, mods |-> dir.mods]
    BY DEF IInv, DirOK
  <2> DEFINE n == dir.width * 10 + Digit[Char]
  <2> HIDE DEF n
  <2>4. dir' = [dir EXCEPT !.width = n]
    BY <2>2 DEF n
  <2>5. /\ dir'.left = dir.left /\ dir'.zero = dir.zero
        /\ dir'.width = n /\ dir'.mods = dir.mods
    BY <2>3, <2>4
  <2>6. dir'.width = dir.width * 10 + Digit[call.fmt[i]]
    BY <1>2, <2>5 DEF n
  <2>7. (dir'.left <=> dir.left) /\ (dir'.zero <=> dir.zero)
    BY <2>5, Zenon
  <2>8. Within(call.fmt, k + 1, "width", i + 1, dir')
    BY <1>2, <1>3, <1>4, <2>5, <2>6, <2>7, ReadsWidth, Zenon
  <2> QED
    BY <1>1, <1>2, <1>3, <2>1, <2>8, StaysIn DEF Parts
<1>5. CASE Char \notin DOMAIN Digit
  <2>1. dir' = dir
    BY <1>5 DEF Width
  <2>2. /\ Precise(call.fmt, i) => Within(call.fmt, k + 1, "precision", i + 1, dir)
        /\ ~Precise(call.fmt, i) => Within(call.fmt, k + 1, "length", i, dir)
    BY <1>2, <1>3, <1>5, ReadWidth, Zenon
  <2>3. CASE Char = "."
    <3>1. pc' = "precision" /\ i' = i + 1
      BY <1>5, <2>3 DEF Width, Goto
    <3>2. Precise(call.fmt, i)
      BY <1>2, <2>3 DEF Precise
    <3> QED
      BY <1>1, <1>2, <1>3, <2>1, <2>2, <3>1, <3>2, StaysIn DEF Parts
  <2>4. CASE Char # "."
    <3>1. pc' = "length" /\ i' = i
      BY <1>5, <2>4 DEF Width
    <3>2. ~Precise(call.fmt, i)
      BY <1>2, <2>4 DEF Precise
    <3> QED
      BY <1>1, <1>2, <1>3, <2>1, <2>2, <3>1, <3>2, StaysIn DEF Parts
  <2> QED
    BY <2>3, <2>4
<1> QED
  BY <1>4, <1>5

\* The precision.
LEMMA PrecisionReads ==
  ASSUME IInv, ReadingOK, Precision, UNCHANGED call
  PROVE  ReadingOK'
<1>1. pc = "precision" /\ Char # "nul" /\ Nothing /\ dir' = dir
  BY DEF Precision
<1>2. /\ call.fmt \in Formats /\ Len(call.fmt) \in Nat /\ i \in Nat
      /\ i <= Len(call.fmt) /\ Char = call.fmt[i]
  BY <1>1, Looks
<1>3. PICK k \in 1 .. Len(call.fmt) - 1 :
           /\ k + 1 \in 1 .. Len(call.fmt)
           /\ call.fmt[k] = "%" /\ call.fmt[k + 1] # "%"
           /\ Within(call.fmt, k + 1, "precision", i, dir) /\ Reached(call.fmt, k)
           /\ On => Whole(call.fmt, call.arg, text, k)
  BY <1>1, InDirective DEF Parts
<1>4. CASE Char \in DOMAIN Digit
  <2>1. pc' = "precision" /\ i' = i + 1
    BY <1>4 DEF Precision, Goto
  <2>2. Within(call.fmt, k + 1, "precision", i + 1, dir)
    BY <1>2, <1>3, <1>4, ReadsPrecision, Zenon
  <2> QED
    BY <1>1, <1>2, <1>3, <2>1, <2>2, StaysIn DEF Parts
<1>5. CASE Char \notin DOMAIN Digit
  <2>1. pc' = "length" /\ i' = i
    BY <1>5 DEF Precision
  <2>2. Within(call.fmt, k + 1, "length", i, dir)
    BY <1>2, <1>3, <1>5, ReadPrecision, Zenon
  <2> QED
    BY <1>1, <1>2, <1>3, <2>1, <2>2, StaysIn DEF Parts
<1> QED
  BY <1>4, <1>5

\* The length modifiers.
LEMMA ModifierReads ==
  ASSUME IInv, ReadingOK, Modifier, UNCHANGED call
  PROVE  ReadingOK'
<1>1. pc = "length" /\ Char # "nul" /\ Nothing
  BY DEF Modifier
<1>2. /\ call.fmt \in Formats /\ Len(call.fmt) \in Nat /\ i \in Nat
      /\ i <= Len(call.fmt) /\ Char = call.fmt[i]
  BY <1>1, Looks
<1>3. PICK k \in 1 .. Len(call.fmt) - 1 :
           /\ k + 1 \in 1 .. Len(call.fmt)
           /\ call.fmt[k] = "%" /\ call.fmt[k + 1] # "%"
           /\ Within(call.fmt, k + 1, "length", i, dir) /\ Reached(call.fmt, k)
           /\ On => Whole(call.fmt, call.arg, text, k)
  BY <1>1, InDirective DEF Parts
<1>4. CASE Char \in Length
  <2>1. pc' = "length" /\ i' = i + 1
    BY <1>4 DEF Modifier, Goto
  <2>2. dir' = [dir EXCEPT !.mods = dir.mods \cup {Char}]
    BY <1>4 DEF Modifier
  <2>3. dir = [left |-> dir.left, zero |-> dir.zero, width |-> dir.width, mods |-> dir.mods]
    BY DEF IInv, DirOK
  <2>4. /\ dir'.left = dir.left /\ dir'.zero = dir.zero
        /\ dir'.width = dir.width /\ dir'.mods = dir.mods \cup {Char}
    BY <2>2, <2>3
  <2>5. (dir'.left <=> dir.left) /\ (dir'.zero <=> dir.zero)
    BY <2>4, Zenon
  <2>6. dir'.mods = dir.mods \cup {call.fmt[i]}
    BY <1>2, <2>4
  <2>7. Within(call.fmt, k + 1, "length", i + 1, dir')
    BY <1>2, <1>3, <1>4, <2>4, <2>5, <2>6, ReadsMod, Zenon
  <2> QED
    BY <1>1, <1>2, <1>3, <2>1, <2>7, StaysIn DEF Parts
<1>5. CASE Char \notin Length
  <2>1. pc' = "convert" /\ i' = i /\ dir' = dir
    BY <1>5 DEF Modifier
  <2>2. Within(call.fmt, k + 1, "convert", i, dir)
    BY <1>2, <1>3, <1>5, ReadMods, Zenon
  <2> QED
    BY <1>1, <1>2, <1>3, <2>1, <2>2, StaysIn DEF Parts
<1> QED
  BY <1>4, <1>5

\* The conversion: what it writes is what the directive means.
LEMMA ConvertReads ==
  ASSUME IInv, ReadingOK, Convert, UNCHANGED call
  PROVE  ReadingOK'
<1> DEFINE fmt == call.fmt
           arg == call.arg
<1>1. pc = "convert" /\ pc' = "text" /\ i' = i + 1 /\ dir' = dir
  BY DEF Convert, Goto
<1>2. PICK junk \in Junk : Put(Converted(Char, Word(dir.mods, junk)))
  BY DEF Convert
<1>3. /\ fmt \in Formats /\ arg \in Args /\ Len(fmt) \in Nat /\ i \in Nat /\ i >= 1
      /\ text \in Seq(Characters) /\ (i <= Len(fmt) => Char = fmt[i])
  BY Looks
<1>4. PICK k \in 1 .. Len(fmt) - 1 :
           /\ fmt[k] = "%" /\ fmt[k + 1] # "%"
           /\ Within(fmt, k + 1, "convert", i, dir) /\ Reached(fmt, k)
           /\ On => Whole(fmt, arg, text, k)
  BY <1>1, InDirective DEF Parts
<1> DEFINE d == Parsed(fmt, k + 1)
           s == Converted(Char, Word(dir.mods, junk))
<1>5. /\ d \in Directives(fmt) /\ ReadAs(d) /\ i \in 1 .. Len(fmt)
      /\ d.last = i /\ d.spec = fmt[i] /\ d.spec # "nul"
  BY <1>3, <1>4, ReadWhole
<1>6. d.spec = Char /\ i + 1 \in 1 .. Len(fmt) + 1
      /\ k \in 1 .. Len(fmt) + 1 /\ ~(k > Len(fmt)) /\ k # Len(fmt)
  BY <1>3, <1>4, <1>5
<1>7. s \in Seq(Characters) /\ text' = text \o s
  <2>1. Char \in Characters
    BY CharIs
  <2>2. text' = text \o s
    BY <1>2 DEF Put
  <2> QED
    BY <2>1, <2>2, ConvertedIs DEF IInv
<1>8. Rest(fmt, arg, k) = Rendered(d, arg) \o Rest(fmt, arg, i + 1)
  BY <1>3, <1>4, <1>5, <1>6, RestIs, Zenon
<1>9. On => s = Rendered(d, arg)
  <2> SUFFICES ASSUME On PROVE s = Rendered(d, arg)
    OBVIOUS
  <2>1. ~Off(d)
    BY <1>5 DEF On
  <2>2. d.spec \in Known
    BY <1>5, <2>1 DEF Off, Known, Numeric
  <2>3. Converted(d.spec, Word(dir.mods, junk)) = Rendered(d, call.arg)
    BY <1>5, <2>1, <2>2, Renders, Zenon DEF IInv
  <2> QED
    BY <1>6, <2>3
<1> HIDE DEF d, s, fmt, arg
<1>10. On => Whole(fmt, arg, text \o s, i + 1)
  BY <1>3, <1>4, <1>6, <1>7, <1>8, <1>9, Says
<1>11. At(fmt, "text", i + 1, dir, i + 1)
  <2>1. i + 1 = Behind(fmt, k)
    BY <1>4, <1>5, <1>6 DEF Behind, d
  <2>2. k \in 1 .. Len(fmt)
    BY <1>3, <1>4
  <2>3. Reached(fmt, i + 1)
    BY <1>3, <1>4, <2>1, <2>2, ReachedNext, Zenon
  <2> QED
    BY <1>3, <1>6, <2>3 DEF At, Parts
<1> QED
  BY <1>1, <1>7, <1>10, <1>11, OnStays DEF ReadingOK, Scanning, fmt, arg

\* The end of the format, also in a directive: nothing is left to say.
LEMMA FinishReads ==
  ASSUME IInv, ReadingOK, Finish, UNCHANGED call
  PROVE  ReadingOK'
<1> DEFINE fmt == call.fmt
           arg == call.arg
<1>1. /\ pc \notin {"convert", "send", "done"} /\ Scanning /\ Char = "nul"
      /\ ~Scanning' /\ text' = text
  BY DEF Finish, Scanning
<1>2. /\ fmt \in Formats /\ arg \in Args /\ Len(fmt) \in Nat /\ i \in Nat /\ i >= 1
      /\ text \in Seq(Characters) /\ ~(i <= Len(fmt))
  BY <1>1, Looks
<1>3. PICK k : At(fmt, pc, i, dir, k) /\ (On => Whole(fmt, arg, text, k))
  BY <1>1 DEF ReadingOK
<1>4. k \in 1 .. Len(fmt) + 1 /\ Rest(fmt, arg, k) = <<>>
  <2>1. CASE pc = "text"
    <3>1. k \in 1 .. Len(fmt) + 1 /\ k > Len(fmt)
      BY <1>2, <1>3, <2>1 DEF At
    <3> QED
      BY <1>2, <3>1, RestIs, Zenon
  <2>2. CASE pc = "percent"
    <3>1. k \in 1 .. Len(fmt) + 1 /\ ~(k > Len(fmt)) /\ k = Len(fmt) /\ fmt[k] = "%"
      BY <1>2, <1>3, <2>2 DEF At
    <3>2. Rest(fmt, arg, k) = <<>>
      BY <1>2, <3>1, RestIs, Zenon
    <3> QED
      BY <3>1, <3>2
  <2>3. CASE pc \in Parts
    <3>1. /\ k \in 1 .. Len(fmt) - 1 /\ fmt[k] = "%" /\ fmt[k + 1] # "%"
          /\ Within(fmt, k + 1, pc, i, dir)
      BY <1>3, <2>3 DEF At
    <3>2. k + 1 \in 1 .. Len(fmt) /\ k \in 1 .. Len(fmt) + 1 /\ ~(k > Len(fmt)) /\ k # Len(fmt)
      BY <1>2, <3>1
    <3>3. pc \in Parts \ {"convert"}
      BY <1>1, <2>3
    <3>4. Parsed(fmt, k + 1).spec = "nul"
      BY <1>2, <3>1, <3>2, <3>3, CutShort, Zenon
    <3>5. Rest(fmt, arg, k) = <<>>
      BY <1>2, <3>1, <3>2, <3>4, RestIs, Zenon
    <3> QED
      BY <3>2, <3>5
  <2> QED
    BY <1>3, <2>1, <2>2, <2>3 DEF At
<1>5. On => text = Meaning(fmt, arg)
  BY <1>2, <1>3, <1>4, SaysNothing, Zenon
<1> QED
  BY <1>1, <1>5, OnStays DEF ReadingOK

\* The inductive invariant of AsMeant.
MInv == IInv /\ ReadingOK

\* Before the first character all of it is left to say.
LEMMA InitReads == Init => ReadingOK
<1> SUFFICES ASSUME Init PROVE ReadingOK
  OBVIOUS
<1>1. IInv /\ pc = "text" /\ i = 1 /\ text = <<>>
  BY InitInv DEF Init
<1>2. call.fmt \in Formats /\ call.arg \in Args /\ Len(call.fmt) \in Nat
  BY <1>1, Looks
<1>3. 1 \in 1 .. Len(call.fmt) + 1
  BY <1>2
<1>4. /\ Meaning(call.fmt, call.arg) = Rest(call.fmt, call.arg, 1)
      /\ Rest(call.fmt, call.arg, 1) \in Seq(Characters)
  BY <1>2, <1>3, RestIs, Zenon
<1>5. Whole(call.fmt, call.arg, text, 1)
  BY <1>1, <1>4, ConcatEmptySeq DEF Whole
<1>6. At(call.fmt, pc, i, dir, 1)
  BY <1>1, <1>3, ReachedFirst DEF At, Parts
<1> QED
  BY <1>1, <1>5, <1>6 DEF ReadingOK, Scanning

\* Every step preserves it.
LEMMA NextReads == MInv /\ [Next]_vars => MInv'
<1> SUFFICES ASSUME MInv, [Next]_vars PROVE MInv'
  OBVIOUS
<1>1. IInv /\ ReadingOK /\ IInv'
  BY NextInv DEF MInv
<1>2. CASE Scan /\ UNCHANGED <<call, sent>>
  BY <1>1, <1>2, LiteralReads, DirectiveReads, PercentReads, FlagsRead, WidthReads,
     PrecisionReads, ModifierReads, ConvertReads, FinishReads DEF Scan, MInv
<1>3. CASE Send /\ UNCHANGED call
  <2>1. ~Scanning /\ ~Scanning' /\ text' = text
    BY <1>3 DEF Send, Scanning
  <2> QED
    BY <1>1, <1>3, <2>1, OnStays DEF ReadingOK, MInv
<1>4. CASE UNCHANGED vars
  <2>1. UNCHANGED <<call, i, pc, dir, text>>
    BY <1>4 DEF vars
  <2> QED
    BY <1>1, <2>1, OnStays DEF ReadingOK, Scanning, MInv
<1> QED
  BY <1>2, <1>3, <1>4 DEF Next

(* AsMeant (vprintf and vsnprintf_internal, stdio.c): for every format     *)
(* whose directives are none of Off, and every argument, the characters    *)
(* that are put out are those the format means by its grammar.             *)
THEOREM AsMeantHolds == Spec => []AsMeant
<1>1. Init => MInv
  BY InitInv, InitReads DEF MInv
<1>2. MInv => AsMeant
  BY DEF MInv, ReadingOK, Scanning, AsMeant, On
<1> QED
  BY <1>1, <1>2, NextReads, PTL DEF Spec
=============================================================================
