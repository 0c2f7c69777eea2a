---------------------------- MODULE LibraryProofs ----------------------------
(***************************************************************************)
(* The functions of the library that compute, for every argument they may  *)
(* be given: the calendar, the text of a date, numbers out and in, answers *)
(* of the kernel, the start of a program, paths and modes.                 *)
(*                                                                         *)
(* The state machine adds little: the invariants say that the last call    *)
(* had arguments it may have and came to what its function makes of them.  *)
(* The rest is what the functions compute.  Their loops are recursive      *)
(* functions; that one exists, and what it is, goes by a least             *)
(* counterexample.                                                         *)
(***************************************************************************)
EXTENDS Library, FiniteSetTheorems, SequenceTheorems, TLAPS

-----------------------------------------------------------------------------
(* The least number of a set, by which the inductions here go.             *)

\* The segments below the numbers of a set are well-founded by inclusion.
LEMMA LeastIs ==
  ASSUME NEW T, T \subseteq Nat, T # {}
  PROVE  \E x \in T : \A y \in T : x <= y
<1> DEFINE Below(n) == 0 .. n - 1
           Segments == {Below(n) : n \in T}
           R == StrictSubsetOrdering(Nat)
<1>1. Segments \subseteq FiniteSubsetsOf(Nat) /\ Segments # {}
  <2>1. \A n \in T : IsFiniteSet(Below(n)) /\ Below(n) \subseteq Nat
    BY FS_Interval
  <2> QED
    BY <2>1 DEF FiniteSubsetsOf
<1>2. \E x \in Segments : \A y \in Segments : ~ (<<y, x>> \in R)
  <2>1. IsWellFoundedOn(R, FiniteSubsetsOf(Nat))
    BY FS_StrictSubsetOrderingWellFounded
  <2> HIDE DEF Segments, R
  <2> QED
    BY <1>1, <2>1, WFMin
<1>3. PICK x \in T : \A y \in T : ~ (<<Below(y), Below(x)>> \in R)
  BY <1>2
<1>4. ASSUME NEW y \in T, ~(x <= y) PROVE FALSE
  <2>1. Below(y) \subseteq Below(x) /\ y \in Below(x) /\ y \notin Below(y)
    BY <1>4
  <2>2. <<Below(y), Below(x)>> \in R
    BY <2>1 DEF StrictSubsetOrdering
  <2> QED
    BY <1>3, <2>2
<1> QED
  BY <1>4

-----------------------------------------------------------------------------
(* Recursion.                                                              *)

Before(f, n) == [k \in 0 .. n - 1 |-> f[k]]

\* G[n] makes the value at n of the values before it.
IsStep(G, S) == \A n \in Nat : G[n] \in [[0 .. n - 1 -> S] -> S]

\* f is made by G; and h is wherever it has values in S before.
Made(f, G, S) == f \in [Nat -> S] /\ \A n \in Nat : f[n] = G[n][Before(f, n)]
Follows(h, G, S) ==
  \A n \in Nat : Before(h, n) \in [0 .. n - 1 -> S] => h[n] = G[n][Before(h, n)]

\* f is made by G up to before n.
Solves(f, n, G, S) ==
  f \in [0 .. n - 1 -> S] /\ \A m \in 0 .. n - 1 : f[m] = G[m][Before(f, m)]

\* How far a solution goes does not matter.
LEMMA SolvedAlike ==
  ASSUME NEW G, NEW S, NEW m \in Nat, NEW n \in Nat, NEW f, NEW h,
         Solves(f, m, G, S), Solves(h, n, G, S)
  PROVE  \A j \in 0 .. n - 1 : j < m => f[j] = h[j]
<1> DEFINE D == {j \in 0 .. n - 1 : j < m /\ f[j] # h[j]}
<1>1. /\ \A j : j \in D <=> j \in 0 .. n - 1 /\ j < m /\ f[j] # h[j]
      /\ D \subseteq Nat
  OBVIOUS
<1> HIDE DEF D
<1>2. ASSUME D # {} PROVE FALSE
  <2>1. PICK j \in D : \A y \in D : j <= y
    BY <1>1, <1>2, LeastIs
  <2>2. j \in 0 .. n - 1 /\ j \in 0 .. m - 1 /\ j \in Nat /\ f[j] # h[j]
    BY <1>1
  <2>3. ASSUME NEW k \in 0 .. j - 1 PROVE f[k] = h[k]
    <3>1. k \in 0 .. n - 1 /\ k < m /\ ~(j <= k)
      BY <2>2
    <3> QED
      BY <1>1, <2>1, <3>1
  <2>4. Before(f, j) = Before(h, j)
    BY <2>3 DEF Before
  <2> QED
    BY <2>2, <2>4 DEF Solves
<1> QED
  BY <1>1, <1>2

\* There is one of every length.
LEMMA SolutionExists ==
  ASSUME NEW G, NEW S, IsStep(G, S), NEW n \in Nat
  PROVE  \E f : Solves(f, n, G, S)
<1> DEFINE D == {j \in Nat : ~ \E f : Solves(f, j, G, S)}
<1>1. D \subseteq Nat /\ \A j \in Nat : j \in D <=> ~ \E f : Solves(f, j, G, S)
  OBVIOUS
<1> HIDE DEF D
<1>2. ASSUME D # {} PROVE FALSE
  <2>1. PICK j \in D : \A y \in D : j <= y
    BY <1>1, <1>2, LeastIs
  <2>2. j \in Nat
    BY <1>1, <2>1
  <2>3. CASE j = 0
    <3>1. Solves([k \in {} |-> 0], 0, G, S)
      <4>1. 0 .. 0 - 1 = {}
        OBVIOUS
      <4> QED
        BY <4>1 DEF Solves
    <3> QED
      BY <1>1, <2>1, <2>3, <3>1
  <2>4. CASE j # 0
    <3> DEFINE p == j - 1
    <3>1. p \in Nat /\ ~(j <= p) /\ j = p + 1
      BY <2>2, <2>4
    <3> HIDE DEF p
    <3>2. PICK f : Solves(f, p, G, S)
      BY <1>1, <2>1, <3>1
    <3> DEFINE new == G[p][Before(f, p)]
               h == [k \in 0 .. j - 1 |-> IF k = p THEN new ELSE f[k]]
    <3>3. Before(f, p) \in [0 .. p - 1 -> S]
      BY <3>2 DEF Solves, Before
    <3>4. new \in S
      BY <3>1, <3>3 DEF IsStep
    <3>5. h \in [0 .. j - 1 -> S] /\ h[p] = new /\ \A k \in 0 .. p - 1 : h[k] = f[k]
      <4>1. \A k \in 0 .. j - 1 : k # p => k \in 0 .. p - 1
        BY <3>1
      <4>2. p \in 0 .. j - 1 /\ \A k \in 0 .. p - 1 : k \in 0 .. j - 1 /\ k # p
        BY <3>1
      <4> HIDE DEF new
      <4> QED
        BY <3>2, <3>4, <4>1, <4>2 DEF Solves
    <3> HIDE DEF h
    <3>6. ASSUME NEW m \in 0 .. j - 1 PROVE Before(h, m) = Before(f, m)
      <4>1. \A k \in 0 .. m - 1 : k \in 0 .. p - 1
        BY <3>1
      <4> QED
        BY <3>5, <4>1 DEF Before
    <3>7. ASSUME NEW m \in 0 .. j - 1 PROVE h[m] = G[m][Before(h, m)]
      <4>1. CASE m = p
        BY <3>5, <3>6, <4>1 DEF new
      <4>2. CASE m # p
        <5>1. m \in 0 .. p - 1
          BY <3>1, <4>2
        <5> QED
          BY <3>2, <3>5, <3>6, <5>1 DEF Solves
      <4> QED
        BY <4>1, <4>2
    <3> QED
      BY <1>1, <2>1, <3>5, <3>7 DEF Solves
  <2> QED
    BY <2>3, <2>4
<1> QED
  BY <1>1, <1>2

\* So the equation has a solution.
LEMMA Recursion ==
  ASSUME NEW G, NEW S, IsStep(G, S)
  PROVE  \E f : Made(f, G, S)
<1> DEFINE To(n) == CHOOSE f : Solves(f, n, G, S)
           all == [n \in Nat |-> To(n + 1)[n]]
<1>1. \A n \in Nat : Solves(To(n), n, G, S)
  BY SolutionExists
<1>2. \A n \in Nat : all[n] = To(n + 1)[n]
  OBVIOUS
<1>3. all = [n \in Nat |-> all[n]]
  OBVIOUS
<1> HIDE DEF To, all
<1>4. ASSUME NEW n \in Nat PROVE all[n] \in S /\ all[n] = G[n][Before(all, n)]
  <2>1. n \in 0 .. (n + 1) - 1 /\ n + 1 \in Nat
    OBVIOUS
  <2>2. Solves(To(n + 1), n + 1, G, S)
    BY <1>1, <2>1
  <2>3. ASSUME NEW k \in 0 .. n - 1 PROVE To(n + 1)[k] = all[k]
    <3>1. k \in Nat /\ k + 1 \in Nat /\ k \in 0 .. (n + 1) - 1 /\ k < k + 1
      OBVIOUS
    <3>2. Solves(To(k + 1), k + 1, G, S)
      BY <1>1, <3>1
    <3>3. To(k + 1)[k] = To(n + 1)[k]
      BY <2>1, <2>2, <3>1, <3>2, SolvedAlike
    <3> QED
      BY <1>2, <3>1, <3>3
  <2>4. Before(To(n + 1), n) = Before(all, n)
    BY <2>3 DEF Before
  <2>5. To(n + 1)[n] \in S /\ To(n + 1)[n] = G[n][Before(To(n + 1), n)]
    BY <2>1, <2>2 DEF Solves
  <2> QED
    BY <1>2, <2>4, <2>5
<1>5. all \in [Nat -> S]
  BY <1>3, <1>4
<1> QED
  BY <1>4, <1>5 DEF Made

\* And no other.
LEMMA RecursionOnly ==
  ASSUME NEW G, NEW S, NEW f, NEW h, Made(f, G, S), Follows(h, G, S)
  PROVE  \A n \in Nat : h[n] = f[n]
<1> DEFINE D == {j \in Nat : h[j] # f[j]}
<1>1. D \subseteq Nat /\ \A j \in Nat : j \in D <=> h[j] # f[j]
  OBVIOUS
<1> HIDE DEF D
<1>2. ASSUME D # {} PROVE FALSE
  <2>1. PICK j \in D : \A y \in D : j <= y
    BY <1>1, <1>2, LeastIs
  <2>2. j \in Nat /\ h[j] # f[j]
    BY <1>1
  <2>3. ASSUME NEW k \in 0 .. j - 1 PROVE h[k] = f[k]
    <3>1. k \in Nat /\ ~(j <= k)
      BY <2>2
    <3> QED
      BY <1>1, <2>1, <3>1
  <2>4. Before(h, j) = Before(f, j)
    BY <2>3 DEF Before
  <2>5. Before(f, j) \in [0 .. j - 1 -> S]
    BY <2>2 DEF Before, Made
  <2> QED
    BY <2>2, <2>4, <2>5 DEF Made, Follows
<1> QED
  BY <1>1, <1>2

-----------------------------------------------------------------------------
(* Loops.                                                                  *)

\* f is where a loop ends that goes from c to nx[c] unless c is in Stop.
Loop(f, D, Stop, nx) == f = [c \in D |-> IF c \in Stop THEN c ELSE f[nx[c]]]

\* mu counts the rounds there are at most.
Rounds(mu, D, Stop, nx) ==
  /\ mu \in [D -> Nat] /\ nx \in [D -> D]
  /\ \A c \in D : c \notin Stop => mu[c] # 0 /\ mu[nx[c]] = mu[c] - 1

\* A loop that ends computes something.
LEMMA LoopExists ==
  ASSUME NEW D, NEW Stop, NEW nx, NEW mu, Rounds(mu, D, Stop, nx)
  PROVE  \E f : Loop(f, D, Stop, nx)
<1> DEFINE S == [D -> D]
           Step(n, h) == [c \in D |-> IF c \in Stop \/ n = 0 THEN c ELSE h[n - 1][nx[c]]]
           G == [n \in Nat |-> [h \in [0 .. n - 1 -> S] |-> Step(n, h)]]
<1>1. ASSUME NEW n \in Nat, NEW h \in [0 .. n - 1 -> S] PROVE Step(n, h) \in S
  <2>1. n # 0 => n - 1 \in 0 .. n - 1
    OBVIOUS
  <2> QED
    BY <2>1 DEF Rounds
<1>2. IsStep(G, S)
  <2> SUFFICES ASSUME NEW n \in Nat PROVE G[n] \in [[0 .. n - 1 -> S] -> S]
    BY DEF IsStep
  <2>1. G[n] = [h \in [0 .. n - 1 -> S] |-> Step(n, h)]
    OBVIOUS
  <2> HIDE DEF Step, G, S
  <2> QED
    BY <1>1, <2>1
<1>3. ASSUME NEW n \in Nat, NEW h \in [0 .. n - 1 -> S] PROVE G[n][h] = Step(n, h)
  OBVIOUS
<1> HIDE DEF G
<1>4. PICK w : Made(w, G, S)
  <2> HIDE DEF S
  <2> QED
    BY <1>2, Recursion
<1>5. ASSUME NEW n \in Nat, NEW c \in D
      PROVE  w[n][c] = IF c \in Stop \/ n = 0 THEN c ELSE w[n - 1][nx[c]]
  <2>1. Before(w, n) \in [0 .. n - 1 -> S]
    <3> HIDE DEF S
    <3> QED
      BY <1>4 DEF Before, Made
  <2>2. w[n] = Step(n, Before(w, n))
    <3> HIDE DEF S, Step
    <3> QED
      BY <1>3, <1>4, <2>1 DEF Made
  <2>3. n # 0 => Before(w, n)[n - 1] = w[n - 1]
    BY DEF Before
  <2> HIDE DEF S
  <2> QED
    BY <2>2, <2>3
<1> DEFINE f == [c \in D |-> w[mu[c]][c]]
<1>6. ASSUME NEW c \in D PROVE f[c] = IF c \in Stop THEN c ELSE f[nx[c]]
  <2>1. mu[c] \in Nat /\ nx[c] \in D
    BY DEF Rounds
  <2>2. w[mu[c]][c] = IF c \in Stop \/ mu[c] = 0 THEN c ELSE w[mu[c] - 1][nx[c]]
    BY <1>5, <2>1
  <2>3. c \notin Stop => mu[c] # 0 /\ mu[nx[c]] = mu[c] - 1
    BY DEF Rounds
  <2> QED
    BY <2>1, <2>2, <2>3
<1>7. f = [c \in D |-> IF c \in Stop THEN c ELSE f[nx[c]]]
  BY <1>6
<1> QED
  BY <1>7 DEF Loop

\* What holds where it ends at once, and goes back over a round, holds.
LEMMA LoopKeeps ==
  ASSUME NEW D, NEW Stop, NEW nx, NEW mu, Rounds(mu, D, Stop, nx),
         NEW f, Loop(f, D, Stop, nx), NEW R,
         \A c \in D : c \in Stop => <<c, c>> \in R,
         \A c \in D : c \notin Stop => \A r : <<nx[c], r>> \in R => <<c, r>> \in R
  PROVE  \A c \in D : <<c, f[c]>> \in R
<1> DEFINE T == {n \in Nat : \E c \in D : <<c, f[c]>> \notin R /\ mu[c] = n}
<1>1. T \subseteq Nat
  OBVIOUS
<1>2. \A c \in D : <<c, f[c]>> \notin R => mu[c] \in T
  BY DEF Rounds
<1>3. \A n \in T : \E c \in D : <<c, f[c]>> \notin R /\ mu[c] = n
  OBVIOUS
<1> HIDE DEF T
<1>4. ASSUME T # {} PROVE FALSE
  <2>1. PICK n \in T : \A y \in T : n <= y
    BY <1>1, <1>4, LeastIs
  <2>2. PICK c \in D : <<c, f[c]>> \notin R /\ mu[c] = n
    BY <1>3
  <2>3. f[c] = IF c \in Stop THEN c ELSE f[nx[c]]
    BY DEF Loop
  <2>4. c \notin Stop
    BY <2>2, <2>3
  <2>5. nx[c] \in D /\ n \in Nat /\ mu[nx[c]] = n - 1
    BY <1>1, <2>2, <2>4 DEF Rounds
  <2>6. <<nx[c], f[nx[c]]>> \in R
    <3>1. ~(n <= n - 1)
      BY <2>5
    <3> QED
      BY <1>2, <2>1, <2>5, <3>1
  <2> QED
    BY <2>2, <2>3, <2>4, <2>6
<1> QED
  BY <1>2, <1>4

-----------------------------------------------------------------------------
(* The calendar.                                                           *)

\* A year is as long as its days say.
LEMMA YearIs ==
  ASSUME NEW y \in Nat
  PROVE  /\ NewYear(y) \in Int /\ YearDays(y) \in {365, 366}
         /\ NewYear(y + 1) = NewYear(y) + YearDays(y)
<1> DEFINE p == y - 1
<1>1. p \in Int /\ y = p + 1 /\ (y + 1) - 1 = y
  OBVIOUS
<1>2. y \div 4 = p \div 4 + (IF y % 4 = 0 THEN 1 ELSE 0)
  OBVIOUS
<1>3. y \div 100 = p \div 100 + (IF y % 100 = 0 THEN 1 ELSE 0)
  OBVIOUS
<1>4. y \div 400 = p \div 400 + (IF y % 400 = 0 THEN 1 ELSE 0)
  OBVIOUS
<1>5. (y % 400 = 0 => y % 100 = 0) /\ (y % 100 = 0 => y % 4 = 0)
  OBVIOUS
<1>6. LeapsUpTo(1969) \in Int /\ LeapsUpTo(p) \in Int /\ LeapsUpTo(y) \in Int
  BY DEF LeapsUpTo
<1> HIDE DEF p
<1>7. LeapsUpTo(y) = LeapsUpTo(p) + (IF IsLeap(y) THEN 1 ELSE 0)
  <2>1. IsLeap(y) <=> (y % 4 = 0 /\ y % 100 # 0) \/ y % 400 = 0
    BY DEF IsLeap
  <2>2. p \div 4 \in Int /\ p \div 100 \in Int /\ p \div 400 \in Int
    BY <1>1
  <2> QED
    BY <1>2, <1>3, <1>4, <1>5, <2>1, <2>2 DEF LeapsUpTo
<1>8. NewYear(y) = 365 * (y - 1970) + LeapsUpTo(p) - LeapsUpTo(1969)
  BY DEF NewYear, p, Epoch
<1>9. NewYear(y + 1) = 365 * ((y + 1) - 1970) + LeapsUpTo(y) - LeapsUpTo(1969)
  BY <1>1 DEF NewYear, Epoch
<1> QED
  BY <1>6, <1>7, <1>8, <1>9 DEF YearDays

\* The epoch is day 0, and 1 January 2000 day 10957.
LEMMA Epochs == NewYear(Epoch) = 0 /\ NewYear(2000) = 10957
<1>1. LeapsUpTo(1969) = 477 /\ LeapsUpTo(1999) = 484
  <2>1. 1969 \div 4 = 492 /\ 1969 \div 100 = 19 /\ 1969 \div 400 = 4
    OBVIOUS
  <2>2. 1999 \div 4 = 499 /\ 1999 \div 100 = 19 /\ 1999 \div 400 = 4
    OBVIOUS
  <2> QED
    BY <2>1, <2>2 DEF LeapsUpTo
<1>2. 1970 - 1 = 1969 /\ 2000 - 1 = 1999
  OBVIOUS
<1> QED
  BY <1>1, <1>2 DEF NewYear, Epoch

\* A month is as long as the table says, and twelve of them are the year.
LEMMA MonthIs ==
  ASSUME NEW y \in Nat, NEW m \in 0 .. 11
  PROVE  /\ DaysBefore(y, 0) = 0 /\ DaysBefore(y, 12) = YearDays(y)
         /\ DaysBefore(y, m) \in Int /\ MonthDays(y)[m + 1] \in 28 .. 31
         /\ DaysBefore(y, m + 1) = DaysBefore(y, m) + MonthDays(y)[m + 1]
<1>1. YearLength(y) = YearDays(y) /\ YearDays(y) \in {365, 366}
  BY YearIs DEF YearLength
<1>2. YearDays(y) = IF IsLeap(y) THEN 366 ELSE 365
  BY DEF YearDays
<1> DEFINE s == 367 - YearDays(y)
           B(n) == 30 * n + LongMonths(n) - (IF n <= 1 THEN 0 ELSE s)
<1>3. \A n : DaysBefore(y, n) = B(n)
  BY <1>1 DEF DaysBefore
<1>4. s \in {1, 2} /\ s = IF IsLeap(y) THEN 1 ELSE 2
  BY <1>1, <1>2
<1>5. /\ LongMonths(0) = 0 /\ LongMonths(1) = 1 /\ LongMonths(2) = 1 /\ LongMonths(3) = 2
      /\ LongMonths(4) = 2 /\ LongMonths(5) = 3 /\ LongMonths(6) = 3 /\ LongMonths(7) = 4
      /\ LongMonths(8) = 5 /\ LongMonths(9) = 5 /\ LongMonths(10) = 6
      /\ LongMonths(11) = 6 /\ LongMonths(12) = 7
  BY DEF LongMonths
<1>6. /\ MonthDays(y)[1] = 31 /\ MonthDays(y)[2] = 30 - s /\ MonthDays(y)[3] = 31
      /\ MonthDays(y)[4] = 30 /\ MonthDays(y)[5] = 31 /\ MonthDays(y)[6] = 30
      /\ MonthDays(y)[7] = 31 /\ MonthDays(y)[8] = 31 /\ MonthDays(y)[9] = 30
      /\ MonthDays(y)[10] = 31 /\ MonthDays(y)[11] = 30 /\ MonthDays(y)[12] = 31
  <2> DEFINE feb == IF IsLeap(y) THEN 29 ELSE 28
  <2>1. feb = 30 - s
    BY <1>4
  <2>2. MonthDays(y) = <<31, feb, 31, 30, 31, 30, 31, 31, 30, 31, 30, 31>>
    BY DEF MonthDays
  <2> HIDE DEF feb
  <2> QED
    BY <2>1, <2>2
<1> HIDE DEF s
<1>7. B(0) = 0 /\ B(12) = 367 - s
  BY <1>4, <1>5
<1>8. B(m) \in Int /\ MonthDays(y)[m + 1] \in 28 .. 31
         /\ B(m + 1) = B(m) + MonthDays(y)[m + 1]
  <2>1. m \in {0, 1, 2, 3, 4, 5} \/ m \in {6, 7, 8, 9, 10, 11}
    OBVIOUS
  <2>2. CASE m \in {0, 1, 2, 3, 4, 5}
    BY <1>4, <1>5, <1>6, <2>2
  <2>3. CASE m \in {6, 7, 8, 9, 10, 11}
    BY <1>4, <1>5, <1>6, <2>3
  <2> QED
    BY <2>1, <2>2, <2>3
<1>9. 367 - s = YearDays(y)
  BY <1>1 DEF s
<1> HIDE DEF B
<1> QED
  BY <1>3, <1>7, <1>8, <1>9

\* What is left when the loop over the years ends, and the year.
YearAndDay(days, r) ==
  /\ r.year \in Epoch .. LastYear /\ r.left \in Int
  /\ r.left = days - NewYear(r.year) /\ r.left < YearDays(r.year)
  /\ days >= 0 => r.left >= 0

\* time_to_tm's loop over the years ends in the year of the day.
LEMMA CountYearsIs ==
  ASSUME NEW days \in Int, days < NewYear(LastYear + 1)
  PROVE  YearAndDay(days, CountYears(days))
<1> DEFINE D == [year : Epoch .. LastYear + 1, left : Int]
           Goes(c) == c.left >= YearDays(c.year) /\ c.year <= LastYear
           Over(c) == [year |-> c.year + 1, left |-> c.left - YearDays(c.year)]
           Stop == {c \in D : ~Goes(c)}
           nx == [c \in D |-> IF Goes(c) THEN Over(c) ELSE c]
           mu == [c \in D |-> LastYear + 1 - c.year]
<1>1. LastYear \in Nat /\ Epoch \in Nat /\ LastYear >= Epoch
  BY LibraryAssumption DEF Epoch
<1>2. ASSUME NEW c \in D
      PROVE  c.year \in Nat /\ c.year \in Epoch .. LastYear + 1 /\ c.left \in Int
                               /\ c = [year |-> c.year, left |-> c.left]
  BY <1>1
<1>3. ASSUME NEW c \in D, Goes(c)
      PROVE  /\ Over(c) \in D /\ Over(c).year = c.year + 1
             /\ Over(c).left = c.left - YearDays(c.year)
  <2>1. YearDays(c.year) \in {365, 366} /\ c.year + 1 \in Epoch .. LastYear + 1
    BY <1>1, <1>2, <1>3, YearIs
  <2> QED
    BY <1>2, <2>1
<1>4. \A c : c \in Stop <=> c \in D /\ ~Goes(c)
  OBVIOUS
<1>5. \A c \in D : nx[c] = IF Goes(c) THEN Over(c) ELSE c
  OBVIOUS
<1>6. \A c \in D : mu[c] = LastYear + 1 - c.year
  OBVIOUS
<1>7. Rounds(mu, D, Stop, nx)
  <2>1. mu \in [D -> Nat]
    BY <1>1, <1>2
  <2>2. nx \in [D -> D]
    <3> HIDE DEF Goes, Over, D
    <3> QED
      BY <1>3
  <2>3. ASSUME NEW c \in D, c \notin Stop PROVE mu[c] # 0 /\ mu[nx[c]] = mu[c] - 1
    <3>1. Goes(c) /\ nx[c] = Over(c)
      BY <1>4, <1>5, <2>3
    <3>2. mu[c] = LastYear + 1 - c.year /\ mu[nx[c]] = LastYear + 1 - (c.year + 1)
      BY <1>3, <1>6, <3>1
    <3>3. c.year <= LastYear
      BY <3>1
    <3> HIDE DEF mu, nx, Goes, D
    <3> QED
      BY <1>1, <1>2, <3>2, <3>3
  <2> HIDE DEF mu, nx, Stop, D
  <2> QED
    BY <2>1, <2>2, <2>3 DEF Rounds
<1>8. PICK f : Loop(f, D, Stop, nx)
  <2> HIDE DEF mu, nx, Stop, D
  <2> QED
    BY <1>7, LoopExists
<1>9. f = [c \in D |-> IF Goes(c) THEN f[Over(c)] ELSE c]
  <2>1. \A c \in D : (IF c \in Stop THEN c ELSE f[nx[c]]) = IF Goes(c) THEN f[Over(c)] ELSE c
    BY <1>4, <1>5
  <2> HIDE DEF D, Stop, Goes, Over, nx
  <2>2. f = [c \in D |-> IF c \in Stop THEN c ELSE f[nx[c]]]
    BY <1>8 DEF Loop
  <2> QED
    BY <2>2, <2>1
<1> DEFINE count[at \in [year : Epoch .. LastYear + 1, left : Int]] ==
             IF at.left >= YearDays(at.year) /\ at.year <= LastYear
             THEN count[[year |-> at.year + 1, left |-> at.left - YearDays(at.year)]]
             ELSE at
<1>10. count = [at \in [year : Epoch .. LastYear + 1, left : Int] |->
             IF at.left >= YearDays(at.year) /\ at.year <= LastYear
             THEN count[[year |-> at.year + 1, left |-> at.left - YearDays(at.year)]]
             ELSE at]
  <2>1. f = [at \in [year : Epoch .. LastYear + 1, left : Int] |->
             IF at.left >= YearDays(at.year) /\ at.year <= LastYear
             THEN f[[year |-> at.year + 1, left |-> at.left - YearDays(at.year)]]
             ELSE at]
    BY <1>9, Zenon DEF D, Goes, Over
  <2> QED
    BY <2>1, Zenon
<1>11. CountYears(days) = count[[year |-> Epoch, left |-> days]]
  BY Zenon DEF CountYears
<1> HIDE DEF count
<1>12. Loop(count, D, Stop, nx)
  <2>1. count = [c \in D |-> IF Goes(c) THEN count[Over(c)] ELSE c]
    BY <1>10, Zenon DEF D, Goes, Over
  <2>2. \A c \in D :
          (IF c \in Stop THEN c ELSE count[nx[c]]) = IF Goes(c) THEN count[Over(c)] ELSE c
    BY <1>4, <1>5
  <2>3. count = [c \in D |-> IF c \in Stop THEN c ELSE count[nx[c]]]
    <3> HIDE DEF D, Stop, Goes, Over, nx
    <3> QED
      BY <2>1, <2>2
  <2> HIDE DEF D, Stop, Goes, Over, nx
  <2> QED
    BY <2>3 DEF Loop
<1> DEFINE Ends(c, r) ==
             /\ r.year >= c.year
             /\ r.left = c.left - (NewYear(r.year) - NewYear(c.year))
             /\ r.left < YearDays(r.year) \/ r.year = LastYear + 1
             /\ c.left >= 0 => r.left >= 0
             /\ c.left < 0 => r.year = c.year
           R == {p \in D \X D : Ends(p[1], p[2])}
<1>13. \A c, r : <<c, r>> \in R <=> c \in D /\ r \in D /\ Ends(c, r)
  <2> HIDE DEF Ends, D
  <2> QED
    OBVIOUS
<1>14. \A c \in D : <<c, count[c]>> \in R
  <2>1. ASSUME NEW c \in D, c \in Stop PROVE <<c, c>> \in R
    <3>1. ~Goes(c)
      BY <1>4, <2>1
    <3>2. NewYear(c.year) \in Int /\ YearDays(c.year) \in {365, 366}
      BY <1>2, YearIs
    <3>3. c.left < YearDays(c.year) \/ c.year = LastYear + 1
      BY <1>1, <1>2, <3>1, <3>2
    <3>4. Ends(c, c)
      BY <1>2, <3>2, <3>3
    <3> QED
      BY <1>13, <3>4
  <2>2. ASSUME NEW c \in D, c \notin Stop, NEW r, <<nx[c], r>> \in R PROVE <<c, r>> \in R
    <3>1. Goes(c) /\ nx[c] = Over(c)
      BY <1>4, <1>5, <2>2
    <3>2. r \in D /\ Ends(Over(c), r) /\ Over(c).year = c.year + 1
            /\ Over(c).left = c.left - YearDays(c.year)
      BY <1>3, <1>13, <2>2, <3>1
    <3>3. /\ NewYear(c.year) \in Int /\ YearDays(c.year) \in {365, 366}
          /\ NewYear(c.year + 1) = NewYear(c.year) + YearDays(c.year)
      BY <1>2, YearIs
    <3>4. NewYear(r.year) \in Int /\ r.year \in Nat /\ r.left \in Int
      BY <1>2, <3>2, YearIs
    <3>5. c.year \in Nat /\ c.left \in Int /\ c.left >= YearDays(c.year)
      BY <1>2, <3>1
    <3> HIDE DEF Over, Goes, D
    <3>6. /\ r.year >= c.year + 1
          /\ r.left = (c.left - YearDays(c.year)) - (NewYear(r.year) - NewYear(c.year + 1))
          /\ r.left < YearDays(r.year) \/ r.year = LastYear + 1
          /\ c.left - YearDays(c.year) >= 0 => r.left >= 0
      BY <3>2
    <3>7. Ends(c, r)
      BY <3>3, <3>4, <3>5, <3>6
    <3> QED
      BY <1>13, <3>2, <3>7
  <2> HIDE DEF D, Stop, nx, mu, R
  <2> QED
    BY <1>7, <1>12, <2>1, <2>2, LoopKeeps
<1> DEFINE c == [year |-> Epoch, left |-> days]
           r == count[c]
<1>15. c \in D /\ c.year = Epoch /\ c.left = days
  BY <1>1
<1>16. r \in D /\ Ends(c, r)
  <2> HIDE DEF D, R, Ends, c, Goes, Over, Stop, nx, mu
  <2> QED
    BY <1>13, <1>14, <1>15
<1> HIDE DEF c, r
<1>17. r.year \in Nat /\ r.year \in Epoch .. LastYear + 1 /\ r.left \in Int
  BY <1>2, <1>16
<1>18. /\ r.left = days - NewYear(r.year)
       /\ r.left < YearDays(r.year) \/ r.year = LastYear + 1
       /\ days >= 0 => r.left >= 0
       /\ days < 0 => r.year = Epoch
  <2>1. NewYear(r.year) \in Int
    BY <1>17, YearIs
  <2> HIDE DEF D
  <2> QED
    BY <1>15, <1>16, <2>1, Epochs
<1>19. r.year # LastYear + 1
  <2>1. NewYear(r.year) \in Int
    BY <1>17, YearIs
  <2> QED
    BY <1>1, <1>17, <1>18, <2>1
<1>20. YearAndDay(days, r)
  <2>1. r.year \in Epoch .. LastYear
    BY <1>1, <1>17, <1>19
  <2> QED
    BY <1>17, <1>18, <1>19, <2>1 DEF YearAndDay
<1> QED
  BY <1>11, <1>20 DEF c, r

\* The same of the months.
MonthAndDay(year, yday, r) ==
  /\ r.month \in 0 .. 12 /\ r.left \in Int
  /\ r.left = yday - DaysBefore(year, r.month)
  /\ r.month = 12 \/ r.left < MonthDays(year)[r.month + 1]
  /\ yday >= 0 => r.left >= 0

\* The loop over the months ends in the month, or behind December.
LEMMA CountMonthsIs ==
  ASSUME NEW year \in Nat, NEW yday \in Int
  PROVE  MonthAndDay(year, yday, CountMonths(year, yday))
<1> DEFINE D == [month : 0 .. 12, left : Int]
           Size(m) == MonthDays(year)[m + 1]
           Goes(c) == c.month < 12 /\ c.left >= Size(c.month)
           Over(c) == [month |-> c.month + 1, left |-> c.left - Size(c.month)]
           Stop == {c \in D : ~Goes(c)}
           nx == [c \in D |-> IF Goes(c) THEN Over(c) ELSE c]
           mu == [c \in D |-> 12 - c.month]
<1>1. \A m \in 0 .. 11 : /\ Size(m) \in 28 .. 31 /\ DaysBefore(year, m) \in Int
                         /\ DaysBefore(year, m + 1) = DaysBefore(year, m) + Size(m)
  BY MonthIs
<1>2. \A m \in 0 .. 12 : DaysBefore(year, m) \in Int
  <2>1. DaysBefore(year, 12) \in Int
    <3>1. 0 \in 0 .. 11
      OBVIOUS
    <3> QED
      BY <3>1, MonthIs, YearIs
  <2>2. \A m \in 0 .. 12 : m \in 0 .. 11 \/ m = 12
    OBVIOUS
  <2> QED
    BY <1>1, <2>1, <2>2
<1> HIDE DEF Size
<1>3. ASSUME NEW c \in D PROVE c.month \in Nat /\ c.month \in 0 .. 12 /\ c.left \in Int
                               /\ c = [month |-> c.month, left |-> c.left]
  OBVIOUS
<1>4. ASSUME NEW c \in D, Goes(c)
      PROVE  /\ Over(c) \in D /\ Over(c).month = c.month + 1 /\ c.month \in 0 .. 11
             /\ Over(c).left = c.left - Size(c.month)
  <2>1. c.month \in 0 .. 11 /\ c.month + 1 \in 0 .. 12
    BY <1>3, <1>4
  <2>2. Size(c.month) \in 28 .. 31
    BY <1>1, <2>1
  <2> QED
    BY <1>3, <2>1, <2>2
<1>5. \A c : c \in Stop <=> c \in D /\ ~Goes(c)
  OBVIOUS
<1>6. \A c \in D : nx[c] = IF Goes(c) THEN Over(c) ELSE c
  OBVIOUS
<1>7. \A c \in D : mu[c] = 12 - c.month
  OBVIOUS
<1>8. Rounds(mu, D, Stop, nx)
  <2>1. mu \in [D -> Nat]
    BY <1>3
  <2>2. nx \in [D -> D]
    <3> HIDE DEF Goes, Over, D
    <3> QED
      BY <1>4
  <2>3. ASSUME NEW c \in D, c \notin Stop PROVE mu[c] # 0 /\ mu[nx[c]] = mu[c] - 1
    <3>1. Goes(c) /\ nx[c] = Over(c)
      BY <1>5, <1>6, <2>3
    <3>2. mu[c] = 12 - c.month /\ mu[nx[c]] = 12 - (c.month + 1)
      BY <1>4, <1>7, <3>1
    <3>3. c.month < 12
      BY <3>1
    <3> HIDE DEF mu, nx, Goes, D
    <3> QED
      BY <1>3, <3>2, <3>3
  <2> HIDE DEF mu, nx, Stop, D
  <2> QED
    BY <2>1, <2>2, <2>3 DEF Rounds
<1>9. PICK f : Loop(f, D, Stop, nx)
  <2> HIDE DEF mu, nx, Stop, D
  <2> QED
    BY <1>8, LoopExists
<1>10. f = [c \in D |-> IF Goes(c) THEN f[Over(c)] ELSE c]
  <2>1. f = [c \in D |-> IF c \in Stop THEN c ELSE f[nx[c]]]
    BY <1>9 DEF Loop
  <2>2. \A c \in D : (IF c \in Stop THEN c ELSE f[nx[c]]) = IF Goes(c) THEN f[Over(c)] ELSE c
    BY <1>5, <1>6
  <2> HIDE DEF D, Stop, Goes, Over, nx
  <2> QED
    BY <2>1, <2>2
<1> DEFINE count[at \in [month : 0 .. 12, left : Int]] ==
             IF at.month < 12 /\ at.left >= MonthDays(year)[at.month + 1]
             THEN count[[month |-> at.month + 1,
                         left  |-> at.left - MonthDays(year)[at.month + 1]]]
             ELSE at
<1>11. count = [at \in D |->
             IF at.month < 12 /\ at.left >= MonthDays(year)[at.month + 1]
             THEN count[[month |-> at.month + 1,
                         left  |-> at.left - MonthDays(year)[at.month + 1]]]
             ELSE at]
  BY <1>10, Zenon DEF D, Goes, Over, Size
<1>12. CountMonths(year, yday) = count[[month |-> 0, left |-> yday]]
  BY Zenon DEF CountMonths
<1> HIDE DEF count
<1>13. Loop(count, D, Stop, nx)
  <2>1. count = [c \in D |-> IF Goes(c) THEN count[Over(c)] ELSE c]
    BY <1>11, Zenon DEF Goes, Over, Size
  <2>2. \A c \in D :
          (IF c \in Stop THEN c ELSE count[nx[c]]) = IF Goes(c) THEN count[Over(c)] ELSE c
    BY <1>5, <1>6
  <2>3. count = [c \in D |-> IF c \in Stop THEN c ELSE count[nx[c]]]
    <3> HIDE DEF D, Stop, Goes, Over, nx
    <3> QED
      BY <2>1, <2>2
  <2> HIDE DEF D, Stop, Goes, Over, nx
  <2> QED
    BY <2>3 DEF Loop
<1> DEFINE Ends(c, r) ==
             /\ r.left = c.left - (DaysBefore(year, r.month) - DaysBefore(year, c.month))
             /\ r.month = 12 \/ r.left < Size(r.month)
             /\ c.left >= 0 => r.left >= 0
           R == {p \in D \X D : Ends(p[1], p[2])}
<1>14. \A c, r : <<c, r>> \in R <=> c \in D /\ r \in D /\ Ends(c, r)
  <2> HIDE DEF Ends, D
  <2> QED
    OBVIOUS
<1>15. \A c \in D : <<c, count[c]>> \in R
  <2>1. ASSUME NEW c \in D, c \in Stop PROVE <<c, c>> \in R
    <3>1. ~Goes(c)
      BY <1>5, <2>1
    <3>2. DaysBefore(year, c.month) \in Int /\ (c.month # 12 => Size(c.month) \in 28 .. 31)
      BY <1>1, <1>3, <1>2
    <3>3. c.month = 12 \/ c.left < Size(c.month)
      BY <1>3, <3>1, <3>2
    <3>4. Ends(c, c)
      BY <1>3, <3>2, <3>3
    <3> QED
      BY <1>14, <3>4
  <2>2. ASSUME NEW c \in D, c \notin Stop, NEW r, <<nx[c], r>> \in R PROVE <<c, r>> \in R
    <3>1. Goes(c) /\ nx[c] = Over(c)
      BY <1>5, <1>6, <2>2
    <3>2. /\ r \in D /\ Ends(Over(c), r) /\ Over(c).month = c.month + 1
          /\ Over(c).left = c.left - Size(c.month) /\ c.month \in 0 .. 11
      BY <1>4, <1>14, <2>2, <3>1
    <3>3. /\ DaysBefore(year, c.month) \in Int /\ Size(c.month) \in 28 .. 31
          /\ DaysBefore(year, c.month + 1) = DaysBefore(year, c.month) + Size(c.month)
      BY <1>1, <3>2
    <3>4. DaysBefore(year, r.month) \in Int /\ r.left \in Int
      BY <1>3, <1>2, <3>2
    <3>5. c.left \in Int /\ c.left >= Size(c.month)
      BY <1>3, <3>1
    <3> HIDE DEF Over, Goes, D
    <3>6. /\ r.left = (c.left - Size(c.month))
                        - (DaysBefore(year, r.month) - DaysBefore(year, c.month + 1))
          /\ r.month = 12 \/ r.left < Size(r.month)
          /\ c.left - Size(c.month) >= 0 => r.left >= 0
      BY <3>2
    <3>7. Ends(c, r)
      BY <3>3, <3>4, <3>5, <3>6
    <3> QED
      BY <1>14, <3>2, <3>7
  <2> HIDE DEF D, Stop, nx, mu, R
  <2> QED
    BY <1>8, <1>13, <2>1, <2>2, LoopKeeps
<1> DEFINE c == [month |-> 0, left |-> yday]
           r == count[c]
<1>16. c \in D /\ c.month = 0 /\ c.left = yday
  OBVIOUS
<1>17. r \in D /\ Ends(c, r)
  <2> HIDE DEF D, R, Ends, c, Goes, Over, Stop, nx, mu
  <2> QED
    BY <1>14, <1>15, <1>16
<1> HIDE DEF c, r
<1>18. r.month \in 0 .. 12 /\ r.left \in Int
  BY <1>3, <1>17
<1>19. DaysBefore(year, r.month) \in Int /\ DaysBefore(year, 0) = 0
  <2>1. 0 \in 0 .. 11
    OBVIOUS
  <2> QED
    BY <1>2, <1>18, <2>1, MonthIs
<1>20. MonthAndDay(year, yday, r)
  <2> HIDE DEF D
  <2> QED
    BY <1>16, <1>17, <1>18, <1>19 DEF MonthAndDay, Size
<1> QED
  BY <1>12, <1>20 DEF c, r

\* C's division is exact but for its remainder, which is small.
LEMMA QuotIs ==
  ASSUME NEW a \in Int, NEW b \in Nat \ {0}
  PROVE  /\ Quot(a, b) \in Int /\ Rest(a, b) \in Int
         /\ b * Quot(a, b) + Rest(a, b) = a
         /\ a >= 0 => /\ Quot(a, b) = a \div b /\ Rest(a, b) = a % b
                      /\ Rest(a, b) \in 0 .. b - 1 /\ Quot(a, b) \in Nat
<1>1. Quot(a, b) \in Int
  <2>1. (-a) \div b \in Int /\ a \div b \in Int
    OBVIOUS
  <2> QED
    BY <2>1 DEF Quot
<1>2. b * Quot(a, b) \in Int
  BY <1>1
<1>3. Rest(a, b) = a - b * Quot(a, b)
  BY DEF Rest
<1>4. ASSUME a >= 0 PROVE /\ Quot(a, b) = a \div b /\ Rest(a, b) = a % b
                          /\ Rest(a, b) \in 0 .. b - 1 /\ Quot(a, b) \in Nat
  <2>1. Quot(a, b) = a \div b
    BY <1>4 DEF Quot
  <2>2. a = b * (a \div b) + (a % b) /\ a % b \in 0 .. b - 1 /\ a \div b \in Nat
    BY <1>4
  <2> QED
    BY <1>3, <2>1, <2>2
<1> QED
  BY <1>1, <1>2, <1>3, <1>4

\* The days of the week, from the Saturday of 2000.
LEMMA WeekIs ==
  ASSUME NEW q \in Nat
  PROVE  /\ Rest(q + 4, 7) \in 0 .. 6
         /\ (Rest(q + 4, 7) - Saturday2000.wday) % 7 = (q - Saturday2000.day) % 7
<1> DEFINE w == (q + 4) % 7
           k == (q + 4) \div 7
<1>1. Rest(q + 4, 7) = w
  BY QuotIs
<1>2. Saturday2000.wday = 6 /\ Saturday2000.day = 10957
  BY Epochs DEF Saturday2000
<1>3. w \in 0 .. 6 /\ k \in Int /\ q + 4 = 7 * k + w
  OBVIOUS
<1> HIDE DEF w, k
<1>4. q - 10957 = 7 * (k - 1566) + (w + 1)
  BY <1>3
<1>5. w - 6 = 7 * (0 - 1) + (w + 1)
  BY <1>3
<1>6. \A i \in Int : (7 * i + (w + 1)) % 7 = (w + 1) % 7
  BY <1>3
<1>7. (q - 10957) % 7 = (w + 1) % 7
  BY <1>3, <1>4, <1>6
<1>8. (w - 6) % 7 = (w + 1) % 7
  BY <1>3, <1>5, <1>6
<1> QED
  BY <1>1, <1>2, <1>3, <1>7, <1>8

\* What FieldsTellTime says of a time and a struct.
TellsTime(t, d) ==
  LET year == YearOf(d)
  IN  /\ DayNumber(d) = t.quo
      /\ 3600 * d.tm_hour + 60 * d.tm_min + d.tm_sec = t.rem
      /\ d.tm_yday = t.quo - NewYear(year)
      /\ t.quo >= 0 /\ t.rem >= 0 =>
           /\ d.tm_mon \in 0 .. 11 /\ d.tm_wday \in 0 .. 6
           /\ d.tm_mday \in 1 .. DaysBefore(year, d.tm_mon + 1) - DaysBefore(year, d.tm_mon)
           /\ d.tm_hour \in 0 .. 23 /\ d.tm_min \in 0 .. 59 /\ d.tm_sec \in 0 .. 59
           /\ (d.tm_wday - Saturday2000.wday) % 7 = (t.quo - Saturday2000.day) % 7

\* time_to_tm makes a struct that tells its time.
LEMMA TimeToTmIs ==
  ASSUME NEW t, IsTime(t)
  PROVE  IsTm(TimeToTm(t)) /\ TellsTime(t, TimeToTm(t))
<1> DEFINE y == CountYears(t.quo)
           m == CountMonths(y.year, y.left)
           d == TimeToTm(t)
           r == Rest(t.rem, 3600)
<1>1. /\ t.quo \in Int /\ t.rem \in Int /\ t.quo < NewYear(LastYear + 1)
      /\ t.rem < DaySeconds /\ DaySeconds = 24 * 3600
  BY DEF IsTime, DaySeconds
<1>2. YearAndDay(t.quo, y)
  BY <1>1, CountYearsIs
<1> HIDE DEF y
<1>3. /\ y.year \in Nat /\ y.left \in Int /\ y.left = t.quo - NewYear(y.year)
      /\ y.left < YearDays(y.year)
      /\ t.quo >= 0 => y.left >= 0
  BY <1>2, LibraryAssumption DEF YearAndDay, Epoch
<1>4. MonthAndDay(y.year, y.left, m)
  BY <1>3, CountMonthsIs
<1> HIDE DEF m
<1>5. /\ m.month \in 0 .. 12 /\ m.left \in Int /\ m.left = y.left - DaysBefore(y.year, m.month)
      /\ m.month = 12 \/ m.left < MonthDays(y.year)[m.month + 1]
      /\ y.left >= 0 => m.left >= 0
  BY <1>4 DEF MonthAndDay
<1>6. /\ d.tm_hour = Quot(t.rem, 3600) /\ d.tm_min = Quot(r, 60) /\ d.tm_sec = Rest(r, 60)
      /\ d.tm_wday = Rest(t.quo + 4, 7) /\ d.tm_year = y.year - 1900
      /\ d.tm_yday = y.left /\ d.tm_mon = m.month /\ d.tm_mday = m.left + 1
  BY DEF TimeToTm, y, m
<1>7. /\ d.tm_hour \in Int /\ r \in Int /\ 3600 * d.tm_hour + r = t.rem
      /\ t.rem >= 0 => d.tm_hour \in 0 .. 23 /\ r \in 0 .. 3599
  <2> DEFINE h == 3600
  <2>1. h \in Nat \ {0}
    OBVIOUS
  <2>2. h = 3600
    OBVIOUS
  <2>3. d.tm_hour = Quot(t.rem, h) /\ r = Rest(t.rem, h)
    BY <1>6
  <2> HIDE DEF h, r, d
  <2>4. /\ Quot(t.rem, h) \in Int /\ Rest(t.rem, h) \in Int
        /\ h * Quot(t.rem, h) + Rest(t.rem, h) = t.rem
        /\ t.rem >= 0 => /\ Rest(t.rem, h) \in 0 .. h - 1
                         /\ Quot(t.rem, h) \in Nat
    <3>1. t.rem \in Int
      BY <1>1
    <3> QED
      BY <2>1, <3>1, QuotIs, Zenon
  <2> QED
    <3> DEFINE q == Quot(t.rem, h)
    <3>1. 3600 * q + r = t.rem /\ q \in Int /\ r \in Int
      BY <2>3, <2>4, <2>2
    <3>2. t.rem >= 0 => r \in 0 .. 3599 /\ q \in Nat
      BY <2>3, <2>4, <2>2
    <3> HIDE DEF q
    <3>3. t.rem >= 0 => q \in 0 .. 23
      BY <1>1, <3>1, <3>2
    <3> QED
      BY <2>3, <3>1, <3>2, <3>3 DEF q
<1>8. /\ d.tm_min \in Int /\ d.tm_sec \in Int /\ 60 * d.tm_min + d.tm_sec = r
      /\ t.rem >= 0 => d.tm_min \in 0 .. 59 /\ d.tm_sec \in 0 .. 59
  <2> DEFINE s == 60
  <2>1. s \in Nat \ {0}
    OBVIOUS
  <2>2. s = 60
    OBVIOUS
  <2>3. d.tm_min = Quot(r, s) /\ d.tm_sec = Rest(r, s)
    BY <1>6
  <2> HIDE DEF s, r, d
  <2>4. /\ Quot(r, s) \in Int /\ Rest(r, s) \in Int
        /\ s * Quot(r, s) + Rest(r, s) = r
        /\ r >= 0 => /\ Rest(r, s) \in 0 .. s - 1 /\ Quot(r, s) \in Nat
    <3>1. r \in Int
      BY <1>7
    <3> QED
      BY <2>1, <3>1, QuotIs, Zenon
  <2> QED
    <3> DEFINE q == Quot(r, s)
               u == Rest(r, s)
    <3>1. 60 * q + u = r /\ q \in Int /\ u \in Int
      BY <2>4, <2>2
    <3>2. r >= 0 => u \in 0 .. 59 /\ q \in Nat
      BY <2>4, <2>2
    <3> HIDE DEF q, u
    <3>3. r \in 0 .. 3599 => q \in 0 .. 59
      BY <1>7, <3>1, <3>2
    <3> QED
      BY <1>7, <2>3, <3>1, <3>2, <3>3 DEF q, u
<1>9. d.tm_wday \in Int
  <2>1. t.quo + 4 \in Int /\ 7 \in Nat \ {0}
    BY <1>1
  <2>2. Rest(t.quo + 4, 7) \in Int
    BY <2>1, QuotIs
  <2> QED
    BY <1>6, <2>2
<1> HIDE DEF d, r
<1>10. IsTm(d)
  BY <1>3, <1>5, <1>6, <1>7, <1>8, <1>9 DEF IsTm
<1>11. d.tm_year + 1900 = y.year
  BY <1>3, <1>6
<1>12. NewYear(y.year) \in Int /\ YearDays(y.year) \in {365, 366}
  BY <1>3, YearIs
<1>13. /\ DaysBefore(y.year, 12) = YearDays(y.year)
       /\ \A k \in 0 .. 11 :
            /\ DaysBefore(y.year, k) \in Int /\ MonthDays(y.year)[k + 1] \in 28 .. 31
            /\ DaysBefore(y.year, k + 1) = DaysBefore(y.year, k) + MonthDays(y.year)[k + 1]
  <2>1. 0 \in 0 .. 11
    OBVIOUS
  <2> QED
    BY <1>3, <2>1, MonthIs
<1>14. DayNumber(d) = t.quo
  <2>1. DaysBefore(y.year, m.month) \in Int
    <3>1. m.month \in 0 .. 11 \/ m.month = 12
      BY <1>5
    <3> QED
      BY <1>12, <1>13, <3>1
  <2> QED
    BY <1>1, <1>3, <1>5, <1>6, <1>11, <1>12, <2>1 DEF DayNumber
<1>15. ASSUME t.quo >= 0
       PROVE  /\ d.tm_mon \in 0 .. 11
              /\ d.tm_mday \in
                   1 .. DaysBefore(y.year, d.tm_mon + 1) - DaysBefore(y.year, d.tm_mon)
  <2>1. m.month \in 0 .. 11
    BY <1>3, <1>5, <1>12, <1>13, <1>15
  <2> DEFINE b == DaysBefore(y.year, m.month)
             c == DaysBefore(y.year, m.month + 1)
             s == MonthDays(y.year)[m.month + 1]
  <2>2. b \in Int /\ s \in 28 .. 31 /\ c = b + s
    BY <1>13, <2>1
  <2>3. m.left \in 0 .. s - 1
    BY <1>3, <1>5, <1>15, <2>1, <2>2
  <2> HIDE DEF b, c, s
  <2>4. m.left + 1 \in 1 .. c - b
    BY <2>2, <2>3
  <2> QED
    BY <1>6, <2>1, <2>4 DEF b, c
<1>16. ASSUME t.quo >= 0
       PROVE  /\ d.tm_wday \in 0 .. 6
              /\ (d.tm_wday - Saturday2000.wday) % 7 = (t.quo - Saturday2000.day) % 7
  <2>1. t.quo \in Nat
    BY <1>1, <1>16
  <2>2. /\ Rest(t.quo + 4, 7) \in 0 .. 6
        /\ (Rest(t.quo + 4, 7) - Saturday2000.wday) % 7 = (t.quo - Saturday2000.day) % 7
    BY <2>1, WeekIs
  <2> QED
    BY <1>6, <2>2
<1>17. 3600 * d.tm_hour + 60 * d.tm_min + d.tm_sec = t.rem
  BY <1>1, <1>7, <1>8
<1>18. d.tm_yday = t.quo - NewYear(y.year)
  BY <1>3, <1>6
<1>19. TellsTime(t, d)
  <2> DEFINE year == YearOf(d)
             weekday == (d.tm_wday - Saturday2000.wday) % 7
             days == (t.quo - Saturday2000.day) % 7
  <2>1. year = y.year
    BY <1>11 DEF YearOf
  <2>2. t.quo >= 0 => weekday = days
    BY <1>16
  <2>3. TellsTime(t, d) <=>
          /\ DayNumber(d) = t.quo
          /\ 3600 * d.tm_hour + 60 * d.tm_min + d.tm_sec = t.rem
          /\ d.tm_yday = t.quo - NewYear(year)
          /\ t.quo >= 0 /\ t.rem >= 0 =>
               /\ d.tm_mon \in 0 .. 11 /\ d.tm_wday \in 0 .. 6
               /\ d.tm_mday \in 1 .. DaysBefore(year, d.tm_mon + 1) - DaysBefore(year, d.tm_mon)
               /\ d.tm_hour \in 0 .. 23 /\ d.tm_min \in 0 .. 59 /\ d.tm_sec \in 0 .. 59
               /\ weekday = days
    BY DEF TellsTime
  <2> HIDE DEF year, weekday, days
  <2> QED
    BY <1>7, <1>8, <1>14, <1>15, <1>16, <1>17, <1>18, <2>1, <2>2, <2>3
<1> QED
  BY <1>10, <1>19 DEF d

-----------------------------------------------------------------------------
(* Numbers by their figures, from the left.                                *)

\* f is the value of each prefix of the figures c[1], ..., c[l] to the base b.
Links(f, b, c, l) == f[0] = 0 /\ \A k \in 1 .. l : f[k] = b * f[k - 1] + c[k]
Chain(f, b, c, l) == f \in [0 .. l -> Int] /\ Links(f, b, c, l)

\* Figures have a value.
LEMMA ChainExists ==
  ASSUME NEW b \in Int, NEW l \in Nat, NEW c, \A k \in 1 .. l : c[k] \in Int
  PROVE  \E f : Chain(f, b, c, l)
<1> DEFINE Step(n, h) == IF n \in 1 .. l THEN b * h[n - 1] + c[n] ELSE 0
           G == [n \in Nat |-> [h \in [0 .. n - 1 -> Int] |-> Step(n, h)]]
<1>1. ASSUME NEW n \in Nat, NEW h \in [0 .. n - 1 -> Int] PROVE Step(n, h) \in Int
  <2>1. CASE n \in 1 .. l
    <3> DEFINE x == h[n - 1]
               y == c[n]
    <3>1. x \in Int /\ y \in Int
      BY <2>1
    <3>2. Step(n, h) = b * x + y
      BY <2>1
    <3> HIDE DEF x, y, Step
    <3> QED
      BY <3>1, <3>2
  <2> QED
    BY <2>1
<1>2. IsStep(G, Int)
  <2> SUFFICES ASSUME NEW n \in Nat PROVE G[n] \in [[0 .. n - 1 -> Int] -> Int]
    BY DEF IsStep
  <2>1. G[n] = [h \in [0 .. n - 1 -> Int] |-> Step(n, h)]
    OBVIOUS
  <2> HIDE DEF Step, G
  <2> QED
    BY <1>1, <2>1
<1>3. ASSUME NEW n \in Nat, NEW h \in [0 .. n - 1 -> Int] PROVE G[n][h] = Step(n, h)
  OBVIOUS
<1> HIDE DEF G
<1>4. PICK w : Made(w, G, Int)
  BY <1>2, Recursion
<1>5. ASSUME NEW n \in Nat PROVE w[n] \in Int /\ w[n] = Step(n, w)
  <2>1. Before(w, n) \in [0 .. n - 1 -> Int] /\ w[n] \in Int
    BY <1>4 DEF Before, Made
  <2>2. w[n] = Step(n, Before(w, n))
    BY <1>3, <1>4, <2>1 DEF Made
  <2>3. n \in 1 .. l => Before(w, n)[n - 1] = w[n - 1]
    BY DEF Before
  <2> QED
    BY <2>1, <2>2, <2>3
<1> DEFINE f == [k \in 0 .. l |-> w[k]]
<1>6. f \in [0 .. l -> Int]
  BY <1>5
<1>7. f[0] = 0
  BY <1>5
<1>8. ASSUME NEW k \in 1 .. l PROVE f[k] = b * f[k - 1] + c[k]
  <2>1. k \in Nat /\ k \in 0 .. l /\ k - 1 \in 0 .. l
    OBVIOUS
  <2> QED
    BY <1>5, <2>1
<1> HIDE DEF f
<1> QED
  BY <1>6, <1>7, <1>8 DEF Chain, Links

\* And they have one value.
LEMMA ChainOnly ==
  ASSUME NEW b \in Int, NEW l \in Nat, NEW c, NEW f, Chain(f, b, c, l), NEW h, Links(h, b, c, l)
  PROVE  \A k \in 0 .. l : h[k] = f[k]
<1> DEFINE T == {k \in 0 .. l : h[k] # f[k]}
<1>1. T \subseteq Nat /\ \A k : k \in T <=> k \in 0 .. l /\ h[k] # f[k]
  OBVIOUS
<1> HIDE DEF T
<1>2. ASSUME T # {} PROVE FALSE
  <2>1. PICK k \in T : \A y \in T : k <= y
    BY <1>1, <1>2, LeastIs
  <2>2. k \in 0 .. l /\ k \in Nat /\ h[k] # f[k]
    BY <1>1
  <2>3. k # 0
    BY <2>2 DEF Chain, Links
  <2>4. k \in 1 .. l /\ k - 1 \in 0 .. l /\ ~(k <= k - 1)
    BY <2>2, <2>3
  <2>5. h[k - 1] = f[k - 1]
    BY <1>1, <2>1, <2>4
  <2> QED
    BY <2>2, <2>4, <2>5 DEF Chain, Links
<1> QED
  BY <1>1, <1>2

\* Number is the value of the whole.
LEMMA NumberIs ==
  ASSUME NEW s, Len(s) \in Nat, \A k \in 1 .. Len(s) : s[k] \in Int
  PROVE  \E f : Chain(f, 10, s, Len(s)) /\ Number(s) = f[Len(s)]
<1> DEFINE l == Len(s)
<1>1. PICK w : Chain(w, 10, s, l)
  BY ChainExists
<1>2. w = [k \in 0 .. l |-> IF k = 0 THEN 0 ELSE 10 * w[k - 1] + s[k]]
  <2>1. w = [k \in 0 .. l |-> w[k]] /\ \A k \in 0 .. l : k # 0 => k \in 1 .. l
    BY <1>1 DEF Chain, Links
  <2>2. \A k \in 0 .. l : w[k] = IF k = 0 THEN 0 ELSE 10 * w[k - 1] + s[k]
    BY <1>1, <2>1 DEF Chain, Links
  <2> HIDE DEF l
  <2> QED
    BY <2>1, <2>2
<1> DEFINE f[k \in 0 .. Len(s)] == IF k = 0 THEN 0 ELSE 10 * f[k - 1] + s[k]
<1>3. f = [k \in 0 .. l |-> IF k = 0 THEN 0 ELSE 10 * f[k - 1] + s[k]]
  BY <1>2, Zenon
<1>4. Number(s) = f[l]
  BY Zenon DEF Number
<1> HIDE DEF f
<1>5. Links(f, 10, s, l)
  BY <1>3 DEF Links
<1>6. \A k \in 0 .. l : f[k] = w[k]
  <2> HIDE DEF l
  <2>1. l \in Nat /\ 10 \in Int
    BY DEF l
  <2> QED
    BY <1>1, <1>5, <2>1, ChainOnly
<1>7. Number(s) = w[l]
  BY <1>4, <1>6
<1> QED
  BY <1>1, <1>7

\* So two figures, and four, say what they should.
LEMMA NumberOfTwo ==
  ASSUME NEW x \in Int, NEW y \in Int
  PROVE  Number(<<x, y>>) = 10 * x + y
<1> DEFINE s == <<x, y>>
<1>1. Len(s) = 2 /\ s[1] = x /\ s[2] = y
  OBVIOUS
<1> HIDE DEF s
<1>2. PICK f : Chain(f, 10, s, Len(s)) /\ Number(s) = f[Len(s)]
  <2>1. Len(s) \in Nat /\ \A k \in 1 .. Len(s) : s[k] \in Int
    BY <1>1
  <2> QED
    BY <2>1, NumberIs, Zenon
<1>3. \A k \in 1 .. 2 : f[k] = 10 * f[k - 1] + s[k]
  BY <1>1, <1>2 DEF Chain, Links
<1>4. f[1] = 10 * f[1 - 1] + s[1] /\ f[2] = 10 * f[2 - 1] + s[2] /\ f[0] = 0
  BY <1>2, <1>3 DEF Chain, Links
<1> QED
  BY <1>1, <1>2, <1>4 DEF s

\* The same of four.
LEMMA NumberOfFour ==
  ASSUME NEW x \in Int, NEW y \in Int, NEW z \in Int, NEW u \in Int
  PROVE  Number(<<x, y, z, u>>) = 10 * (10 * (10 * x + y) + z) + u
<1> DEFINE s == <<x, y, z, u>>
<1>1. Len(s) = 4 /\ s[1] = x /\ s[2] = y /\ s[3] = z /\ s[4] = u
  OBVIOUS
<1> HIDE DEF s
<1>2. PICK f : Chain(f, 10, s, Len(s)) /\ Number(s) = f[Len(s)]
  <2>1. Len(s) \in Nat /\ \A k \in 1 .. Len(s) : s[k] \in Int
    BY <1>1
  <2> QED
    BY <2>1, NumberIs, Zenon
<1>3. \A k \in 1 .. 4 : f[k] = 10 * f[k - 1] + s[k]
  BY <1>1, <1>2 DEF Chain, Links
<1>4. /\ f[1] = 10 * f[1 - 1] + s[1] /\ f[2] = 10 * f[2 - 1] + s[2]
      /\ f[3] = 10 * f[3 - 1] + s[3] /\ f[4] = 10 * f[4 - 1] + s[4] /\ f[0] = 0
  BY <1>2, <1>3 DEF Chain, Links
<1> QED
  BY <1>1, <1>2, <1>4 DEF s

-----------------------------------------------------------------------------
(* The text of asctime.                                                    *)

\* Its 26 characters: names, figures and what is between them.
Laid(wday, mon, day, hour, min, sec, year, sign) ==
  <<wday, wday, wday>> \o <<sign[1]>> \o <<mon, mon, mon>> \o <<sign[2]>>
    \o <<day[1], day[2]>> \o <<sign[3]>>
    \o <<hour[1], hour[2]>> \o <<sign[4]>> \o <<min[1], min[2]>> \o <<sign[5]>>
    \o <<sec[1], sec[2]>> \o <<sign[6]>>
    \o <<year[1], year[2], year[3], year[4]>> \o <<sign[7], sign[8]>>

\* Each of them is in its place.
LEMMA LaidIs ==
  ASSUME NEW wday, NEW mon, NEW day, NEW hour, NEW min, NEW sec, NEW year, NEW sign
  PROVE  LET s == Laid(wday, mon, day, hour, min, sec, year, sign)
         IN  /\ Len(s) = 26 /\ s[26] = sign[8]
             /\ <<s[1], s[2], s[3]>> = <<wday, wday, wday>>
             /\ <<s[5], s[6], s[7]>> = <<mon, mon, mon>>
             /\ s[9] = day[1] /\ s[10] = day[2]
             /\ s[12] = hour[1] /\ s[13] = hour[2]
             /\ s[15] = min[1] /\ s[16] = min[2]
             /\ s[18] = sec[1] /\ s[19] = sec[2]
             /\ s[21] = year[1] /\ s[22] = year[2] /\ s[23] = year[3] /\ s[24] = year[4]
             /\ \E T : s \in Seq(T)
<1> DEFINE s == Laid(wday, mon, day, hour, min, sec, year, sign)
<1>1. Len(s) = 26 /\ s[26] = sign[8]
  BY DEF Laid
<1>2. s[9] = day[1] /\ s[10] = day[2]
  BY DEF Laid
<1>3. s[12] = hour[1] /\ s[13] = hour[2]
  BY DEF Laid
<1>4. s[15] = min[1] /\ s[16] = min[2] /\ s[18] = sec[1] /\ s[19] = sec[2]
  BY DEF Laid
<1>5. s[21] = year[1] /\ s[22] = year[2]
  BY DEF Laid
<1>6. s[23] = year[3] /\ s[24] = year[4]
  BY DEF Laid
<1>7. \E T : s \in Seq(T)
  <2> DEFINE T == {wday, mon, day[1], day[2], hour[1], hour[2], min[1], min[2], sec[1], sec[2],
                   year[1], year[2], year[3], year[4], sign[1], sign[2], sign[3], sign[4],
                   sign[5], sign[6], sign[7], sign[8]}
  <2>1. s \in Seq(T)
    BY DEF Laid
  <2> QED
    BY <2>1
<1>8. s[1] = wday /\ s[2] = wday /\ s[3] = wday
  BY DEF Laid
<1>9. s[5] = mon /\ s[6] = mon /\ s[7] = mon
  BY DEF Laid
<1> HIDE DEF s
<1> QED
  BY <1>1, <1>2, <1>3, <1>4, <1>5, <1>6, <1>7, <1>8, <1>9 DEF s

\* asctime lays out its characters so.
FirstOf(mday) == IF mday >= 10 THEN Quot(mday, 10) ELSE Sign(" ")
HasFigures(d, y, s) ==
  /\ Len(s) = 26 /\ s[26] = Sign("nul")
  /\ s[9] = FirstOf(d.tm_mday) /\ s[10] = Rest(d.tm_mday, 10)
  /\ s[12] = Quot(d.tm_hour, 10) /\ s[13] = Rest(d.tm_hour, 10)
  /\ s[15] = Quot(d.tm_min, 10) /\ s[16] = Rest(d.tm_min, 10)
  /\ s[18] = Quot(d.tm_sec, 10) /\ s[19] = Rest(d.tm_sec, 10)
  /\ s[21] = Quot(y, 1000) /\ s[22] = Rest(Quot(y, 100), 10)
  /\ s[23] = Rest(Quot(y, 10), 10) /\ s[24] = Rest(y, 10)
HasNames(d, s) ==
  /\ <<s[1], s[2], s[3]>> = WdayLetters(d.tm_wday)
  /\ <<s[5], s[6], s[7]>> = MonLetters(d.tm_mon)

\* The names and the figures are where TellsDate looks for them.
LEMMA AsctimeIs ==
  ASSUME NEW d
  PROVE  HasFigures(d, YearOf(d), Asctime(d)) /\ HasNames(d, Asctime(d))
<1> DEFINE w == WdayName[(d.tm_wday % 7) + 1]
           m == MonName[(d.tm_mon % 12) + 1]
           y == d.tm_year + 1900
           y1 == Quot(y, 1000)
           y2 == Rest(Quot(y, 100), 10)
           a == FirstOf(d.tm_mday)
           day == <<a, Rest(d.tm_mday, 10)>>
           hour == <<Quot(d.tm_hour, 10), Rest(d.tm_hour, 10)>>
           min == <<Quot(d.tm_min, 10), Rest(d.tm_min, 10)>>
           sec == <<Quot(d.tm_sec, 10), Rest(d.tm_sec, 10)>>
           year == <<y1, y2, Rest(Quot(y, 10), 10), Rest(y, 10)>>
           sign == <<Sign(" "), Sign(" "), Sign(" "), Sign(":"), Sign(":"), Sign(" "),
                     Sign("newline"), Sign("nul")>>
           s == Laid(w, m, day, hour, min, sec, year, sign)
<1>1. Asctime(d) = s
  <2>1. AsctimeDay(d.tm_mday) = <<day[1], day[2]>>
    BY DEF AsctimeDay, FirstOf
  <2>2. /\ Two(d.tm_hour) = <<hour[1], hour[2]>> /\ Two(d.tm_min) = <<min[1], min[2]>>
        /\ Two(d.tm_sec) = <<sec[1], sec[2]>>
    BY DEF Two
  <2>3. <<y1, y2, Rest(Quot(y, 10), 10), Rest(y, 10)>> = <<year[1], year[2], year[3], year[4]>>
    OBVIOUS
  <2>4. /\ sign[1] = Sign(" ") /\ sign[2] = Sign(" ") /\ sign[3] = Sign(" ")
        /\ sign[4] = Sign(":") /\ sign[5] = Sign(":") /\ sign[6] = Sign(" ")
        /\ sign[7] = Sign("newline") /\ sign[8] = Sign("nul")
    OBVIOUS
  <2>5. WdayLetters(d.tm_wday) = <<w, w, w>> /\ MonLetters(d.tm_mon) = <<m, m, m>>
    BY DEF WdayLetters, MonLetters, Letters
  <2>6. Asctime(d) =
          WdayLetters(d.tm_wday) \o <<Sign(" ")>> \o MonLetters(d.tm_mon) \o <<Sign(" ")>>
           \o AsctimeDay(d.tm_mday) \o <<Sign(" ")>>
           \o Two(d.tm_hour) \o <<Sign(":")>> \o Two(d.tm_min) \o <<Sign(":")>>
           \o Two(d.tm_sec) \o <<Sign(" ")>>
           \o <<y1, y2, Rest(Quot(y, 10), 10), Rest(y, 10)>>
           \o <<Sign("newline"), Sign("nul")>>
    BY DEF Asctime
  <2> HIDE DEF w, m, y1, y2, y, day, hour, min, sec, year, sign
  <2> QED
    BY <2>1, <2>2, <2>3, <2>4, <2>5, <2>6, Zenon DEF Laid
<1> HIDE DEF w, m, y, y1, y2, a
<1>2. /\ Len(s) = 26 /\ s[26] = sign[8]
      /\ <<s[1], s[2], s[3]>> = <<w, w, w>> /\ <<s[5], s[6], s[7]>> = <<m, m, m>>
      /\ s[9] = day[1] /\ s[10] = day[2]
      /\ s[12] = hour[1] /\ s[13] = hour[2]
      /\ s[15] = min[1] /\ s[16] = min[2]
      /\ s[18] = sec[1] /\ s[19] = sec[2]
      /\ s[21] = year[1] /\ s[22] = year[2] /\ s[23] = year[3] /\ s[24] = year[4]
  <2> HIDE DEF day, hour, min, sec, year, sign
  <2> QED
    BY LaidIs
<1> DEFINE c == Asctime(d)
<1>3. /\ Len(c) = 26 /\ c[26] = Sign("nul")
      /\ c[9] = a /\ c[10] = Rest(d.tm_mday, 10)
  <2> HIDE DEF s, c
  <2> QED
    BY <1>1, <1>2 DEF c
<1>4. /\ c[12] = Quot(d.tm_hour, 10) /\ c[13] = Rest(d.tm_hour, 10)
      /\ c[15] = Quot(d.tm_min, 10) /\ c[16] = Rest(d.tm_min, 10)
      /\ c[18] = Quot(d.tm_sec, 10) /\ c[19] = Rest(d.tm_sec, 10)
  <2> HIDE DEF s, c
  <2> QED
    BY <1>1, <1>2 DEF c
<1>5. /\ c[21] = y1 /\ c[22] = y2
      /\ c[23] = Rest(Quot(y, 10), 10) /\ c[24] = Rest(y, 10)
  <2> HIDE DEF s, c
  <2> QED
    BY <1>1, <1>2 DEF c
<1>6. <<c[1], c[2], c[3]>> = <<w, w, w>> /\ <<c[5], c[6], c[7]>> = <<m, m, m>>
  <2> HIDE DEF s, c
  <2> QED
    BY <1>1, <1>2 DEF c
<1> HIDE DEF s
<1> HIDE DEF c
<1>7. HasNames(d, c)
  <2>1. WdayLetters(d.tm_wday) = <<w, w, w>> /\ MonLetters(d.tm_mon) = <<m, m, m>>
    BY DEF WdayLetters, MonLetters, Letters, w, m
  <2> QED
    BY <1>6, <2>1, Zenon DEF HasNames
<1>8. a = FirstOf(d.tm_mday) /\ y1 = Quot(y, 1000) /\ y2 = Rest(Quot(y, 100), 10)
  BY DEF a, y1, y2
<1>9. HasFigures(d, y, c)
  BY <1>3, <1>4, <1>5, <1>8 DEF HasFigures
<1> QED
  BY <1>9, <1>7 DEF c, y, YearOf

\* Two figures next to each other.
LEMMA ReadTwo ==
  ASSUME NEW s, NEW k \in Nat, s[k] \in Int, s[k + 1] \in Int
  PROVE  Read(s, k, k + 1) = 10 * s[k] + s[k + 1]
<1> DEFINE t == SubSeq(s, k, k + 1)
<1>1. t = <<s[k], s[k + 1]>>
  <2>1. k \in Int /\ k + 1 \in Int /\ (k + 1) - k + 1 = 2 /\ k <= k + 1
    OBVIOUS
  <2>2. \A i \in k .. k + 1 : s[i] \in Int
    <3>1. \A i \in k .. k + 1 : i = k \/ i = k + 1
      OBVIOUS
    <3> QED
      BY <3>1
  <2> HIDE DEF t
  <2>3. /\ t \in Seq(Int) /\ Len(t) = (IF k <= k + 1 THEN (k + 1) - k + 1 ELSE 0)
        /\ \A i \in 1 .. (k + 1) - k + 1 : t[i] = s[k + i - 1]
    BY <2>1, <2>2, SubSeqProperties DEF t
  <2>4. Len(t) = 2 /\ t[1] = s[k + 1 - 1] /\ t[2] = s[k + 2 - 1]
    BY <2>1, <2>3
  <2>5. t[1] = s[k] /\ t[2] = s[k + 1]
    <3>1. k + 1 - 1 = k /\ k + 2 - 1 = k + 1
      OBVIOUS
    <3> QED
      BY <2>4, <3>1
  <2> QED
    BY <2>3, <2>4, <2>5
<1> QED
  BY <1>1, NumberOfTwo, Zenon DEF Read

\* Four of them.
LEMMA ReadFour ==
  ASSUME NEW s, NEW k \in Nat, s[k] \in Int, s[k + 1] \in Int, s[k + 2] \in Int, s[k + 3] \in Int
  PROVE  Read(s, k, k + 3) = 10 * (10 * (10 * s[k] + s[k + 1]) + s[k + 2]) + s[k + 3]
<1> DEFINE t == SubSeq(s, k, k + 3)
<1>1. t = <<s[k], s[k + 1], s[k + 2], s[k + 3]>>
  <2>1. k \in Int /\ k + 3 \in Int /\ (k + 3) - k + 1 = 4 /\ k <= k + 3
    OBVIOUS
  <2>2. \A i \in k .. k + 3 : s[i] \in Int
    <3>1. \A i \in k .. k + 3 : i = k \/ i = k + 1 \/ i = k + 2 \/ i = k + 3
      OBVIOUS
    <3> QED
      BY <3>1
  <2> HIDE DEF t
  <2>3. /\ t \in Seq(Int) /\ Len(t) = (IF k <= k + 3 THEN (k + 3) - k + 1 ELSE 0)
        /\ \A i \in 1 .. (k + 3) - k + 1 : t[i] = s[k + i - 1]
    BY <2>1, <2>2, SubSeqProperties DEF t
  <2>4. /\ Len(t) = 4 /\ t[1] = s[k + 1 - 1] /\ t[2] = s[k + 2 - 1]
        /\ t[3] = s[k + 3 - 1] /\ t[4] = s[k + 4 - 1]
    BY <2>1, <2>3
  <2>5. t[1] = s[k] /\ t[2] = s[k + 1] /\ t[3] = s[k + 2] /\ t[4] = s[k + 3]
    <3>1. k + 1 - 1 = k /\ k + 2 - 1 = k + 1 /\ k + 3 - 1 = k + 2 /\ k + 4 - 1 = k + 3
      OBVIOUS
    <3> QED
      BY <2>4, <3>1
  <2> QED
    BY <2>3, <2>4, <2>5
<1>2. Read(s, k, k + 3) = Number(t)
  BY DEF Read
<1> HIDE DEF t
<1> DEFINE x == s[k]
           y == s[k + 1]
           z == s[k + 2]
           u == s[k + 3]
<1>3. Number(<<x, y, z, u>>) = 10 * (10 * (10 * x + y) + z) + u
  <2>1. x \in Int /\ y \in Int /\ z \in Int /\ u \in Int
    OBVIOUS
  <2> HIDE DEF x, y, z, u
  <2> QED
    BY <2>1, NumberOfFour
<1> QED
  BY <1>1, <1>2, <1>3

\* A number below 100 has two figures.
LEMMA TwoFigures ==
  ASSUME NEW n \in 0 .. 99
  PROVE  /\ Quot(n, 10) \in 0 .. 9 /\ Rest(n, 10) \in 0 .. 9
         /\ 10 * Quot(n, 10) + Rest(n, 10) = n
<1>1. Quot(n, 10) = n \div 10 /\ Rest(n, 10) = n % 10
  <2>1. n \in Int /\ n >= 0 /\ 10 \in Nat \ {0}
    OBVIOUS
  <2> QED
    BY <2>1, QuotIs
<1> QED
  BY <1>1

\* A year below 10000 has four, the first that of the thousands.
FourDigits(n) == n \in 0 .. 9999
Spelt(n) ==
  /\ Quot(n, 1000) \in 0 .. 9 /\ Rest(Quot(n, 100), 10) \in 0 .. 9
  /\ Rest(Quot(n, 10), 10) \in 0 .. 9 /\ Rest(n, 10) \in 0 .. 9
  /\ 10 * (10 * (10 * Quot(n, 1000) + Rest(Quot(n, 100), 10)) + Rest(Quot(n, 10), 10))
       + Rest(n, 10) = n

\* Four figures spell every year up to 9999.
LEMMA FourFigures ==
  ASSUME NEW x, FourDigits(x)
  PROVE  Spelt(x)
<1> DEFINE most == 9999
<1>1. ASSUME NEW n \in Nat, n <= most PROVE Spelt(n)
  <2> DEFINE a == n \div 10
             b == n \div 100
             c == n \div 1000
  <2>1. Quot(n, 1000) = c /\ Quot(n, 100) = b /\ Quot(n, 10) = a
    BY <1>1 DEF Quot
  <2>2. b = a \div 10 /\ c = b \div 10
    <3>1. b = a \div 10
      BY <1>1
    <3>2. c = b \div 10
      BY <1>1
    <3> QED
      BY <3>1, <3>2
  <2>3. a \in 0 .. 999 /\ b \in 0 .. 99 /\ c \in 0 .. 9
    <3>1. a \in 0 .. 999
      BY <1>1
    <3> HIDE DEF a, b, c
    <3>2. b \in 0 .. 99
      BY <2>2, <3>1
    <3>3. c \in 0 .. 9
      BY <2>2, <3>2
    <3> QED
      BY <3>1, <3>2, <3>3
  <2>4. Rest(n, 10) = n - 10 * a
    BY <1>1, <2>1 DEF Rest
  <2> HIDE DEF a, b, c
  <2>5. Rest(a, 10) = a - 10 * b
    BY <1>1, <2>3, <2>2 DEF Rest, Quot
  <2>6. Rest(b, 10) = b - 10 * c
    BY <1>1, <2>3, <2>2 DEF Rest, Quot
  <2>7. n - 10 * a \in 0 .. 9 /\ a - 10 * b \in 0 .. 9 /\ b - 10 * c \in 0 .. 9
    BY <1>1, <2>3, <2>2 DEF a
  <2> QED
    BY <2>1, <2>3, <2>4, <2>5, <2>6, <2>7 DEF Spelt
<1>2. x \in Nat /\ x <= most
  BY DEF FourDigits
<1> HIDE DEF most
<1> QED
  BY <1>1, <1>2

\* The table of asctime has at each weekday its name.
LEMMA WdaySpelt ==
  ASSUME NEW n \in 0 .. 6
  PROVE  StandsFor(WeekdayOf, n, WdayLetters(n))
<1>1. ASSUME NEW name, name \in DOMAIN WeekdayOf, WeekdayOf[name] = n,
             WdayName[n + 1] = name
      PROVE  StandsFor(WeekdayOf, n, WdayLetters(n))
  <2>1. n % 7 = n
    OBVIOUS
  <2>2. WdayLetters(n) = <<name, name, name>>
    BY <1>1, <2>1 DEF WdayLetters, Letters
  <2>3. \A k \in 1 .. 3 : <<name, name, name>>[k] = name
    OBVIOUS
  <2> QED
    BY <1>1, <2>2, <2>3, Zenon DEF StandsFor
<1>2. \E name \in DOMAIN WeekdayOf : WeekdayOf[name] = n /\ WdayName[n + 1] = name
  <2>1. n = 0 \/ n = 1 \/ n = 2 \/ n = 3 \/ n = 4 \/ n = 5 \/ n = 6
    OBVIOUS
  <2> QED
    BY <2>1 DEF WeekdayOf, WdayName
<1> QED
  BY <1>1, <1>2

\* And at each month its own.
LEMMA MonSpelt ==
  ASSUME NEW n \in 0 .. 11
  PROVE  StandsFor(MonthOf, n, MonLetters(n))
<1>1. ASSUME NEW name, name \in DOMAIN MonthOf, MonthOf[name] = n, MonName[n + 1] = name
      PROVE  StandsFor(MonthOf, n, MonLetters(n))
  <2>1. n % 12 = n
    OBVIOUS
  <2>2. MonLetters(n) = <<name, name, name>>
    BY <1>1, <2>1 DEF MonLetters, Letters
  <2>3. \A k \in 1 .. 3 : <<name, name, name>>[k] = name
    OBVIOUS
  <2> QED
    BY <1>1, <2>2, <2>3, Zenon DEF StandsFor
<1>2. \E name \in DOMAIN MonthOf : MonthOf[name] = n /\ MonName[n + 1] = name
  <2>1. \/ n = 0 \/ n = 1 \/ n = 2 \/ n = 3 \/ n = 4 \/ n = 5
        \/ n = 6 \/ n = 7 \/ n = 8 \/ n = 9 \/ n = 10 \/ n = 11
    OBVIOUS
  <2> QED
    BY <2>1 DEF MonthOf, MonName
<1> QED
  BY <1>1, <1>2

\* What asctime wrote tells the date.
LEMMA DateIs ==
  ASSUME NEW d, NEW y, NEW s, IsDate(d, y), HasFigures(d, y, s), HasNames(d, s)
  PROVE  TellsDate(d, y, s)
<1>1. y \in 0 .. 9999 /\ HasFigures(d, y, s)
  BY DEF IsDate
<1>2. s[21] \in 0 .. 9 /\ s[22] \in 0 .. 9 /\ s[23] \in 0 .. 9 /\ s[24] \in 0 .. 9
      /\ 10 * (10 * (10 * s[21] + s[22]) + s[23]) + s[24] = y
  <2>1. /\ s[21] = Quot(y, 1000) /\ s[22] = Rest(Quot(y, 100), 10)
        /\ s[23] = Rest(Quot(y, 10), 10) /\ s[24] = Rest(y, 10)
    BY <1>1 DEF HasFigures
  <2>2. /\ Quot(y, 1000) \in 0 .. 9 /\ Rest(Quot(y, 100), 10) \in 0 .. 9
        /\ Rest(Quot(y, 10), 10) \in 0 .. 9 /\ Rest(y, 10) \in 0 .. 9
        /\ 10 * (10 * (10 * Quot(y, 1000) + Rest(Quot(y, 100), 10)) + Rest(Quot(y, 10), 10))
             + Rest(y, 10) = y
    <3>1. FourDigits(y)
      BY <1>1 DEF FourDigits
    <3>2. Spelt(y)
      BY <3>1, FourFigures, Zenon
    <3> QED
      BY <3>2 DEF Spelt
  <2> QED
    BY <2>1, <2>2
<1>3. Read(s, 21, 24) = y
  <2>1. /\ s[21] \in Int /\ s[21 + 1] \in Int /\ s[21 + 2] \in Int /\ s[21 + 3] \in Int
        /\ 21 \in Nat
    BY <1>2
  <2>2. Read(s, 21, 21 + 3) = 10 * (10 * (10 * s[21] + s[21 + 1]) + s[21 + 2]) + s[21 + 3]
    BY <2>1, ReadFour
  <2> QED
    BY <1>2, <2>2
<1>4. ASSUME NEW k \in Nat, NEW j \in Nat, j = k + 1, NEW n \in 0 .. 99,
             s[k] = Quot(n, 10), s[j] = Rest(n, 10)
      PROVE  s[k] \in 0 .. 9 /\ s[j] \in 0 .. 9 /\ Read(s, k, j) = n
  <2>1. /\ s[k] \in 0 .. 9 /\ s[k + 1] \in 0 .. 9
        /\ 10 * s[k] + s[k + 1] = n
    BY <1>4, TwoFigures
  <2>2. Read(s, k, k + 1) = 10 * s[k] + s[k + 1]
    BY <2>1, ReadTwo
  <2> QED
    BY <1>4, <2>1, <2>2
<1>5. /\ d.tm_hour \in 0 .. 99 /\ d.tm_min \in 0 .. 99 /\ d.tm_sec \in 0 .. 99
      /\ d.tm_mday \in 1 .. 31
  BY DEF IsDate
<1>6. s[12] \in 0 .. 9 /\ s[13] \in 0 .. 9 /\ Read(s, 12, 13) = d.tm_hour
  <2> DEFINE n == d.tm_hour
  <2>1. /\ s[12] = Quot(n, 10) /\ s[13] = Rest(n, 10) /\ n \in 0 .. 99
        /\ 12 \in Nat /\ 13 \in Nat /\ 13 = 12 + 1
    BY <1>1, <1>5 DEF HasFigures
  <2>2. s[12] \in 0 .. 9 /\ s[13] \in 0 .. 9 /\ Read(s, 12, 13) = n
    <3> HIDE DEF n
    <3> QED
      BY <1>4, <2>1
  <2> QED
    BY <2>2
<1>7. s[15] \in 0 .. 9 /\ s[16] \in 0 .. 9 /\ Read(s, 15, 16) = d.tm_min
  <2> DEFINE n == d.tm_min
  <2>1. /\ s[15] = Quot(n, 10) /\ s[16] = Rest(n, 10) /\ n \in 0 .. 99
        /\ 15 \in Nat /\ 16 \in Nat /\ 16 = 15 + 1
    BY <1>1, <1>5 DEF HasFigures
  <2>2. s[15] \in 0 .. 9 /\ s[16] \in 0 .. 9 /\ Read(s, 15, 16) = n
    <3> HIDE DEF n
    <3> QED
      BY <1>4, <2>1
  <2> QED
    BY <2>2
<1>8. s[18] \in 0 .. 9 /\ s[19] \in 0 .. 9 /\ Read(s, 18, 19) = d.tm_sec
  <2> DEFINE n == d.tm_sec
  <2>1. /\ s[18] = Quot(n, 10) /\ s[19] = Rest(n, 10) /\ n \in 0 .. 99
        /\ 18 \in Nat /\ 19 \in Nat /\ 19 = 18 + 1
    BY <1>1, <1>5 DEF HasFigures
  <2>2. s[18] \in 0 .. 9 /\ s[19] \in 0 .. 9 /\ Read(s, 18, 19) = n
    <3> HIDE DEF n
    <3> QED
      BY <1>4, <2>1
  <2> QED
    BY <2>2
<1>9. /\ s[10] \in 0 .. 9
      /\ d.tm_mday = IF s[9] = Sign(" ") THEN s[10] ELSE Read(s, 9, 10)
      /\ d.tm_mday >= 10 => s[9] \in 1 .. 3
  <2> DEFINE n == d.tm_mday
  <2>1. /\ s[9] = FirstOf(n) /\ s[10] = Rest(n, 10) /\ n \in 0 .. 99 /\ n \in 1 .. 31
        /\ 9 \in Nat /\ 10 \in Nat /\ 10 = 9 + 1
    BY <1>1, <1>5 DEF HasFigures
  <2> SUFFICES /\ s[10] \in 0 .. 9
               /\ n = IF s[9] = Sign(" ") THEN s[10] ELSE Read(s, 9, 10)
               /\ n >= 10 => s[9] \in 1 .. 3
    OBVIOUS
  <2> HIDE DEF n
  <2>2. Sign(" ") \in Int /\ Sign(" ") < 0
    BY DEF Sign
  <2>3. /\ Quot(n, 10) \in 0 .. 9 /\ Rest(n, 10) \in 0 .. 9
        /\ 10 * Quot(n, 10) + Rest(n, 10) = n
    BY <2>1, TwoFigures
  <2>4. CASE n >= 10
    <3>1. s[9] = Quot(n, 10)
      BY <2>1, <2>4 DEF FirstOf
    <3>2. Read(s, 9, 10) = n
      BY <1>4, <2>1, <3>1
    <3> DEFINE q == Quot(n, 10)
               r == Rest(n, 10)
    <3>3. q \in 0 .. 9 /\ r \in 0 .. 9 /\ 10 * q + r = n /\ n \in 1 .. 31 /\ n >= 10
      BY <2>1, <2>3, <2>4
    <3>4. s[9] = q /\ s[10] = r
      BY <2>1, <3>1
    <3> HIDE DEF q, r
    <3>5. q \in 1 .. 3
      BY <3>3
    <3>6. s[9] # Sign(" ")
      <4> DEFINE g == Sign(" ")
      <4>1. g < 0 /\ g \in Int
        BY <2>2
      <4> SUFFICES q # g
        BY <3>4
      <4> HIDE DEF g
      <4> QED
        BY <3>5, <4>1
    <3> QED
      BY <3>2, <3>3, <3>4, <3>5, <3>6
  <2>5. CASE ~(n >= 10)
    <3>1. s[9] = Sign(" ")
      BY <2>1, <2>5 DEF FirstOf
    <3> DEFINE q == Quot(n, 10)
               r == Rest(n, 10)
    <3>2. q \in 0 .. 9 /\ r \in 0 .. 9 /\ 10 * q + r = n /\ n \in 1 .. 31
      BY <2>1, <2>3
    <3>3. s[10] = r
      BY <2>1
    <3> HIDE DEF q, r
    <3>4. r = n
      BY <2>5, <3>2
    <3> QED
      BY <2>5, <3>1, <3>2, <3>3, <3>4
  <2> QED
    BY <2>4, <2>5
<1>10. \A k \in {10, 12, 13, 15, 16, 18, 19, 21, 22, 23, 24} : s[k] \in 0 .. 9
  BY <1>2, <1>6, <1>7, <1>8, <1>9
<1>11. StandsFor(WeekdayOf, d.tm_wday, <<s[1], s[2], s[3]>>)
  <2>1. d.tm_wday \in 0 .. 6 /\ <<s[1], s[2], s[3]>> = WdayLetters(d.tm_wday)
    BY DEF IsDate, HasNames
  <2> QED
    BY <2>1, WdaySpelt, Zenon
<1>12. StandsFor(MonthOf, d.tm_mon, <<s[5], s[6], s[7]>>)
  <2>1. d.tm_mon \in 0 .. 11 /\ <<s[5], s[6], s[7]>> = MonLetters(d.tm_mon)
    BY DEF IsDate, HasNames
  <2> QED
    BY <2>1, MonSpelt, Zenon
<1> QED
  BY <1>3, <1>6, <1>7, <1>8, <1>9, <1>10, <1>11, <1>12 DEF TellsDate

-----------------------------------------------------------------------------
(* The static buffers of time.c.                                           *)

\* _tm_buf holds what time_to_tm made of the time asked for last.
TimeInv ==
  /\ IsTm(tm)
  /\ asked # <<>> => IsTime(asked[1]) /\ tm = TimeToTm(asked[1])

\* buf holds what asctime wrote of the struct shown last.
TextInv == shown # <<>> => IsTm(shown[1]) /\ text = Asctime(shown[1])

\* The program asks for times as they are.
LEMMA TimesAre == \A t \in Time : IsTime(t)
<1>1. \A t \in Times \cup Again : IsTime(t)
  BY LibraryAssumption, Zenon
<1> QED
  BY <1>1 DEF Time

\* At first nothing was asked or shown.
LEMMA TimeBegins == Init => TimeInv /\ TextInv
BY DEF Init, TimeInv, TextInv, IsTm

\* Each call of time.c leaves in the buffers what it made, the others leave them.
LEMMA TimeStays == TimeInv /\ TextInv /\ [Next]_vars => TimeInv' /\ TextInv'
<1> SUFFICES ASSUME TimeInv, TextInv, [Next]_vars PROVE TimeInv' /\ TextInv'
  OBVIOUS
<1>1. CASE Localtime
  <2>1. PICK t \in Time : tm' = TimeToTm(t) /\ asked' = <<t>>
    BY <1>1, Zenon DEF Localtime
  <2>2. IsTime(t) /\ UNCHANGED <<text, shown>>
    BY <1>1, <2>1, TimesAre, Zenon DEF Localtime
  <2>3. IsTm(TimeToTm(t)) /\ asked'[1] = t
    BY <2>1, <2>2, TimeToTmIs
  <2> QED
    BY <2>1, <2>2, <2>3 DEF TimeInv, TextInv
<1>2. CASE AsctimeCall
  <2>1. PICK d \in {tm} \cup (IF part = "time" THEN OwnTms ELSE {}) :
          text' = Asctime(d) /\ shown' = <<d>>
    BY <1>2, Zenon DEF AsctimeCall
  <2>2. IsTm(d)
    <3>1. \A o \in OwnTms : IsTm(o)
      BY LibraryAssumption, Zenon
    <3> QED
      BY <2>1, <3>1 DEF TimeInv
  <2>3. shown'[1] = d /\ UNCHANGED <<tm, asked>>
    BY <1>2, <2>1 DEF AsctimeCall
  <2> QED
    BY <2>1, <2>2, <2>3 DEF TimeInv, TextInv
<1>3. CASE Ctime
  <2>1. PICK t \in Time : /\ tm' = TimeToTm(t) /\ asked' = <<t>>
                          /\ shown' = <<TimeToTm(t)>> /\ text' = Asctime(TimeToTm(t))
    BY <1>3, Zenon DEF Ctime
  <2>2. IsTime(t)
    BY <2>1, TimesAre, Zenon
  <2>3. IsTm(TimeToTm(t)) /\ asked'[1] = t /\ shown'[1] = TimeToTm(t)
    BY <2>1, <2>2, TimeToTmIs
  <2> QED
    BY <2>1, <2>2, <2>3 DEF TimeInv, TextInv
<1>4. CASE UNCHANGED <<tm, text, asked, shown>>
  BY <1>4 DEF TimeInv, TextInv
<1>5. Next \/ UNCHANGED vars
        => Localtime \/ AsctimeCall \/ Ctime \/ UNCHANGED <<tm, text, asked, shown>>
  BY DEF Next, Sleep, Printf, Join, Mode, SystemCall, StartUp, GetenvCall, Called, vars
<1> QED
  BY <1>1, <1>2, <1>3, <1>4, <1>5

\* So it is always.
LEMMA TimeInvariance == Spec => [](TimeInv /\ TextInv)
BY TimeBegins, TimeStays, PTL DEF Spec

\* FieldsTellTime: the struct that localtime, gmtime and ctime share names the
\* second asked for last, by the calendar in its closed form, for every time of
\* every year up to the bound, those before 1970 included (time.c:22-85).
THEOREM FieldsTellTimeHolds == Spec => []FieldsTellTime
<1>1. TimeInv => FieldsTellTime
  <2> SUFFICES ASSUME TimeInv, asked # <<>> PROVE TellsTime(asked[1], tm)
    BY Zenon DEF FieldsTellTime, TellsTime
  <2>1. IsTime(asked[1]) /\ tm = TimeToTm(asked[1])
    BY DEF TimeInv
  <2> QED
    BY <2>1, TimeToTmIs, Zenon
<1> QED
  BY <1>1, TimeInvariance, PTL

\* TextTellsDate: asctime fills its 26 bytes, and the weekday, month, day, time
\* and year can be read back from them, the names by what they stand for, for
\* every struct that holds a date, localtime's or the program's own
\* (time.c:87-138).
THEOREM TextTellsDateHolds == Spec => []TextTellsDate
<1>1. ASSUME NEW d, NEW y, NEW s, HasFigures(d, y, s), HasNames(d, s)
      PROVE  Len(s) = 26 /\ s[26] = Sign("nul") /\ (IsDate(d, y) => TellsDate(d, y, s))
  <2>1. Len(s) = 26 /\ s[26] = Sign("nul")
    BY <1>1 DEF HasFigures
  <2> QED
    BY <1>1, <2>1, DateIs
<1>2. TextInv => TextTellsDate
  <2> SUFFICES ASSUME TextInv, shown # <<>> PROVE TextTellsDate
    BY DEF TextTellsDate
  <2> DEFINE d == shown[1]
             y == YearOf(d)
  <2>1. HasFigures(d, y, text) /\ HasNames(d, text)
    BY AsctimeIs DEF TextInv
  <2>2. /\ Len(text) = 26 /\ text[26] = Sign("nul")
        /\ IsDate(d, y) => TellsDate(d, y, text)
    <3> HIDE DEF d, y
    <3> QED
      BY <1>1, <2>1
  <2> QED
    BY <2>2 DEF TextTellsDate
<1> QED
  BY <1>2, TimeInvariance, PTL

-----------------------------------------------------------------------------
(* The other calls: what they were asked, and that they did as they do.    *)

\* The vectors are of strings, the stack has them, and crt0 read it.
StartInv ==
  /\ given.argv \in Seq(DOMAIN Strings) /\ given.envp \in Seq(DOMAIN Strings)
  /\ stack = StackOf(given.argv, given.envp)
  /\ entry # NotStarted => entry = Start(stack, 1)

\* The last call had arguments that it may have, and came to its result.
LastInv ==
  /\ last.fn = "usleep" => last.usec \in Nat /\ last.req = Usleep(last.usec)
  /\ last.fn = "printf" => /\ last.v \in Longs /\ last.width \in Nat /\ last.zero \in BOOLEAN
                           /\ last.field = EmitInt(last.v, last.width, last.zero)
                           /\ last.digits = IntToWrite(last.v)
  /\ last.fn = "ax_join_path" => /\ last.dir \in Dirs /\ last.name \in Files /\ last.cap \in Caps
                                 /\ last.out = JoinPath(last.dir, last.name, last.cap)
  /\ last.fn = "ax_mode_str" => last.m \subseteq Bits /\ last.out = ModeStr(last.m)
  /\ last.fn = "syscall" => /\ last.call \in DOMAIN ReturnType /\ last.raw \in Answers(last.call)
                            /\ last.result = Wrapper(last.call, last.raw)
                            /\ errno = SyscallErrno(last.raw, last.was)
  /\ last.fn = "getenv" => /\ entry # NotStarted /\ last.name \in Names
                           /\ last.at = Getenv(stack, Strings, entry.environ, last.name)

\* At first there was no call.
LEMMA CallsBegin == Init => StartInv /\ LastInv
<1> SUFFICES ASSUME Init PROVE StartInv /\ LastInv
  OBVIOUS
<1>1. given.argv \in Seq(DOMAIN Strings) /\ given.envp \in Seq(DOMAIN Strings)
  <2>1. CASE part = "start"
    <3>1. given \in [argv : Argvs, envp : Envps]
      BY <2>1, Zenon DEF Init
    <3>2. Argvs \subseteq Seq(DOMAIN Strings) /\ Envps \subseteq Seq(DOMAIN Strings)
      BY LibraryAssumption, Zenon
    <3> QED
      BY <3>1, <3>2
  <2>2. CASE part # "start"
    <3>1. given = [argv |-> <<>>, envp |-> <<>>]
      BY <2>2, Zenon DEF Init
    <3> QED
      BY <3>1
  <2> QED
    BY <2>1, <2>2
<1>2. stack = StackOf(given.argv, given.envp) /\ entry = NotStarted /\ last.fn = "none"
  BY DEF Init, NoCall
<1> QED
  BY <1>1, <1>2 DEF StartInv, LastInv

\* Each call comes to what its function makes of its arguments.
LEMMA CallsStay == StartInv /\ LastInv /\ [Next]_vars => StartInv' /\ LastInv'
<1> SUFFICES ASSUME StartInv, LastInv, [Next]_vars PROVE StartInv' /\ LastInv'
  OBVIOUS
<1>1. CASE Sleep
  <2>1. PICK u \in Microseconds : last' = [fn |-> "usleep", usec |-> u, req |-> Usleep(u)]
    BY <1>1, Zenon DEF Sleep, Called
  <2>2. u \in Nat
    BY LibraryAssumption
  <2>3. UNCHANGED <<given, stack, entry>>
    BY <1>1 DEF Sleep, Called
  <2> QED
    BY <2>1, <2>2, <2>3 DEF StartInv, LastInv
<1>2. CASE Printf
  <2>1. PICK v \in Values, w \in Widths, z \in BOOLEAN :
          last' = [fn |-> "printf", v |-> v, width |-> w, zero |-> z,
                   field |-> EmitInt(v, w, z), digits |-> IntToWrite(v)]
    BY <1>2, Zenon DEF Printf, Called
  <2>2. v \in Longs /\ w \in Nat
    BY LibraryAssumption
  <2>3. UNCHANGED <<given, stack, entry>>
    BY <1>2 DEF Printf, Called
  <2> QED
    BY <2>1, <2>2, <2>3 DEF StartInv, LastInv
<1>3. CASE Join
  <2>1. PICK d \in Dirs, n \in Files, c \in Caps :
          last' = [fn |-> "ax_join_path", dir |-> d, name |-> n, cap |-> c,
                   out |-> JoinPath(d, n, c)]
    BY <1>3, Zenon DEF Join, Called
  <2>2. UNCHANGED <<given, stack, entry>>
    BY <1>3 DEF Join, Called
  <2> QED
    BY <2>1, <2>2 DEF StartInv, LastInv
<1>4. CASE Mode
  <2>1. PICK m \in Modes : last' = [fn |-> "ax_mode_str", m |-> m, out |-> ModeStr(m)]
    BY <1>4, Zenon DEF Mode, Called
  <2>2. m \subseteq Bits
    BY LibraryAssumption
  <2>3. UNCHANGED <<given, stack, entry>>
    BY <1>4 DEF Mode, Called
  <2> QED
    BY <2>1, <2>2, <2>3 DEF StartInv, LastInv
<1>5. CASE SystemCall
  <2>1. PICK call \in DOMAIN ReturnType :
          \E raw \in Answers(call) :
            /\ errno' = SyscallErrno(raw, errno)
            /\ last' = [fn |-> "syscall", call |-> call, raw |-> raw, was |-> errno,
                        result |-> Wrapper(call, raw)]
    BY <1>5, Zenon DEF SystemCall, Called
  <2>2. PICK raw \in Answers(call) :
          /\ errno' = SyscallErrno(raw, errno)
          /\ last' = [fn |-> "syscall", call |-> call, raw |-> raw, was |-> errno,
                      result |-> Wrapper(call, raw)]
    BY <2>1, Zenon
  <2>3. UNCHANGED <<given, stack, entry>>
    BY <1>5 DEF SystemCall, Called
  <2> QED
    BY <2>2, <2>3 DEF StartInv, LastInv
<1>6. CASE StartUp
  <2>1. entry = NotStarted /\ entry' = Start(stack, 1) /\ UNCHANGED <<given, stack, errno, last>>
    BY <1>6 DEF StartUp
  <2>2. last.fn # "getenv"
    BY <2>1 DEF LastInv
  <2> QED
    BY <2>1, <2>2 DEF StartInv, LastInv
<1>7. CASE GetenvCall
  <2>1. PICK name \in Names :
          last' = [fn |-> "getenv", name |-> name,
                   at |-> Getenv(stack, Strings, entry.environ, name)]
    BY <1>7, Zenon DEF GetenvCall, Called
  <2>2. UNCHANGED <<given, stack, entry>> /\ entry # NotStarted
    BY <1>7 DEF GetenvCall, Called
  <2> QED
    BY <2>1, <2>2 DEF StartInv, LastInv
<1>8. CASE UNCHANGED <<given, stack, entry, errno, last>>
  BY <1>8 DEF StartInv, LastInv
<1>9. Next \/ UNCHANGED vars
        => Sleep \/ Printf \/ Join \/ Mode \/ SystemCall \/ StartUp \/ GetenvCall
             \/ UNCHANGED <<given, stack, entry, errno, last>>
  BY DEF Next, Localtime, AsctimeCall, Ctime, vars
<1> QED
  BY <1>1, <1>2, <1>3, <1>4, <1>5, <1>6, <1>7, <1>8, <1>9

\* So it is always.
LEMMA CallInvariance == Spec => [](StartInv /\ LastInv)
BY CallsBegin, CallsStay, PTL DEF Spec

-----------------------------------------------------------------------------
(* The system call layer.                                                  *)

\* A wrapper's type holds what its call may answer.
Fits(call, type) ==
  /\ type \in {"int", "long", "unsigned", "ulong"}
  /\ call \in Wide => type \in {"long", "ulong"}
  /\ call \in User <=> type = "unsigned"
AllFit(f) == \A c \in DOMAIN f : Fits(c, f[c])

\* A group of calls of one type fits if its calls do.
LEMMA GroupFits ==
  ASSUME NEW type, NEW calls, \A c \in calls : Fits(c, type)
  PROVE  AllFit(Of(type, calls))
BY Zenon DEF AllFit, Of

\* Groups that fit do so together.
LEMMA MergedFits ==
  ASSUME NEW types, \A f \in types : AllFit(f)
  PROVE  AllFit(Merged(types))
<1> SUFFICES ASSUME NEW c \in DOMAIN Merged(types) PROVE Fits(c, Merged(types)[c])
  BY Zenon DEF AllFit
<1> DEFINE f == CHOOSE f \in types : c \in DOMAIN f
<1>1. \E g \in types : c \in DOMAIN g
  BY DEF Merged
<1>2. f \in types /\ c \in DOMAIN f
  BY <1>1, Zenon
<1>3. Merged(types)[c] = f[c]
  BY Zenon DEF Merged
<1> QED
  BY <1>2, <1>3, Zenon DEF AllFit

\* The type of every wrapper holds what its call answers.
LEMMA ReturnTypesFit == AllFit(ReturnType)
<1> DEFINE Free(calls) == \A c \in calls : c \notin Wide /\ c \notin User
<1>1. ASSUME NEW calls, Free(calls) PROVE AllFit(Of("int", calls))
  BY <1>1, GroupFits DEF Fits
<1>2. ASSUME NEW calls, \A c \in calls : c \notin User PROVE AllFit(Of("long", calls))
  BY <1>2, GroupFits DEF Fits
<1>3. AllFit(FileCalls)
  <2>1. AllFit(Of("long", {"write", "read"}))
    BY <1>2 DEF User
  <2>2. AllFit(Of("int", {"open", "close", "mkdir", "unlink", "rmdir", "readdir", "chdir",
                          "getcwd", "fstat", "stat", "dup2", "pipe", "mount", "umount",
                          "mkfifo"}))
    BY <1>1 DEF Wide, User
  <2> QED
    BY <2>1, <2>2, MergedFits DEF FileCalls
<1>4. AllFit(ProcessCalls)
  <2>1. AllFit(Of("long", {"driver_rescan", "sys_getpid", "sys_yield", "sys_fork",
                "sys_spawn_cmd", "sys_waitpid", "sys_waitpid_nb"}))
    BY <1>2 DEF User
  <2>2. AllFit(Of("int", {"execve", "sys_ps", "sys_getpwnam", "sys_reload_users"}))
    BY <1>1 DEF Wide, User
  <2> QED
    BY <2>1, <2>2, MergedFits DEF ProcessCalls
<1>5. AllFit(IpcCalls)
  <2>1. AllFit(Of("int", {"ipc_create"}))
    BY <1>1 DEF Wide, User
  <2>2. AllFit(Of("long", {"ipc_send", "ipc_recv", "shm_create"}))
    BY <1>2 DEF User
  <2>3. AllFit(Of("ulong", {"shm_attach"}))
    BY GroupFits DEF Fits, Wide, User
  <2> QED
    BY <2>1, <2>2, <2>3, MergedFits DEF IpcCalls
<1>6. AllFit(SocketCalls)
  <2>1. AllFit(Of("int", {"sock_create", "sock_bind", "sock_connect", "sock_listen",
                "sock_accept", "sock_close", "dns_resolve", "ping"}))
    BY <1>1 DEF Wide, User
  <2>2. AllFit(Of("long", {"sock_send", "sock_recv"}))
    BY <1>2 DEF User
  <2> QED
    BY <2>1, <2>2, MergedFits DEF SocketCalls
<1>7. AllFit(UserCalls)
  <2>1. AllFit(Of("unsigned", {"getuid", "geteuid", "getgid", "getegid"}))
    BY GroupFits DEF Fits, Wide, User
  <2>2. AllFit(Of("int", {"getrole", "setuid", "setgid", "chmod", "chown",
                "sys_authenticate"}))
    BY <1>1 DEF Wide, User
  <2> QED
    BY <2>1, <2>2, MergedFits DEF UserCalls
<1>8. AllFit(LaterCalls)
  <2>1. AllFit(Of("long", {"fb_mmap", "kxtload", "kxtunload", "lseek", "pread", "pwrite"}))
    BY <1>2 DEF User
  <2>2. AllFit(Of("int", {"uname"}))
    BY <1>1 DEF Wide, User
  <2> QED
    BY <2>1, <2>2, MergedFits DEF LaterCalls
<1>9. AllFit(TimeCalls)
  <2>1. AllFit(Of("long", {"time"}))
    BY <1>2 DEF User
  <2>2. AllFit(Of("int", {"gettimeofday"}))
    BY <1>1 DEF Wide, User
  <2> QED
    BY <2>1, <2>2, MergedFits DEF TimeCalls
<1>10. AllFit(SignalCalls)
  BY <1>1 DEF Wide, User, SignalCalls
<1>11. AllFit(SleepCalls)
  BY <1>1 DEF Wide, User, SleepCalls
<1> QED
  BY <1>3, <1>4, <1>5, <1>6, <1>7, <1>8, <1>9, <1>10, <1>11, MergedFits DEF ReturnType

\* Multiples of V do not matter to % V.
LEMMA ModIs ==
  ASSUME NEW V \in Nat \ {0}, NEW q \in Int, NEW r \in 0 .. V - 1
  PROVE  (r + V * q) % V = r
<1> DEFINE n == r + V * q
<1>1. n \in Int /\ V * q \in Int
  OBVIOUS
<1> DEFINE d == n \div V
           m == n % V
<1>2. d \in Int /\ m \in 0 .. V - 1 /\ n = V * d + m
  BY <1>1
<1> HIDE DEF d, m
<1> DEFINE e == q - d
<1>3. V * e = V * q - V * d
  BY <1>2
<1>4. V * e = m - r /\ e \in Int
  BY <1>2, <1>3
<1> HIDE DEF e
<1>5. e = 0
  <2>1. ASSUME e >= 1 PROVE FALSE
    <3>1. V * e >= V
      BY <1>4, <2>1
    <3> QED
      BY <1>2, <1>4, <3>1
  <2>2. ASSUME e <= -1 PROVE FALSE
    <3>1. V * e <= -V
      BY <1>4, <2>2
    <3> QED
      BY <1>2, <1>4, <3>1
  <2> QED
    BY <1>4, <2>1, <2>2
<1>6. m = r
  BY <1>2, <1>4, <1>5
<1> QED
  BY <1>6 DEF m, n

\* Below V nothing is taken off, and -1 wraps.
LEMMA ModSame == ASSUME NEW V \in Nat \ {0}, NEW r \in 0 .. V - 1 PROVE r % V = r
<1>1. (r + V * 0) % V = r
  BY ModIs
<1> QED
  BY <1>1

\* -1 is the largest of the words.
LEMMA ModMinus1 == ASSUME NEW V \in Nat \ {0} PROVE (-1) % V = V - 1
<1>1. ((V - 1) + V * (-1)) % V = V - 1
  <2>1. V - 1 \in 0 .. V - 1 /\ -1 \in Int
    OBVIOUS
  <2> QED
    BY <2>1, ModIs
<1>2. (V - 1) + V * (-1) = -1
  OBVIOUS
<1> QED
  BY <1>1, <1>2

\* int and long have evenly many values, and at least two.
Halved(n, h) == n \in Nat \ {0} /\ h \in Nat \ {0} /\ n = 2 * h /\ n \div 2 = h

Sizes(h, k) == Halved(IntValues, h) /\ Halved(LongValues, k) /\ h <= k

\* Words of both sizes have halves.
LEMMA Halves == \E h, k \in Nat : Sizes(h, k)
<1>1. /\ IntValues \in Nat /\ LongValues \in Nat
      /\ IntValues > 0 /\ IntValues % 2 = 0 /\ LongValues % 2 = 0
      /\ IntValues <= LongValues
  BY NumbersAssumption
<1>2. ASSUME NEW n \in Nat, n > 0, n % 2 = 0 PROVE Halved(n, n \div 2)
  <2>1. n = 2 * (n \div 2) /\ n \div 2 \in Nat
    BY <1>2
  <2>2. n \div 2 # 0
    BY <1>2, <2>1
  <2> QED
    BY <1>2, <2>1, <2>2 DEF Halved
<1>3. Halved(IntValues, IntValues \div 2) /\ Halved(LongValues, LongValues \div 2)
  BY <1>1, <1>2
<1>4. IntValues \div 2 <= LongValues \div 2
  BY <1>1
<1>5. IntValues \div 2 \in Nat /\ LongValues \div 2 \in Nat
  BY <1>3 DEF Halved
<1> QED
  BY <1>3, <1>4, <1>5, Zenon DEF Sizes

\* A number in the range of a type with n values is itself in it.
LEMMA SignedSame ==
  ASSUME NEW n \in Nat, NEW h \in Nat, Halved(n, h), NEW v \in Int, -h <= v, v < h
  PROVE  Signed(v, n) = v
<1>1. n \in Nat \ {0} /\ v + h \in 0 .. n - 1
  BY DEF Halved
<1>2. (v + h) % n = v + h
  BY <1>1, ModSame
<1>3. n \div 2 = h /\ h \in Int
  BY DEF Halved
<1>4. Signed(v, n) = ((v + h) % n) - h
  BY <1>3 DEF Signed
<1> QED
  BY <1>2, <1>3, <1>4

\* What the kernel answers is an error or fits its type.
LEMMA AnswersAre ==
  ASSUME NEW h \in Nat, NEW k \in Nat, Sizes(h, k),
         NEW call, NEW raw \in Answers(call)
  PROVE  /\ raw \in Int
         /\ IsError(raw) <=> raw < 0
         /\ call \in Wide => raw < k
         /\ call \notin Wide /\ call \in User => raw < IntValues - 1
         /\ call \notin Wide /\ call \notin User => raw < h
<1> DEFINE most == CASE call \in Wide -> (LongValues \div 2) - 1
                     [] call \in User -> IntValues - 2
                     [] OTHER -> (IntValues \div 2) - 1
<1>1. raw \in (-MaxErrno .. -1) \cup (0 .. most)
  BY DEF Answers
<1>2. /\ IntValues \div 2 = h /\ h \in Nat \ {0} /\ LongValues \div 2 = k /\ k \in Nat \ {0}
      /\ IntValues \in Nat
  BY DEF Halved, Sizes
<1>3. /\ call \in Wide => most = k - 1
      /\ call \notin Wide /\ call \in User => most = IntValues - 2
      /\ call \notin Wide /\ call \notin User => most = h - 1
  <2> DEFINE l == (LongValues \div 2) - 1
             i == (IntValues \div 2) - 1
             u == IntValues - 2
  <2>1. most = CASE call \in Wide -> l [] call \in User -> u [] OTHER -> i
    OBVIOUS
  <2>2. l = k - 1 /\ i = h - 1
    BY <1>2
  <2>3. u = IntValues - 2
    OBVIOUS
  <2> HIDE DEF l, i, u, most
  <2>4. call \in Wide => call \notin User
    BY DEF Wide, User
  <2>5. call \in Wide => most = l
    BY <2>1, <2>4
  <2>6. call \notin Wide /\ call \in User => most = u
    BY <2>1
  <2>7. call \notin Wide /\ call \notin User => most = i
    BY <2>1
  <2> QED
    BY <2>5, <2>6, <2>7, <2>2, <2>3
<1>4. most \in Int
  BY <1>2, <1>3
<1>5. MaxErrno \in Nat \ {0}
  BY <1>2, KernelAssumption
<1> HIDE DEF most
<1>6. raw \in Int /\ (raw >= 0 => raw <= most) /\ (raw < 0 => raw >= -MaxErrno)
  BY <1>1, <1>4, <1>5
<1>7. IsError(raw) <=> raw < 0
  BY <1>6 DEF IsError
<1>8. h \in Nat \ {0} /\ k \in Nat \ {0} /\ IntValues \in Nat /\ IntValues = 2 * h
  BY DEF Halved, Sizes
<1> QED
  BY <1>3, <1>4, <1>6, <1>7, <1>8

\* What a wrapper makes of the results of syscall.
Types == {"int", "long", "unsigned", "ulong"}
Minus1(type) ==
  CASE type = "unsigned" -> IntValues - 1
    [] type = "ulong" -> LongValues - 1
    [] OTHER -> -1

\* An error becomes the -1 of the type.
LEMMA ErrorConverts == \A type \in Types : Convert(type, -1) = Minus1(type)
<1>1. PICK h, k \in Nat : Sizes(h, k)
  BY Halves, Zenon
<1>2. ToInt(-1) = -1
  <2>1. -1 \in Int /\ -h <= -1 /\ -1 < h
    BY <1>1 DEF Halved, Sizes
  <2> QED
    <3>1. Halved(IntValues, h) /\ IntValues \in Nat
      BY <1>1 DEF Halved, Sizes
    <3>2. Signed(-1, IntValues) = -1
      BY <2>1, <3>1, SignedSame
    <3> QED
      BY <3>2 DEF ToInt
<1>3. (-1) % IntValues = IntValues - 1 /\ (-1) % LongValues = LongValues - 1
  <2>1. IntValues \in Nat \ {0} /\ LongValues \in Nat \ {0}
    BY <1>1 DEF Halved, Sizes
  <2> QED
    BY <2>1, ModMinus1
<1> QED
  BY <1>2, <1>3 DEF Convert, Minus1, ToULong, Types

\* Any other answer is kept, and is not that -1.
LEMMA AnswerConverts ==
  ASSUME NEW h \in Nat, NEW k \in Nat, Sizes(h, k),
         NEW type \in Types, NEW r \in Nat,
         type = "ulong" => r < k,
         type = "unsigned" => r < IntValues - 1,
         type = "int" => r < h
  PROVE  Convert(type, r) = r /\ r # Minus1(type)
<1>1. /\ h \in Nat \ {0} /\ IntValues = 2 * h /\ IntValues \in Nat \ {0}
      /\ k \in Nat \ {0} /\ LongValues = 2 * k /\ LongValues \in Nat \ {0}
  BY DEF Halved, Sizes
<1>2. ASSUME type = "int" PROVE ToInt(r) = r
  <2>1. -h <= r /\ r < h /\ r \in Int
    BY <1>1, <1>2
  <2>2. Halved(IntValues, h) /\ IntValues \in Nat
    BY <1>1 DEF Sizes
  <2>3. Signed(r, IntValues) = r
    BY <2>1, <2>2, SignedSame, Zenon
  <2> QED
    BY <2>3 DEF ToInt
<1>3. ASSUME type = "unsigned" PROVE r % IntValues = r /\ r # IntValues - 1
  <2>1. r \in 0 .. IntValues - 1
    BY <1>1, <1>3
  <2> QED
    BY <1>1, <1>3, <2>1, ModSame
<1>4. ASSUME type = "ulong" PROVE r % LongValues = r /\ r # LongValues - 1
  <2>1. r \in 0 .. LongValues - 1 /\ r # LongValues - 1
    BY <1>1, <1>4
  <2> QED
    BY <1>1, <2>1, ModSame
<1>5. r # -1
  BY <1>1
<1>6. CASE type = "int"
  BY <1>2, <1>5, <1>6 DEF Convert, Minus1
<1>7. CASE type = "long"
  BY <1>5, <1>7 DEF Convert, Minus1
<1>8. CASE type = "unsigned"
  BY <1>3, <1>8 DEF Convert, Minus1
<1>9. CASE type = "ulong"
  BY <1>4, <1>9 DEF Convert, Minus1, ToULong
<1> QED
  BY <1>6, <1>7, <1>8, <1>9 DEF Types

\* usleep's struct.
LEMMA UsleepIs ==
  ASSUME NEW usec \in Nat
  PROVE  LET req == Usleep(usec)
         IN  /\ req.tv_nsec \in 0 .. 1000 * Million - 1 /\ req.tv_nsec % 1000 = 0
             /\ req.tv_sec * Million + (req.tv_nsec \div 1000) = usec
<1> DEFINE q == usec \div Million
           r == usec % Million
<1>1. Million \in Nat \ {0}
  BY DEF Million
<1>2. q \in Nat /\ r \in 0 .. Million - 1 /\ Million * q + r = usec
  BY <1>1
<1> HIDE DEF q, r
<1>3. (r * 1000) % 1000 = 0 /\ (r * 1000) \div 1000 = r
  BY <1>1, <1>2
<1>4. r * 1000 \in 0 .. 1000 * Million - 1
  BY <1>1, <1>2
<1>5. Usleep(usec) = [tv_sec |-> q, tv_nsec |-> r * 1000]
  BY DEF Usleep, q, r
<1> QED
  BY <1>1, <1>2, <1>3, <1>4, <1>5

\* CallsArrive: no wrapper's type cuts an answer or lets one look like an error,
\* errors arrive as -1 and errno, and usleep asks for every microsecond, at every
\* width of int and long (syscall.c:5-288, time.c:150-156).
THEOREM CallsArriveHolds == Spec => []CallsArrive
<1>1. LastInv => CallsArrive
  <2> SUFFICES ASSUME LastInv PROVE CallsArrive
    OBVIOUS
  <2>1. ASSUME last.fn = "syscall"
        PROVE  IF last.raw < 0
               THEN last.result = Minus1(ReturnType[last.call]) /\ errno = -last.raw
               ELSE last.result = last.raw /\ last.result # Minus1(ReturnType[last.call])
                      /\ errno = last.was
    <3> DEFINE call == last.call
               raw == last.raw
               type == ReturnType[call]
    <3>1. /\ call \in DOMAIN ReturnType /\ raw \in Answers(call)
          /\ last.result = Wrapper(call, raw) /\ errno = SyscallErrno(raw, last.was)
      BY <2>1 DEF LastInv
    <3>2. Fits(call, type)
      BY <3>1, ReturnTypesFit DEF AllFit
    <3>3. last.result = Convert(type, SyscallResult(raw))
      BY <3>1 DEF Wrapper
    <3> HIDE DEF call, raw, type
    <3>4. PICK h, k \in Nat : Sizes(h, k)
      BY Halves, Zenon
    <3>5. /\ raw \in Int
          /\ IsError(raw) <=> raw < 0
          /\ call \in Wide => raw < k
          /\ call \notin Wide /\ call \in User => raw < IntValues - 1
          /\ call \notin Wide /\ call \notin User => raw < h
      BY <3>4, <3>1, AnswersAre
    <3>6. CASE raw < 0
      <4>1. SyscallResult(raw) = -1 /\ errno = -raw
        BY <3>1, <3>5, <3>6 DEF SyscallResult, SyscallErrno
      <4>2. last.result = Minus1(type)
        BY <3>2, <3>3, <4>1, ErrorConverts DEF Fits, Types
      <4> QED
        BY <3>6, <4>1, <4>2 DEF raw, type, call
    <3>7. CASE ~(raw < 0)
      <4>1. raw \in Nat /\ ~IsError(raw)
        BY <3>5, <3>7
      <4>2. SyscallResult(raw) = raw /\ errno = last.was
        BY <3>1, <4>1 DEF SyscallResult, SyscallErrno
      <4>3. h \in Nat \ {0} /\ k \in Nat \ {0} /\ h <= k /\ IntValues = 2 * h
        BY <3>4 DEF Halved, Sizes
      <4>4. /\ type = "ulong" => raw < k
            /\ type = "unsigned" => raw < IntValues - 1
            /\ type = "int" => raw < h
        <5>1. CASE call \in Wide
          BY <3>2, <3>5, <5>1 DEF Fits
        <5>2. CASE call \notin Wide /\ call \in User
          BY <3>2, <3>5, <5>2 DEF Fits
        <5>3. CASE call \notin Wide /\ call \notin User
          <6>1. raw < h /\ type # "unsigned"
            BY <3>2, <3>5, <5>3 DEF Fits
          <6> QED
            BY <3>5, <4>3, <6>1
        <5> QED
          BY <5>1, <5>2, <5>3
      <4>5. Convert(type, raw) = raw /\ raw # Minus1(type)
        BY <3>4, <3>2, <4>1, <4>4, AnswerConverts DEF Fits, Types
      <4> QED
        BY <3>3, <3>7, <4>2, <4>5 DEF raw, type, call
    <3> QED
      BY <3>6, <3>7 DEF raw, type, call
  <2>2. ASSUME last.fn = "usleep"
        PROVE  /\ last.req.tv_nsec \in 0 .. 1000 * Million - 1 /\ last.req.tv_nsec % 1000 = 0
               /\ last.req.tv_sec * Million + (last.req.tv_nsec \div 1000) = last.usec
    <3>1. last.usec \in Nat /\ last.req = Usleep(last.usec)
      BY <2>2 DEF LastInv
    <3> QED
      BY <3>1, UsleepIs
  <2> QED
    BY <2>1, <2>2 DEF CallsArrive, Minus1
<1> QED
  BY <1>1, CallInvariance, PTL

-----------------------------------------------------------------------------
(* The tools.                                                              *)

\* As much of s as fits in n.
LEMMA ClipIs ==
  ASSUME NEW S, NEW s \in Seq(S), NEW n \in Nat
  PROVE  /\ Clip(s, n) \in Seq(S) /\ Len(Clip(s, n)) = Least(n, Len(s))
         /\ \A i \in 1 .. Least(n, Len(s)) : Clip(s, n)[i] = s[i]
<1> DEFINE m == Least(n, Len(s))
<1>1. m \in Nat /\ m <= Len(s) /\ 1 \in Int
  BY DEF Least
<1> HIDE DEF m
<1>2. \A i \in 1 .. m : i \in 1 .. Len(s) /\ s[i] \in S
  BY <1>1, ElementOfSeq
<1>3. /\ SubSeq(s, 1, m) \in Seq(S) /\ Len(SubSeq(s, 1, m)) = (IF 1 <= m THEN m - 1 + 1 ELSE 0)
      /\ \A i \in 1 .. m - 1 + 1 : SubSeq(s, 1, m)[i] = s[1 + i - 1]
  BY <1>1, <1>2, SubSeqProperties
<1>4. Clip(s, n) = SubSeq(s, 1, m)
  BY DEF Clip, m
<1>5. Len(Clip(s, n)) = m
  BY <1>1, <1>3, <1>4
<1>6. \A i \in 1 .. m : Clip(s, n)[i] = s[i]
  BY <1>1, <1>3, <1>4
<1> QED
  BY <1>3, <1>4, <1>5, <1>6 DEF m

\* A concatenation is clipped in its first part, or in its second.
LEMMA ClipConcat ==
  ASSUME NEW S, NEW a \in Seq(S), NEW b \in Seq(S), NEW n \in Nat
  PROVE  Clip(a \o b, n) = Clip(a, n) \o Clip(b, IF n > Len(a) THEN n - Len(a) ELSE 0)
<1> DEFINE r == IF n > Len(a) THEN n - Len(a) ELSE 0
           c == a \o b
           x == Clip(a, n)
           y == Clip(b, r)
           l == Clip(c, n)
<1>1. r \in Nat /\ Len(a) \in Nat /\ Len(b) \in Nat
  OBVIOUS
<1>2. c \in Seq(S) /\ Len(c) = Len(a) + Len(b)
      /\ \A i \in 1 .. Len(c) : c[i] = IF i <= Len(a) THEN a[i] ELSE b[i - Len(a)]
  BY ConcatProperties
<1>3. /\ x \in Seq(S) /\ Len(x) = Least(n, Len(a))
      /\ \A i \in 1 .. Least(n, Len(a)) : x[i] = a[i]
  BY ClipIs
<1>4. /\ y \in Seq(S) /\ Len(y) = Least(r, Len(b))
      /\ \A i \in 1 .. Least(r, Len(b)) : y[i] = b[i]
  BY <1>1, ClipIs
<1>5. /\ l \in Seq(S) /\ Len(l) = Least(n, Len(c))
      /\ \A i \in 1 .. Least(n, Len(c)) : l[i] = c[i]
  BY <1>2, ClipIs
<1>6. n > Len(a) => r = n - Len(a)
  OBVIOUS
<1>7. ~(n > Len(a)) => r = 0
  OBVIOUS
<1> HIDE DEF r, c, x, y, l
<1> DEFINE z == x \o y
<1>8. z \in Seq(S) /\ Len(z) = Len(x) + Len(y)
      /\ \A i \in 1 .. Len(z) : z[i] = IF i <= Len(x) THEN x[i] ELSE y[i - Len(x)]
  <2>1. /\ z \in Seq(S) /\ Len(z) = Len(x) + Len(y)
        /\ \A i \in 1 .. Len(x) + Len(y) : z[i] = IF i <= Len(x) THEN x[i] ELSE y[i - Len(x)]
    BY <1>3, <1>4, ConcatProperties, Zenon
  <2> HIDE DEF z
  <2> QED
    BY <2>1
<1> HIDE DEF z
<1>9. Len(l) = Len(z)
  <2> DEFINE i == Len(a)
             j == Len(b)
  <2>1. /\ i \in Nat /\ j \in Nat
        /\ n > i => r = n - i
        /\ ~(n > i) => r = 0
    BY <1>1, <1>6, <1>7
  <2>2. Len(l) = Least(n, i + j) /\ Len(z) = Least(n, i) + Least(r, j)
    BY <1>2, <1>3, <1>4, <1>5, <1>8
  <2> HIDE DEF i, j
  <2>3. Least(n, i + j) = Least(n, i) + Least(r, j)
    BY <2>1 DEF Least
  <2> QED
    BY <2>2, <2>3
<1>10. ASSUME NEW i \in 1 .. Len(l) PROVE l[i] = z[i]
  <2>1. CASE n > Len(a)
    <3>1. Len(x) = Len(a)
      BY <1>1, <1>3, <2>1 DEF Least
    <3>2. l[i] = c[i] /\ i \in 1 .. Len(c) /\ i \in 1 .. Len(z)
      BY <1>1, <1>2, <1>5, <1>9 DEF Least
    <3>3. CASE i <= Len(a)
      <4>1. i \in 1 .. Least(n, Len(a))
        BY <1>1, <2>1, <3>3 DEF Least
      <4> QED
        BY <1>2, <1>3, <1>8, <3>1, <3>2, <3>3, <4>1
    <3>4. CASE ~(i <= Len(a))
      <4>1. i - Len(a) \in 1 .. Least(r, Len(b))
        BY <1>1, <1>4, <1>8, <3>1, <3>2, <3>4
      <4> QED
        BY <1>2, <1>4, <1>8, <3>1, <3>2, <3>4, <4>1
    <3> QED
      BY <3>3, <3>4
  <2>2. CASE ~(n > Len(a))
    <3>1. Len(x) = n /\ Len(y) = 0 /\ i \in 1 .. n
      BY <1>1, <1>2, <1>3, <1>4, <1>5, <1>7, <2>2 DEF Least
    <3>2. l[i] = c[i] /\ i \in 1 .. Len(c) /\ i \in 1 .. Len(z) /\ i <= Len(a) /\ i <= Len(x)
      BY <1>1, <1>2, <1>5, <1>9, <2>2, <3>1 DEF Least
    <3>3. x[i] = a[i]
      BY <1>1, <1>3, <2>2, <3>1
    <3> QED
      BY <1>2, <1>8, <3>2, <3>3
  <2> QED
    BY <2>1, <2>2
<1>11. l = z
  BY <1>5, <1>8, <1>9, <1>10, SeqEqual
<1> QED
  BY <1>11 DEF l, z, c, x, y, r

\* Nothing is clipped of what fits.
LEMMA ClipAll ==
  ASSUME NEW S, NEW s \in Seq(S), NEW n \in Nat, Len(s) <= n
  PROVE  Clip(s, n) = s
<1>1. Least(n, Len(s)) = Len(s)
  BY DEF Least
<1>2. /\ Clip(s, n) \in Seq(S) /\ Len(Clip(s, n)) = Len(s)
      /\ \A i \in 1 .. Len(s) : Clip(s, n)[i] = s[i]
  BY <1>1, ClipIs
<1> QED
  BY <1>2, SeqEqual

\* And what was clipped at n is as long as n, at the most.
LEMMA ClipNone == ASSUME NEW S, NEW s \in Seq(S) PROVE Clip(s, 0) = <<>>
<1>1. 0 \in Nat /\ Least(0, Len(s)) = 0
  BY DEF Least
<1>2. Clip(s, 0) \in Seq(S) /\ Len(Clip(s, 0)) = 0
  BY <1>1, ClipIs
<1> QED
  BY <1>2, EmptySeq

\* The path up to the name.
Prefix(dir) == IF dir = <<>> \/ dir[Len(dir)] = Slash THEN dir ELSE Append(dir, Slash)

\* A path is that and the name, and there is a slash between them.
LEMMA PrefixIs ==
  ASSUME NEW S, Slash \in S, NEW dir \in Seq(S), NEW name \in Seq(S)
  PROVE  /\ Prefix(dir) \in Seq(S) /\ Path(dir, name) = Prefix(dir) \o name
         /\ Prefix(dir) # <<>> => Len(Prefix(dir)) > 0 /\ Prefix(dir)[Len(Prefix(dir))] = Slash
<1>1. CASE dir = <<>> \/ dir[Len(dir)] = Slash
  <2>1. Prefix(dir) = dir /\ Path(dir, name) = dir \o name
    BY <1>1 DEF Prefix, Path
  <2>2. dir # <<>> => Len(dir) > 0
    BY EmptySeq
  <2> QED
    BY <1>1, <2>1, <2>2
<1>2. CASE ~(dir = <<>> \/ dir[Len(dir)] = Slash)
  <2>1. Prefix(dir) = Append(dir, Slash) /\ Path(dir, name) = dir \o <<Slash>> \o name
    BY <1>2 DEF Prefix, Path
  <2>2. Append(dir, Slash) = dir \o <<Slash>>
    BY AppendIsConcat
  <2>3. /\ Append(dir, Slash) \in Seq(S) /\ Len(Append(dir, Slash)) = Len(dir) + 1
        /\ Append(dir, Slash)[Len(dir) + 1] = Slash
    BY AppendProperties
  <2>4. Len(dir) \in Nat
    OBVIOUS
  <2> QED
    BY <2>1, <2>2, <2>3, <2>4
<1> QED
  BY <1>1, <1>2

\* What ax_join_path has of it before it comes to the name.
LEMMA SeparatedIs ==
  ASSUME NEW S, Slash \in S, NEW dir \in Seq(S), NEW n \in Nat
  PROVE  Separated(Clip(dir, n), n + 1) = Clip(Prefix(dir), n)
<1>1. Len(dir) \in Nat
  OBVIOUS
<1>2. CASE Len(dir) <= n
  <2>1. Clip(dir, n) = dir
    BY <1>2, ClipAll
  <2>2. dir = <<>> <=> Len(dir) = 0
    BY EmptySeq
  <2>3. CASE dir = <<>> \/ dir[Len(dir)] = Slash
    <3>1. Prefix(dir) = dir
      BY <2>3 DEF Prefix
    <3>2. Separated(dir, n + 1) = dir
      BY <2>2, <2>3 DEF Separated
    <3> QED
      BY <2>1, <3>1, <3>2
  <2>4. CASE ~(dir = <<>> \/ dir[Len(dir)] = Slash)
    <3> DEFINE w == Append(dir, Slash)
    <3>1. Prefix(dir) = w
      BY <2>4 DEF Prefix
    <3>2. w \in Seq(S) /\ Len(w) = Len(dir) + 1 /\ w = dir \o <<Slash>> /\ <<Slash>> \in Seq(S)
      <4>1. w \in Seq(S) /\ Len(w) = Len(dir) + 1
        BY AppendProperties
      <4>2. w = dir \o <<Slash>>
        BY AppendIsConcat
      <4>3. <<Slash>> \in Seq(S)
        OBVIOUS
      <4> QED
        BY <4>1, <4>2, <4>3
    <3>3. Len(dir) > 0
      BY <1>1, <2>2, <2>4
    <3>4. Separated(dir, n + 1) = IF Len(dir) + 1 < n + 1 THEN w ELSE dir
      BY <2>4, <3>3 DEF Separated
    <3> HIDE DEF w
    <3>5. CASE Len(dir) < n
      <4>1. Len(w) <= n /\ Len(dir) + 1 < n + 1
        BY <1>1, <3>2, <3>5
      <4>2. Clip(w, n) = w
        BY <3>2, <4>1, ClipAll
      <4> QED
        BY <2>1, <3>1, <3>4, <4>1, <4>2
    <3>6. CASE Len(dir) = n
      <4>1. ~(n > Len(dir)) /\ ~(Len(dir) + 1 < n + 1)
        BY <1>1, <3>6
      <4>2. Clip(dir \o <<Slash>>, n)
              = Clip(dir, n) \o Clip(<<Slash>>, IF n > Len(dir) THEN n - Len(dir) ELSE 0)
        BY <3>2, ClipConcat
      <4>3. Clip(<<Slash>>, 0) = <<>> /\ dir \o <<>> = dir
        BY <3>2, ClipNone, ConcatEmptySeq
      <4>4. Clip(w, n) = dir
        BY <2>1, <3>2, <4>1, <4>2, <4>3
      <4> QED
        BY <2>1, <3>1, <3>4, <4>1, <4>4
    <3> QED
      BY <1>1, <1>2, <3>5, <3>6
  <2> QED
    BY <2>3, <2>4
<1>3. CASE ~(Len(dir) <= n)
  <2> DEFINE c == Clip(dir, n)
  <2>1. Least(n, Len(dir)) = n
    BY <1>1, <1>3 DEF Least
  <2>2. c \in Seq(S) /\ Len(c) = n
    BY <2>1, ClipIs
  <2>3. Separated(c, n + 1) = c
    <3>1. ~(Len(c) + 1 < n + 1)
      BY <2>2
    <3> HIDE DEF c
    <3> QED
      BY <3>1 DEF Separated
  <2>4. Clip(Prefix(dir), n) = c
    <3>1. CASE dir = <<>> \/ dir[Len(dir)] = Slash
      BY <3>1 DEF Prefix
    <3>2. CASE ~(dir = <<>> \/ dir[Len(dir)] = Slash)
      <4>1. Prefix(dir) = dir \o <<Slash>>
        BY <3>2, AppendIsConcat DEF Prefix
      <4>2. <<Slash>> \in Seq(S) /\ ~(n > Len(dir))
        BY <1>1, <1>3
      <4>3. Clip(dir \o <<Slash>>, n)
              = Clip(dir, n) \o Clip(<<Slash>>, IF n > Len(dir) THEN n - Len(dir) ELSE 0)
        BY <4>2, ClipConcat
      <4>4. Clip(<<Slash>>, 0) = <<>>
        BY <4>2, ClipNone
      <4>5. c \o <<>> = c
        BY <2>2, ConcatEmptySeq
      <4> HIDE DEF c
      <4> QED
        BY <4>1, <4>2, <4>3, <4>4, <4>5 DEF c
    <3> QED
      BY <3>1, <3>2
  <2> QED
    BY <2>3, <2>4
<1> QED
  BY <1>2, <1>3

\* As much of the whole path as fits.
LEMMA JoinPathIs ==
  ASSUME NEW S, Slash \in S, NEW dir \in Seq(S), NEW name \in Seq(S), NEW cap \in Nat \ {0}
  PROVE  JoinPath(dir, name, cap) = Clip(Path(dir, name), cap - 1)
<1> DEFINE n == cap - 1
           w == Prefix(dir)
           out == Separated(Clip(dir, n), cap)
<1>1. n \in Nat /\ cap = n + 1
  OBVIOUS
<1>2. w \in Seq(S) /\ Path(dir, name) = w \o name
  BY PrefixIs
<1>3. JoinPath(dir, name, cap)
        = out \o Clip(name, IF n > Len(out) THEN n - Len(out) ELSE 0)
  BY DEF JoinPath
<1> HIDE DEF n
<1>4. out = Clip(w, n)
  BY <1>1, SeparatedIs
<1> HIDE DEF w, out
<1>5. Clip(w \o name, n) = Clip(w, n) \o Clip(name, IF n > Len(w) THEN n - Len(w) ELSE 0)
  BY <1>1, <1>2, ClipConcat
<1>6. Len(out) = Least(n, Len(w)) /\ Len(w) \in Nat
  BY <1>1, <1>2, <1>4, ClipIs
<1>7. (IF n > Len(out) THEN n - Len(out) ELSE 0) = (IF n > Len(w) THEN n - Len(w) ELSE 0)
  BY <1>1, <1>6 DEF Least
<1>8. JoinPath(dir, name, cap) = Clip(Path(dir, name), n)
  BY <1>2, <1>3, <1>4, <1>5, <1>7
<1> QED
  BY <1>8 DEF n

\* b is where the last component of p begins.
Begins(p, b) ==
  /\ b \in 0 .. Len(p) /\ (b > 0 => p[b] = Slash)
  /\ \A k \in b + 1 .. Len(p) : p[k] # Slash

\* The last component of a path begins somewhere.
LEMMA BeginsSomewhere == ASSUME NEW p, Len(p) \in Nat PROVE \E b : Begins(p, b)
<1> DEFINE T == {b \in 0 .. Len(p) : \A k \in b + 1 .. Len(p) : p[k] # Slash}
<1>1. T \subseteq Nat /\ Len(p) \in T
  OBVIOUS
<1>2. PICK b \in T : \A y \in T : b <= y
  <2> HIDE DEF T
  <2> QED
    BY <1>1, LeastIs
<1>3. ASSUME b > 0 PROVE p[b] = Slash
  <2>1. b - 1 \in 0 .. Len(p) /\ ~(b <= b - 1) /\ b \in Nat
    BY <1>3
  <2>2. b - 1 \notin T
    <3> HIDE DEF T
    <3> QED
      BY <1>2, <2>1
  <2>3. PICK k \in (b - 1) + 1 .. Len(p) : p[k] = Slash
    BY <2>1, <2>2
  <2>4. k = b \/ k \in b + 1 .. Len(p)
    BY <2>1, <2>3
  <2> QED
    BY <2>3, <2>4
<1> QED
  BY <1>3 DEF Begins

\* Basename is what begins there.
LEMMA BasenameIs ==
  ASSUME NEW p, Len(p) \in Nat, NEW b, Begins(p, b)
  PROVE  Basename(p) = SubSeq(p, b + 1, Len(p))
<1> DEFINE slashes == {k \in 1 .. Len(p) : p[k] = Slash}
           c == IF slashes = {} THEN 0 ELSE CHOOSE k \in slashes : \A j \in slashes : j <= k
<1>1. /\ b \in Nat /\ b <= Len(p)
      /\ b > 0 => b \in slashes
      /\ \A j \in slashes : j \in Nat /\ j <= b
  BY DEF Begins
<1>2. Basename(p) = SubSeq(p, c + 1, Len(p))
  BY Zenon DEF Basename
<1>3. c = b
  <2>1. CASE b = 0
    <3>1. slashes = {}
      <4>1. \A j \in slashes : j > 0
        OBVIOUS
      <4> HIDE DEF slashes
      <4> QED
        BY <1>1, <2>1, <4>1
    <3> QED
      BY <2>1, <3>1
  <2>2. CASE b > 0
    <3> HIDE DEF slashes
    <3>1. b \in slashes /\ \A j \in slashes : j <= b
      BY <1>1, <2>2
    <3>2. \A k \in slashes : (\A j \in slashes : j <= k) => k = b
      <4> SUFFICES ASSUME NEW k \in slashes, \A j \in slashes : j <= k PROVE k = b
        OBVIOUS
      <4>1. b <= k /\ k <= b /\ k \in Nat
        BY <1>1, <3>1
      <4> QED
        BY <1>1, <4>1
    <3>3. (CHOOSE k \in slashes : \A j \in slashes : j <= k) = b
      BY <3>1, <3>2
    <3> QED
      BY <3>1, <3>3
  <2> QED
    BY <1>1, <2>1, <2>2
<1> QED
  BY <1>2, <1>3

\* The prefix of a path has no part in its last component.
LEMMA BasenameOfPath ==
  ASSUME NEW S, Slash \in S, NEW dir \in Seq(S), NEW name \in Seq(S)
  PROVE  Basename(Path(dir, name)) = Basename(name)
<1> DEFINE w == Prefix(dir)
           p == w \o name
           i == Len(w)
           j == Len(name)
<1>1. /\ w \in Seq(S) /\ Path(dir, name) = p
      /\ w # <<>> => i > 0 /\ w[i] = Slash
  BY PrefixIs
<1> HIDE DEF w
<1>2. i \in Nat /\ j \in Nat /\ (i > 0 => w[i] = Slash)
  <2>1. i \in Nat /\ j \in Nat
    BY <1>1
  <2>2. i > 0 => w # <<>>
    BY <1>1, EmptySeq
  <2> QED
    BY <1>1, <2>1, <2>2
<1>3. /\ p \in Seq(S) /\ Len(p) = i + j
      /\ \A k \in 1 .. i + j : p[k] = IF k <= i THEN w[k] ELSE name[k - i]
  BY <1>1, ConcatProperties
<1>4. PICK b : Begins(name, b)
  BY <1>2, BeginsSomewhere
<1>5. b \in Nat /\ b <= j /\ (b > 0 => name[b] = Slash)
      /\ \A k \in b + 1 .. j : name[k] # Slash
  BY <1>2, <1>4 DEF Begins
<1> HIDE DEF p, i, j
<1>6. \A k \in (i + b) + 1 .. i + j : p[k] = name[k - i] /\ k - i \in b + 1 .. j
  <2> SUFFICES ASSUME NEW k \in (i + b) + 1 .. i + j
               PROVE  p[k] = name[k - i] /\ k - i \in b + 1 .. j
    OBVIOUS
  <2>1. k \in 1 .. i + j /\ ~(k <= i) /\ k - i \in b + 1 .. j
    BY <1>2, <1>5
  <2> QED
    BY <1>3, <2>1
<1>7. Begins(p, i + b)
  <2>1. i + b \in 0 .. Len(p)
    BY <1>2, <1>3, <1>5
  <2>2. ASSUME i + b > 0 PROVE p[i + b] = Slash
    <3>1. CASE b > 0
      <4>1. i + b \in 1 .. i + j /\ ~(i + b <= i) /\ (i + b) - i = b
        BY <1>2, <1>5, <3>1
      <4> QED
        BY <1>3, <1>5, <3>1, <4>1
    <3>2. CASE b = 0
      <4>1. i + b = i /\ i \in 1 .. i + j /\ i <= i /\ i > 0
        BY <1>2, <2>2, <3>2
      <4> QED
        BY <1>2, <1>3, <4>1
    <3> QED
      BY <1>5, <3>1, <3>2
  <2>3. \A k \in (i + b) + 1 .. Len(p) : p[k] # Slash
    BY <1>3, <1>5, <1>6
  <2> QED
    BY <2>1, <2>2, <2>3 DEF Begins
<1> DEFINE x == SubSeq(p, (i + b) + 1, i + j)
           y == SubSeq(name, b + 1, j)
<1>8. Basename(p) = x
  <2>1. Len(p) \in Nat
    BY <1>2, <1>3
  <2>2. Basename(p) = SubSeq(p, (i + b) + 1, Len(p))
    BY <1>7, <2>1, BasenameIs, Zenon
  <2> QED
    BY <1>3, <2>2
<1>9. Basename(name) = y
  BY <1>2, <1>4, BasenameIs DEF j
<1>10. x = y
  <2> DEFINE m == (i + b) + 1
             n == b + 1
  <2>1. m \in Int /\ n \in Int /\ i + j \in Int /\ j \in Int
        /\ (i + j) - m + 1 = j - b /\ j - n + 1 = j - b
        /\ (m <= i + j <=> b < j)
        /\ (n <= j <=> b < j)
    BY <1>2, <1>5
  <2>2. \A k \in n .. j : name[k] \in S
    BY <1>2, <1>5, ElementOfSeq DEF j
  <2>3. \A k \in m .. i + j : p[k] \in S
    BY <1>6, <2>2
  <2> HIDE DEF m, n
  <2>4. /\ SubSeq(p, m, i + j) \in Seq(S)
        /\ Len(SubSeq(p, m, i + j)) = (IF m <= i + j THEN (i + j) - m + 1 ELSE 0)
        /\ \A k \in 1 .. (i + j) - m + 1 : SubSeq(p, m, i + j)[k] = p[m + k - 1]
    BY <2>1, <2>3, SubSeqProperties
  <2>5. /\ SubSeq(name, n, j) \in Seq(S)
        /\ Len(SubSeq(name, n, j)) = (IF n <= j THEN j - n + 1 ELSE 0)
        /\ \A k \in 1 .. j - n + 1 : SubSeq(name, n, j)[k] = name[n + k - 1]
    BY <2>1, <2>2, SubSeqProperties
  <2>6. x = SubSeq(p, m, i + j) /\ y = SubSeq(name, n, j)
    BY DEF m, n
  <2> HIDE DEF x, y
  <2>7. /\ x \in Seq(S) /\ Len(x) = (IF b < j THEN j - b ELSE 0)
        /\ \A k \in 1 .. j - b : x[k] = p[m + k - 1]
    BY <2>1, <2>4, <2>6
  <2>8. /\ y \in Seq(S) /\ Len(y) = (IF b < j THEN j - b ELSE 0)
        /\ \A k \in 1 .. j - b : y[k] = name[n + k - 1]
    BY <2>1, <2>5, <2>6
  <2>9. Len(x) = j - b /\ Len(y) = j - b
    BY <1>2, <1>5, <2>7, <2>8
  <2>10. ASSUME NEW k \in 1 .. Len(x) PROVE x[k] = y[k]
    <3>1. /\ k \in 1 .. j - b /\ m + k - 1 \in (i + b) + 1 .. i + j
          /\ (m + k - 1) - i = n + k - 1
      BY <1>2, <1>5, <2>9 DEF m, n
    <3>2. p[m + k - 1] = name[(m + k - 1) - i]
      BY <1>6, <3>1
    <3> QED
      BY <2>7, <2>8, <3>1, <3>2
  <2> QED
    BY <2>7, <2>8, <2>9, <2>10, SeqEqual
<1> QED
  BY <1>1, <1>8, <1>9, <1>10 DEF p

\* A column of ModeStr shows its bits.
LEMMA ModeStrIs ==
  ASSUME NEW m, m \subseteq Bits
  PROVE  m = {b \in DOMAIN Shows : ModeStr(m)[Shows[b][1]] \in Shows[b][2]}
<1> DEFINE out == ModeStr(m)
           Bit(b, c) == IF b \in m THEN c ELSE "-"
           Exec(x, s) == IF x \in m THEN (IF s \in m THEN "s" ELSE "x")
                         ELSE (IF s \in m THEN "S" ELSE "-")
<1>1. /\ out[1] = Bit("IFDIR", "d") /\ out[2] = Bit("IRUSR", "r") /\ out[3] = Bit("IWUSR", "w")
      /\ out[4] = Exec("IXUSR", "ISUID") /\ out[5] = Bit("IRGRP", "r")
      /\ out[6] = Bit("IWGRP", "w") /\ out[7] = Exec("IXGRP", "ISGID")
      /\ out[8] = Bit("IROTH", "r") /\ out[9] = Bit("IWOTH", "w") /\ out[10] = Bit("IXOTH", "x")
  BY DEF ModeStr
<1> HIDE DEF out
<1>2. DOMAIN Shows = Bits
  BY DEF Shows, Bits
<1>3. ASSUME NEW b \in Bits PROVE b \in m <=> out[Shows[b][1]] \in Shows[b][2]
  <2>1. CASE b \in {"IFDIR", "IRUSR", "IWUSR", "IRGRP", "IWGRP", "IROTH", "IWOTH", "IXOTH"}
    BY <1>1, <2>1 DEF Shows
  <2>2. CASE b \in {"IXUSR", "ISUID", "IXGRP", "ISGID"}
    BY <1>1, <2>2 DEF Shows
  <2> QED
    BY <2>1, <2>2 DEF Bits
<1> QED
  BY <1>2, <1>3 DEF out

\* ToolsTell: a joined path is what fits of the whole and ends in its name, for
\* paths and arrays of any length, and the column of a mode tells each of its bits
\* (util.h:38-74).
THEOREM ToolsTellHolds == Spec => []ToolsTell
<1>1. ASSUME LastInv, last.fn = "ax_join_path"
      PROVE  /\ last.out = Clip(Path(last.dir, last.name), last.cap - 1)
             /\ last.out = Path(last.dir, last.name) => Basename(last.out) = Basename(last.name)
  <2> DEFINE d == last.dir
             n == last.name
             Chars(p) == {p[k] : k \in DOMAIN p}
             S == (Chars(d) \cup Chars(n)) \cup {Slash}
  <2>1. d \in Dirs /\ n \in Files /\ last.cap \in Caps /\ last.out = JoinPath(d, n, last.cap)
    BY <1>1 DEF LastInv
  <2>2. d \in Seq(Chars(d)) /\ n \in Seq(Chars(n)) /\ last.cap \in Nat \ {0}
    BY <2>1, LibraryAssumption
  <2> HIDE DEF Chars
  <2>3. d \in Seq(S) /\ n \in Seq(S) /\ Slash \in S
    BY <2>2
  <2> HIDE DEF S, d, n
  <2>4. /\ JoinPath(d, n, last.cap) = Clip(Path(d, n), last.cap - 1)
        /\ Basename(Path(d, n)) = Basename(n)
    BY <2>2, <2>3, JoinPathIs, BasenameOfPath
  <2> QED
    BY <2>1, <2>4 DEF d, n
<1>2. ASSUME LastInv, last.fn = "ax_mode_str"
      PROVE  last.m = {b \in DOMAIN Shows : last.out[Shows[b][1]] \in Shows[b][2]}
  <2>1. last.m \subseteq Bits /\ last.out = ModeStr(last.m)
    BY <1>2 DEF LastInv
  <2> QED
    BY <2>1, ModeStrIs, Zenon
<1>3. LastInv => ToolsTell
  BY <1>1, <1>2, Zenon DEF ToolsTell
<1> QED
  BY <1>3, CallInvariance, PTL

-----------------------------------------------------------------------------
(* The initial stack, and the environment in it.                           *)

\* s has n, the words of a, a 0, the words of e and a 0 one after the other.
Holds(s, a, e) ==
  /\ s \in Seq(Nat) /\ Len(s) = Len(a) + Len(e) + 3
  /\ s[1] = Len(a) /\ s[Len(a) + 2] = 0 /\ s[Len(a) + Len(e) + 3] = 0
  /\ \A k \in 1 .. Len(a) : s[1 + k] = a[k]
  /\ \A k \in 1 .. Len(e) : s[(Len(a) + 2) + k] = e[k]

\* The initial stack has both vectors.
LEMMA StackHolds ==
  ASSUME NEW a \in Seq(Nat), NEW e \in Seq(Nat)
  PROVE  Holds(StackOf(a, e), a, e)
<1> DEFINE i == Len(a)
           j == Len(e)
           b == <<i>>
           z == <<0>>
           s1 == b \o a
           s2 == s1 \o z
           s3 == s2 \o e
           s == s3 \o z
<1>1. i \in Nat /\ j \in Nat
  OBVIOUS
<1>2. b \in Seq(Nat) /\ Len(b) = 1 /\ b[1] = i /\ z \in Seq(Nat) /\ Len(z) = 1 /\ z[1] = 0
  BY <1>1
<1>3. StackOf(a, e) = s
  BY DEF StackOf, NULL
<1> HIDE DEF b, z, s1, s2, s3, s
<1>4. /\ s1 \in Seq(Nat) /\ Len(s1) = 1 + i
      /\ \A k \in 1 .. 1 + i : s1[k] = IF k <= 1 THEN b[k] ELSE a[k - 1]
  <2>1. /\ s1 \in Seq(Nat) /\ Len(s1) = Len(b) + Len(a)
        /\ \A k \in 1 .. Len(b) + Len(a) : s1[k] = IF k <= Len(b) THEN b[k] ELSE a[k - Len(b)]
    BY <1>2, ConcatProperties, Zenon DEF s1
  <2> QED
    BY <1>2, <2>1
<1> HIDE DEF i, j
<1>5. /\ s2 \in Seq(Nat) /\ Len(s2) = i + 2
      /\ \A k \in 1 .. i + 2 : s2[k] = IF k <= 1 + i THEN s1[k] ELSE z[k - (1 + i)]
  <2>1. /\ s2 \in Seq(Nat) /\ Len(s2) = Len(s1) + Len(z)
        /\ \A k \in 1 .. Len(s1) + Len(z) : s2[k] = IF k <= Len(s1) THEN s1[k] ELSE z[k - Len(s1)]
    BY <1>2, <1>4, ConcatProperties, Zenon DEF s2
  <2>2. Len(s1) + Len(z) = i + 2
    BY <1>1, <1>2, <1>4
  <2> QED
    BY <1>4, <2>1, <2>2
<1>6. /\ s3 \in Seq(Nat) /\ Len(s3) = (i + 2) + j
      /\ \A k \in 1 .. (i + 2) + j : s3[k] = IF k <= i + 2 THEN s2[k] ELSE e[k - (i + 2)]
  <2>1. /\ s3 \in Seq(Nat) /\ Len(s3) = Len(s2) + Len(e)
        /\ \A k \in 1 .. Len(s2) + Len(e) : s3[k] = IF k <= Len(s2) THEN s2[k] ELSE e[k - Len(s2)]
    BY <1>5, ConcatProperties, Zenon DEF s3
  <2>2. Len(s2) + Len(e) = (i + 2) + j
    BY <1>1, <1>5 DEF j
  <2> QED
    BY <1>5, <2>1, <2>2
<1>7. /\ s \in Seq(Nat) /\ Len(s) = i + j + 3
      /\ \A k \in 1 .. i + j + 3 : s[k] = IF k <= (i + 2) + j THEN s3[k] ELSE z[k - ((i + 2) + j)]
  <2>1. /\ s \in Seq(Nat) /\ Len(s) = Len(s3) + Len(z)
        /\ \A k \in 1 .. Len(s3) + Len(z) : s[k] = IF k <= Len(s3) THEN s3[k] ELSE z[k - Len(s3)]
    BY <1>2, <1>6, ConcatProperties, Zenon DEF s
  <2>2. Len(s3) + Len(z) = i + j + 3
    BY <1>1, <1>2, <1>6
  <2> QED
    BY <1>6, <2>1, <2>2
<1>8. s[1] = i
  BY <1>1, <1>2, <1>4, <1>5, <1>6, <1>7
<1>9. s[i + 2] = 0
  <2>1. i + 2 \in 1 .. i + j + 3 /\ i + 2 \in 1 .. (i + 2) + j /\ i + 2 \in 1 .. i + 2
        /\ i + 2 <= (i + 2) + j /\ i + 2 <= i + 2 /\ ~(i + 2 <= 1 + i) /\ (i + 2) - (1 + i) = 1
    BY <1>1
  <2> QED
    BY <1>2, <1>5, <1>6, <1>7, <2>1
<1>10. s[i + j + 3] = 0
  <2>1. i + j + 3 \in 1 .. i + j + 3 /\ ~(i + j + 3 <= (i + 2) + j)
        /\ (i + j + 3) - ((i + 2) + j) = 1
    BY <1>1
  <2> QED
    BY <1>2, <1>7, <2>1
<1>11. ASSUME NEW k \in 1 .. i PROVE s[1 + k] = a[k]
  <2>1. 1 + k \in 1 .. i + j + 3 /\ 1 + k \in 1 .. (i + 2) + j /\ 1 + k \in 1 .. i + 2
        /\ 1 + k \in 1 .. 1 + i /\ 1 + k <= (i + 2) + j /\ 1 + k <= i + 2 /\ 1 + k <= 1 + i
        /\ ~(1 + k <= 1) /\ (1 + k) - 1 = k
    BY <1>1
  <2> QED
    BY <1>4, <1>5, <1>6, <1>7, <2>1
<1>12. ASSUME NEW k \in 1 .. j PROVE s[(i + 2) + k] = e[k]
  <2>1. (i + 2) + k \in 1 .. i + j + 3 /\ (i + 2) + k \in 1 .. (i + 2) + j
        /\ (i + 2) + k <= (i + 2) + j /\ ~((i + 2) + k <= i + 2) /\ ((i + 2) + k) - (i + 2) = k
    BY <1>1
  <2> QED
    BY <1>6, <1>7, <2>1
<1>13. Holds(s, a, e)
  BY <1>7, <1>8, <1>9, <1>10, <1>11, <1>12 DEF Holds, i, j
<1> QED
  BY <1>3, <1>13

\* The loop over a name comes to its end where there is nothing else in front.
LEMMA CommonIs ==
  ASSUME NEW e, NEW name, Len(name) \in Nat
  PROVE  Common(e, name) = Len(name)
           <=> \A j \in 0 .. Len(name) - 1 : CharAt(e, j) = name[j + 1]
<1> DEFINE l == Len(name)
           Same(i) == \A j \in 0 .. i - 1 : CharAt(e, j) = name[j + 1]
           Ends(i) == Same(i) /\ (i < l => CharAt(e, i) # name[i + 1])
           c == CHOOSE i \in 0 .. l : Ends(i)
<1>1. Common(e, name) = c
  BY Zenon DEF Common
<1>2. \E i \in 0 .. l : Ends(i)
  <2> DEFINE T == {i \in 0 .. l : i < l => CharAt(e, i) # name[i + 1]}
  <2>1. T \subseteq Nat /\ l \in T
    OBVIOUS
  <2>2. PICK i \in T : \A y \in T : i <= y
    <3> HIDE DEF T
    <3> QED
      BY <2>1, LeastIs
  <2>3. Same(i)
    <3> SUFFICES ASSUME NEW j \in 0 .. i - 1 PROVE CharAt(e, j) = name[j + 1]
      OBVIOUS
    <3>1. j \in 0 .. l /\ ~(i <= j) /\ i \in Nat
      OBVIOUS
    <3>2. j \notin T
      <4> HIDE DEF T
      <4> QED
        BY <2>2, <3>1
    <3> QED
      BY <3>1, <3>2
  <2> QED
    BY <2>2, <2>3
<1>3. c \in 0 .. l /\ Ends(c)
  <2> HIDE DEF Ends
  <2> QED
    BY <1>2
<1> HIDE DEF c
<1>4. ASSUME Same(l) PROVE c = l
  <2>1. CASE c < l
    <3>1. c \in 0 .. l - 1
      BY <1>3, <2>1
    <3> QED
      BY <1>3, <1>4, <2>1, <3>1
  <2> QED
    BY <1>3, <2>1
<1> QED
  BY <1>1, <1>3, <1>4

\* So a string matches a name that has no '=' if it is an entry for it.
LEMMA MatchesIs ==
  ASSUME NEW e \in Seq(Nat \ {0}), NEW name \in Seq(Nat \ {0, Equals})
  PROVE  Matches(e, name) <=> Entry(e, name)
<1> DEFINE l == Len(name)
           n == Len(e)
<1>1. l \in Nat /\ n \in Nat
  OBVIOUS
<1>2. \A j \in 1 .. l : name[j] # 0 /\ name[j] # Equals
  BY ElementOfSeq
<1>3. \A j \in 1 .. n : e[j] \in Nat \ {0}
  BY ElementOfSeq
<1>4. Matches(e, name) <=> /\ \A j \in 0 .. l - 1 : CharAt(e, j) = name[j + 1]
                           /\ CharAt(e, l) = Equals
  BY <1>1, CommonIs DEF Matches
<1>5. Equals # 0
  BY DEF Equals
<1>6. ASSUME Matches(e, name) PROVE Entry(e, name)
  <2>1. l < n /\ e[l + 1] = Equals
    BY <1>4, <1>5, <1>6 DEF CharAt
  <2>2. \A j \in 1 .. l : e[j] = name[j]
    <3> SUFFICES ASSUME NEW j \in 1 .. l PROVE e[j] = name[j]
      OBVIOUS
    <3>1. j - 1 \in 0 .. l - 1 /\ (j - 1) + 1 = j /\ j - 1 < n
      BY <1>1, <2>1
    <3>2. CharAt(e, j - 1) = name[j] /\ CharAt(e, j - 1) = e[j]
      BY <1>4, <1>6, <3>1 DEF CharAt
    <3> QED
      BY <3>2
  <2>3. SubSeq(e, 1, l) = name
    <3>1. 1 \in Int /\ l \in Int /\ l - 1 + 1 = l
      BY <1>1
    <3>2. \A i \in 1 .. l : e[i] \in Nat \ {0}
      BY <1>1, <1>3, <2>1
    <3>3. /\ SubSeq(e, 1, l) \in Seq(Nat \ {0})
          /\ Len(SubSeq(e, 1, l)) = (IF 1 <= l THEN l - 1 + 1 ELSE 0)
          /\ \A i \in 1 .. l - 1 + 1 : SubSeq(e, 1, l)[i] = e[1 + i - 1]
      BY <3>1, <3>2, SubSeqProperties
    <3>4. Len(SubSeq(e, 1, l)) = l /\ \A i \in 1 .. l : SubSeq(e, 1, l)[i] = name[i]
      BY <1>1, <2>2, <3>3
    <3>5. name \in Seq(Nat \ {0})
      BY <1>2, ElementOfSeq
    <3> QED
      BY <3>3, <3>4, <3>5, SeqEqual
  <2>4. /\ l + 1 \in 1 .. n /\ (l + 1) - 1 = l
        /\ \A j \in 1 .. l : e[j] # Equals
    BY <1>1, <1>2, <2>1, <2>2
  <2> DEFINE k == l + 1
  <2>5. /\ k \in 1 .. n /\ e[k] = Equals /\ k - 1 = l
        /\ \A j \in 1 .. k - 1 : e[j] # Equals
    BY <2>1, <2>4
  <2> HIDE DEF k
  <2>6. SubSeq(e, 1, k - 1) = name
    BY <2>3, <2>5
  <2> QED
    BY <2>5, <2>6, Zenon DEF Entry
<1>7. ASSUME Entry(e, name) PROVE Matches(e, name)
  <2>1. PICK k \in 1 .. n : e[k] = Equals /\ SubSeq(e, 1, k - 1) = name
    BY <1>7 DEF Entry
  <2>2. 1 \in Int /\ k - 1 \in Int /\ (k - 1) - 1 + 1 = k - 1
    OBVIOUS
  <2>3. \A i \in 1 .. k - 1 : e[i] \in Nat \ {0}
    BY <1>1, <1>3
  <2>4. /\ Len(SubSeq(e, 1, k - 1)) = (IF 1 <= k - 1 THEN (k - 1) - 1 + 1 ELSE 0)
        /\ \A i \in 1 .. (k - 1) - 1 + 1 : SubSeq(e, 1, k - 1)[i] = e[1 + i - 1]
    BY <2>2, <2>3, SubSeqProperties
  <2>5. l = k - 1 /\ \A i \in 1 .. l : name[i] = e[i]
    BY <2>1, <2>4
  <2>6. l < n /\ l + 1 = k
    BY <1>1, <2>5
  <2>7. \A j \in 0 .. l - 1 : CharAt(e, j) = name[j + 1]
    BY <1>1, <2>5, <2>6 DEF CharAt
  <2>8. CharAt(e, l) = Equals
    BY <1>1, <2>1, <2>6 DEF CharAt
  <2> QED
    BY <1>4, <2>7, <2>8
<1> QED
  BY <1>6, <1>7

\* getenv finds the entries of the list, in its order.
Found(e, name) == {k \in DOMAIN e : Entry(Strings[e[k]], name)}

\* The first of them is what getenv returns.
LEMMA GetenvIs ==
  ASSUME NEW a \in Seq(DOMAIN Strings), NEW e \in Seq(DOMAIN Strings), NEW s, Holds(s, a, e),
         NEW name \in Names
  PROVE  Getenv(s, Strings, Len(a) + 3, name)
           = IF Found(e, name) = {} \/ name = <<>> THEN <<NULL, 0>>
             ELSE LET first == CHOOSE k \in Found(e, name) : \A j \in Found(e, name) : k <= j
                  IN  <<e[first], Len(name) + 1>>
<1> DEFINE env == Len(a) + 3
           base == Len(a) + 2
           m == Len(e)
           entries == {p \in env .. Len(s) : /\ \A q \in env .. p : s[q] # NULL
                                            /\ Matches(Strings[s[p]], name)}
           found == Found(e, name)
           first == CHOOSE p \in entries : \A q \in entries : p <= q
           f == CHOOSE k \in found : \A j \in found : k <= j
<1>1. Getenv(s, Strings, env, name)
        = IF name = <<>> \/ env = NULL \/ entries = {} THEN <<NULL, 0>>
          ELSE <<s[first], Len(name) + 1>>
  BY Zenon DEF Getenv
<1>2. /\ base \in Nat /\ m \in Nat /\ env = base + 1 /\ env # NULL /\ Len(s) = base + m + 1
      /\ s[base + m + 1] = NULL
      /\ \A k \in 1 .. m : s[base + k] = e[k]
  BY DEF Holds, NULL
<1>3. name \in Seq(Nat \ {0, Equals})
  BY LibraryAssumption
<1>4. ASSUME NEW k \in 1 .. m
      PROVE  /\ e[k] # NULL /\ Strings[e[k]] \in Seq(Nat \ {0})
             /\ k \in found <=> Matches(Strings[e[k]], name)
  <2>1. e[k] \in DOMAIN Strings /\ DOMAIN e = 1 .. m
    BY ElementOfSeq
  <2>2. e[k] # NULL /\ Strings[e[k]] \in Seq(Nat \ {0})
    BY <2>1, LibraryAssumption
  <2>3. Matches(Strings[e[k]], name) <=> Entry(Strings[e[k]], name)
    BY <1>3, <2>2, MatchesIs
  <2> QED
    BY <2>1, <2>2, <2>3, Zenon DEF Found
<1>5. found \subseteq 1 .. m
  BY DEF Found
<1>6. ASSUME NEW k \in found PROVE base + k \in entries
  <2>1. k \in 1 .. m /\ base + k \in env .. Len(s) /\ s[base + k] = e[k]
    BY <1>2, <1>5
  <2>2. ASSUME NEW q \in env .. base + k PROVE s[q] # NULL
    <3> DEFINE i == q - base
    <3>1. i \in 1 .. m /\ q = base + i
      BY <1>2, <2>1
    <3> HIDE DEF i
    <3> QED
      BY <1>2, <1>4, <3>1
  <2>3. Matches(Strings[s[base + k]], name)
    BY <1>4, <2>1
  <2> QED
    BY <2>1, <2>2, <2>3
<1>7. ASSUME NEW p \in entries PROVE p - base \in found /\ p = base + (p - base) /\ p \in Nat
  <2>1. p \in env .. Len(s) /\ s[p] # NULL /\ Matches(Strings[s[p]], name)
    BY <1>2
  <2> HIDE DEF entries
  <2> DEFINE k == p - base
  <2>2. p \in Nat /\ p = base + k /\ k \in 1 .. m + 1
    BY <1>2, <2>1
  <2>3. k # m + 1
    BY <1>2, <2>1, <2>2
  <2>4. k \in 1 .. m
    BY <1>2, <2>2, <2>3
  <2> HIDE DEF k
  <2>5. k \in found
    BY <1>2, <1>4, <2>1, <2>2, <2>4
  <2> QED
    BY <2>2, <2>5 DEF k
<1> HIDE DEF entries, found, first, f, base, m, env
<1>8. entries = {} <=> found = {}
  BY <1>6, <1>7
<1>9. ASSUME found # {} PROVE s[first] = e[f]
  <2>1. found \subseteq Nat /\ \A k \in found : k \in 1 .. m
    BY <1>2, <1>5
  <2>2. PICK g \in found : \A j \in found : g <= j
    BY <1>9, <2>1, LeastIs
  <2>3. f \in found /\ \A j \in found : f <= j
    BY <2>2 DEF f
  <2>4. base + f \in entries
    BY <1>6, <2>3
  <2>5. ASSUME NEW q \in entries PROVE base + f <= q
    <3> DEFINE k == q - base
    <3>1. k \in found /\ q = base + k
      BY <1>7
    <3> HIDE DEF k
    <3>2. f <= k /\ k \in Nat /\ f \in Nat
      BY <2>1, <2>3, <3>1
    <3> QED
      BY <1>2, <3>1, <3>2
  <2>6. first = base + f
    <3>1. first \in entries /\ \A q \in entries : first <= q
      BY <2>4, <2>5 DEF first
    <3>2. first <= base + f /\ base + f <= first
      BY <2>4, <2>5, <3>1
    <3>3. first \in Nat /\ base + f \in Nat
      BY <1>7, <2>4, <3>1
    <3> QED
      BY <3>2, <3>3
  <2> QED
    BY <1>2, <2>1, <2>3, <2>6
<1> QED
  BY <1>1, <1>2, <1>8, <1>9, Zenon DEF env, found, f

\* StartArrives: main gets the vectors of the kernel and getenv finds the first
\* entry of a name, for vectors and strings of any length (crt0.c:6-19,
\* stdlib.c:216-231).
THEOREM StartArrivesHolds == Spec => []StartArrives
<1>1. ASSUME StartInv, LastInv, entry # NotStarted PROVE StartArrives
  <2> DEFINE a == given.argv
             e == given.envp
             s == stack
             n == Len(a)
             m == Len(e)
  <2>1. a \in Seq(DOMAIN Strings) /\ e \in Seq(DOMAIN Strings)
    BY <1>1 DEF StartInv
  <2>2. a \in Seq(Nat) /\ e \in Seq(Nat)
    BY <2>1, LibraryAssumption
  <2>3. Holds(s, a, e) /\ entry = Start(s, 1)
    BY <1>1, <2>2, StackHolds DEF StartInv
  <2> HIDE DEF a, e, s
  <2>4. /\ s[1] = n /\ n \in Nat /\ m \in Nat
    BY <2>2, <2>3 DEF Holds
  <2>5. /\ entry.environ = n + 3 /\ entry.main.argc = n /\ entry.main.argv = 2
        /\ entry.main.envp = n + 3
    BY <2>3, <2>4 DEF Start
  <2>6. ASSUME NEW k \in 0 .. n PROVE s[2 + k] = Append(a, NULL)[k + 1]
    <3>1. /\ Append(a, 0)[n + 1] = 0
          /\ \A i \in 1 .. n : Append(a, 0)[i] = a[i]
      BY <2>2, AppendProperties
    <3>2. CASE k = n
      BY <2>3, <2>4, <3>1, <3>2 DEF Holds, NULL
    <3>3. CASE k # n
      <4>1. k + 1 \in 1 .. n /\ 2 + k = 1 + (k + 1)
        BY <2>4, <3>3
      <4>2. s[1 + (k + 1)] = a[k + 1]
        BY <2>3, <4>1 DEF Holds
      <4> QED
        BY <3>1, <4>1, <4>2 DEF NULL
    <3> QED
      BY <3>2, <3>3
  <2>7. SubSeq(s, n + 3, Len(s)) = Append(e, NULL)
    <3> DEFINE x == SubSeq(s, n + 3, Len(s))
               y == Append(e, NULL)
               l == Len(s)
    <3>1. s \in Seq(Nat) /\ l = n + m + 3 /\ s[n + m + 3] = 0
          /\ \A k \in 1 .. m : s[(n + 2) + k] = e[k]
      BY <2>3 DEF Holds
    <3>2. /\ y \in Seq(Nat) /\ Len(y) = m + 1 /\ y[m + 1] = 0
          /\ \A i \in 1 .. m : y[i] = e[i]
      BY <2>2, AppendProperties DEF NULL
    <3>3. \A i \in n + 3 .. l : s[i] \in Nat
      <4>1. \A i \in n + 3 .. l : i \in 1 .. l
        BY <2>4, <3>1
      <4> QED
        BY <3>1, <4>1, ElementOfSeq
    <3>4. n + 3 \in Int /\ l \in Int /\ n + 3 <= l /\ l - (n + 3) + 1 = m + 1
      BY <2>4, <3>1
    <3>5. /\ x \in Seq(Nat) /\ Len(x) = (IF n + 3 <= l THEN l - (n + 3) + 1 ELSE 0)
          /\ \A i \in 1 .. l - (n + 3) + 1 : x[i] = s[n + 3 + i - 1]
      BY <3>3, <3>4, SubSeqProperties
    <3> HIDE DEF x, y, l
    <3>6. x \in Seq(Nat) /\ Len(x) = m + 1 /\ \A i \in 1 .. m + 1 : x[i] = s[n + 3 + i - 1]
      BY <3>4, <3>5
    <3>7. ASSUME NEW i \in 1 .. m + 1 PROVE x[i] = y[i]
      <4>1. n + 3 + i - 1 = (n + 2) + i
        BY <2>4
      <4>2. CASE i = m + 1
        BY <2>4, <3>1, <3>2, <3>6, <4>1, <4>2
      <4>3. CASE i # m + 1
        <5>1. i \in 1 .. m
          BY <2>4, <4>3
        <5> QED
          BY <3>1, <3>2, <3>6, <4>1, <5>1
      <4> QED
        BY <4>2, <4>3
    <3>8. x = y
      BY <3>2, <3>6, <3>7, SeqEqual
    <3> QED
      BY <3>8 DEF x, y, l
  <2>8. ASSUME last.fn = "getenv"
        PROVE  IF Entries(last.name) = {} \/ last.name = <<>> THEN last.at = <<NULL, 0>>
               ELSE LET first == CHOOSE k \in Entries(last.name) :
                                   \A j \in Entries(last.name) : k <= j
                    IN  last.at = <<given.envp[first], Len(last.name) + 1>>
    <3> DEFINE w == last.name
    <3>1. w \in Names /\ last.at = Getenv(s, Strings, n + 3, w)
      BY <1>1, <2>5, <2>8 DEF LastInv, s
    <3>2. Entries(w) = Found(e, w)
      BY Zenon DEF Entries, Found, e
    <3> HIDE DEF w
    <3>3. last.at = IF Found(e, w) = {} \/ w = <<>> THEN <<NULL, 0>>
                    ELSE LET first == CHOOSE k \in Found(e, w) : \A j \in Found(e, w) : k <= j
                         IN  <<e[first], Len(w) + 1>>
      BY <2>1, <2>3, <3>1, GetenvIs, Zenon
    <3> QED
      BY <3>2, <3>3 DEF w, e
  <2> QED
    BY <2>5, <2>6, <2>7, <2>8 DEF StartArrives, a, e, s
<1>2. StartInv /\ LastInv => StartArrives
  BY <1>1 DEF StartArrives
<1> QED
  BY <1>2, CallInvariance, PTL

-----------------------------------------------------------------------------
(* Numbers out and in.                                                     *)

\* The characters of s show the figures d; and they are those of n.
Figured(s, b, upper, d) ==
  \A k \in 1 .. Len(s) : d[k] \in 0 .. b - 1 /\ s[k] = DigitChar(d[k], upper)
Spells(s, b, upper, n) ==
  /\ s \in Seq(Nat)
  /\ \E d, f : Figured(s, b, upper, d) /\ Chain(f, b, d, Len(s)) /\ f[Len(s)] = n

\* Figures are shown by characters.
LEMMA DigitCharIs ==
  ASSUME NEW d \in 0 .. 15, NEW upper
  PROVE  DigitChar(d, upper) \in Nat
BY DEF DigitChar, Zero

\* No character shows two figures.
LEMMA DigitCharOnce ==
  ASSUME NEW d \in 0 .. 15, NEW e \in 0 .. 15, NEW upper,
         DigitChar(d, upper) = DigitChar(e, upper)
  PROVE  d = e
BY DEF DigitChar, Zero

\* No figures are those of 0.
LEMMA SpellsNothing == ASSUME NEW b \in Nat, NEW upper PROVE Spells(<<>>, b, upper, 0)
<1> DEFINE f == [k \in 0 .. 0 |-> 0]
<1>1. Chain(f, b, <<>>, 0)
  BY DEF Chain, Links
<1>2. Len(<<>>) = 0 /\ <<>> \in Seq(Nat) /\ Figured(<<>>, b, upper, <<>>) /\ f[0] = 0
  BY DEF Figured
<1> QED
  BY <1>1, <1>2 DEF Spells

\* One figure more.
LEMMA SpellsMore ==
  ASSUME NEW b \in {10, 16}, NEW upper, NEW s, NEW n \in Int, NEW r \in 0 .. b - 1,
         Spells(s, b, upper, n)
  PROVE  Spells(Append(s, DigitChar(r, upper)), b, upper, b * n + r)
<1> DEFINE l == Len(s)
           c == DigitChar(r, upper)
           t == Append(s, c)
<1>1. PICK d, f : Figured(s, b, upper, d) /\ Chain(f, b, d, l) /\ f[l] = n
  BY DEF Spells
<1>2. s \in Seq(Nat) /\ l \in Nat
  BY DEF Spells
<1>3. c \in Nat
  BY DigitCharIs
<1> HIDE DEF c
<1>4. t \in Seq(Nat) /\ Len(t) = l + 1 /\ t[l + 1] = c /\ \A k \in 1 .. l : t[k] = s[k]
  BY <1>2, <1>3, AppendProperties
<1> DEFINE m == b * n + r
<1>5. m \in Int /\ b \in Int
  OBVIOUS
<1> HIDE DEF m
<1> DEFINE e == [k \in 1 .. l + 1 |-> IF k = l + 1 THEN r ELSE d[k]]
           g == [k \in 0 .. l + 1 |-> IF k = l + 1 THEN m ELSE f[k]]
<1>6. /\ e[l + 1] = r /\ \A k \in 1 .. l : e[k] = d[k]
      /\ g[l + 1] = m /\ \A k \in 0 .. l : g[k] = f[k]
      /\ g \in [0 .. l + 1 -> Int]
  <2>1. \A k \in 0 .. l + 1 : k # l + 1 => k \in 0 .. l
    BY <1>2
  <2>2. \A k \in 1 .. l : k \in 1 .. l + 1 /\ k # l + 1
    BY <1>2
  <2>3. \A k \in 0 .. l : k \in 0 .. l + 1 /\ k # l + 1
    BY <1>2
  <2>4. l + 1 \in 1 .. l + 1 /\ l + 1 \in 0 .. l + 1
    BY <1>2
  <2>5. \A k \in 0 .. l : f[k] \in Int
    BY <1>1 DEF Chain
  <2> HIDE DEF l
  <2> QED
    BY <1>5, <2>1, <2>2, <2>3, <2>4, <2>5
<1> HIDE DEF e, g
<1>7. Figured(t, b, upper, e)
  <2>1. \A k \in 1 .. l + 1 : k # l + 1 => k \in 1 .. l
    BY <1>2
  <2>2. \A k \in 1 .. l : d[k] \in 0 .. b - 1 /\ s[k] = DigitChar(d[k], upper)
    BY <1>1 DEF Figured
  <2> HIDE DEF t, l
  <2> QED
    BY <1>4, <1>6, <2>1, <2>2 DEF Figured, c
<1>8. Chain(g, b, e, l + 1)
  <2>1. ASSUME NEW k \in 1 .. l + 1 PROVE g[k] = b * g[k - 1] + e[k]
    <3>1. CASE k = l + 1
      <4>1. k - 1 = l /\ l \in 0 .. l
        BY <1>2, <3>1
      <4>2. g[k - 1] = n
        BY <1>1, <1>6, <4>1
      <4> QED
        BY <1>6, <3>1, <4>2 DEF m
    <3>2. CASE k # l + 1
      <4>1. k \in 1 .. l /\ k \in 0 .. l /\ k - 1 \in 0 .. l
        BY <1>2, <3>2
      <4> QED
        BY <1>1, <1>6, <4>1 DEF Chain, Links
    <3> QED
      BY <3>1, <3>2
  <2>2. g[0] = 0
    <3>1. 0 \in 0 .. l
      BY <1>2
    <3> QED
      BY <1>1, <1>6, <3>1 DEF Chain, Links
  <2> QED
    BY <1>6, <2>1, <2>2 DEF Chain, Links
<1> QED
  <2> HIDE DEF t
  <2>1. g[Len(t)] = m /\ Chain(g, b, e, Len(t))
    BY <1>4, <1>6, <1>8
  <2> QED
    BY <1>4, <1>7, <2>1 DEF Spells, t, c, m

\* Zeros in front change nothing.
LEMMA SpellsZeros ==
  ASSUME NEW b \in {10, 16}, NEW upper, NEW s, NEW n, NEW p \in Nat,
         Spells(s, b, upper, n)
  PROVE  Spells([k \in 1 .. p |-> Zero] \o s, b, upper, n)
<1> DEFINE l == Len(s)
           z == [k \in 1 .. p |-> Zero]
           t == z \o s
<1>1. PICK d, f : Figured(s, b, upper, d) /\ Chain(f, b, d, l) /\ f[l] = n
  BY DEF Spells
<1>2. s \in Seq(Nat) /\ l \in Nat
  BY DEF Spells
<1>3. z \in Seq(Nat) /\ Len(z) = p /\ \A k \in 1 .. p : z[k] = 48
  BY DEF Zero
<1> HIDE DEF z
<1>4. /\ t \in Seq(Nat) /\ Len(t) = p + l
      /\ \A k \in 1 .. p + l : t[k] = IF k <= p THEN 48 ELSE s[k - p]
  <2>1. /\ t \in Seq(Nat) /\ Len(t) = Len(z) + Len(s)
        /\ \A k \in 1 .. Len(z) + Len(s) : t[k] = IF k <= Len(z) THEN z[k] ELSE s[k - Len(z)]
    BY <1>2, <1>3, ConcatProperties
  <2>2. \A k \in 1 .. p + l : k <= p => k \in 1 .. p
    BY <1>2
  <2> HIDE DEF t
  <2> QED
    BY <1>3, <2>1, <2>2
<1> HIDE DEF t
<1> DEFINE e == [k \in 1 .. p + l |-> IF k <= p THEN 0 ELSE d[k - p]]
           g == [k \in 0 .. p + l |-> IF k <= p THEN 0 ELSE f[k - p]]
<1>5. \A k \in 0 .. l : f[k] \in Int
  BY <1>1 DEF Chain
<1>6. \A k \in 0 .. p + l : k > p => k - p \in 1 .. l /\ k - p \in 0 .. l
  BY <1>2
<1>7. g \in [0 .. p + l -> Int]
  <2> HIDE DEF l
  <2> QED
    BY <1>5, <1>6
<1>8. /\ \A k \in 1 .. p + l : e[k] = IF k <= p THEN 0 ELSE d[k - p]
      /\ \A k \in 0 .. p + l : g[k] = IF k <= p THEN 0 ELSE f[k - p]
  OBVIOUS
<1> HIDE DEF e, g
<1>9. Figured(t, b, upper, e)
  <2>1. \A k \in 1 .. l : d[k] \in 0 .. b - 1 /\ s[k] = DigitChar(d[k], upper)
    BY <1>1 DEF Figured
  <2>2. DigitChar(0, upper) = 48
    BY DEF DigitChar, Zero
  <2> SUFFICES ASSUME NEW k \in 1 .. p + l
               PROVE  e[k] \in 0 .. b - 1 /\ t[k] = DigitChar(e[k], upper)
    BY <1>4 DEF Figured
  <2>3. CASE k <= p
    BY <1>4, <1>8, <2>2, <2>3
  <2>4. CASE ~(k <= p)
    <3>1. k - p \in 1 .. l
      BY <1>2, <2>4
    <3> HIDE DEF l
    <3> QED
      BY <1>4, <1>8, <2>1, <2>4, <3>1
  <2> QED
    BY <2>3, <2>4
<1>10. Chain(g, b, e, p + l)
  <2>1. f[0] = 0 /\ \A k \in 1 .. l : f[k] = b * f[k - 1] + d[k]
    BY <1>1 DEF Chain, Links
  <2>2. ASSUME NEW k \in 1 .. p + l PROVE g[k] = b * g[k - 1] + e[k]
    <3>1. k \in 0 .. p + l /\ k - 1 \in 0 .. p + l
      BY <1>2
    <3>2. CASE k <= p
      BY <1>8, <3>1, <3>2
    <3>3. CASE ~(k <= p)
      <4>1. k - p \in 1 .. l /\ (k - p) - 1 = (k - 1) - p
        BY <1>2, <3>3
      <4>2. g[k - 1] = f[(k - p) - 1]
        <5>1. CASE k - 1 <= p
          <6>1. (k - p) - 1 = 0
            BY <3>3, <5>1
          <6> QED
            BY <1>8, <2>1, <3>1, <5>1, <6>1
        <5>2. CASE ~(k - 1 <= p)
          BY <1>8, <3>1, <4>1, <5>2
        <5> QED
          BY <5>1, <5>2
      <4> QED
        BY <1>8, <2>1, <3>1, <3>3, <4>1, <4>2
    <3> QED
      BY <3>2, <3>3
  <2>3. g[0] = 0
    BY <1>2, <1>8
  <2> QED
    BY <1>7, <2>2, <2>3 DEF Chain, Links
<1>11. g[Len(t)] = n
  <2>1. p + l \in 0 .. p + l /\ (p + l) - p = l
    BY <1>2
  <2>2. p + l <= p => l = 0
    BY <1>2
  <2>3. f[0] = 0
    BY <1>1 DEF Chain, Links
  <2> HIDE DEF l
  <2> QED
    BY <1>1, <1>4, <1>8, <2>1, <2>2, <2>3
<1> QED
  <2>1. Chain(g, b, e, Len(t))
    BY <1>4, <1>10
  <2> QED
    BY <1>4, <1>9, <1>11, <2>1 DEF Spells, t, z

-----------------------------------------------------------------------------
(* Out.                                                                    *)

\* What is left of a number without its last figure.
LEMMA Shorter ==
  ASSUME NEW n \in Nat, NEW base \in {10, 16}, ~(n < base)
  PROVE  /\ n \div base \in 0 .. n - 1 /\ n % base \in 0 .. base - 1
         /\ n = base * (n \div base) + (n % base)
<1>1. n \div base \in 0 .. n - 1 /\ n % base \in 0 .. base - 1
  <2>1. CASE base = 10
    BY <2>1
  <2>2. CASE base = 16
    BY <2>2
  <2> QED
    BY <2>1, <2>2
<1>2. n = base * (n \div base) + (n % base)
  <2>1. n = 10 * (n \div 10) + (n % 10) /\ n = 16 * (n \div 16) + (n % 16)
    OBVIOUS
  <2>2. CASE base = 10
    BY <2>1, <2>2, Zenon
  <2>3. CASE base = 16
    BY <2>1, <2>3, Zenon
  <2>4. base = 10 \/ base = 16
    OBVIOUS
  <2> QED
    BY <2>2, <2>3, <2>4
<1> QED
  BY <1>1, <1>2

\* A number's digits spell it.
LEMMA DigitsSpell ==
  ASSUME NEW base \in {10, 16}, NEW upper, NEW v \in Nat
  PROVE  Digits(v, base, upper) # <<>> /\ Spells(Digits(v, base, upper), base, upper, v)
<1> DEFINE S == Seq(Nat)
           Step(n, h) == IF n < base THEN <<DigitChar(n, upper)>>
                         ELSE Append(h[n \div base], DigitChar(n % base, upper))
           G == [n \in Nat |-> [h \in [0 .. n - 1 -> S] |-> Step(n, h)]]
<1>1. ASSUME NEW n \in Nat, NEW h \in [0 .. n - 1 -> S] PROVE Step(n, h) \in S
  <2>1. CASE n < base
    <3>1. DigitChar(n, upper) \in Nat
      <4>1. n \in 0 .. 15
        BY <2>1
      <4> QED
        BY <4>1, DigitCharIs
    <3> DEFINE c == DigitChar(n, upper)
    <3> HIDE DEF c
    <3>2. <<c>> \in S
      BY <3>1 DEF c
    <3> QED
      BY <2>1, <3>2 DEF c
  <2>2. CASE ~(n < base)
    <3>1. n \div base \in 0 .. n - 1 /\ n % base \in 0 .. base - 1
      BY <2>2, Shorter
    <3> DEFINE r == n % base
               s == h[n \div base]
               c == DigitChar(r, upper)
    <3>2. r \in 0 .. 15 /\ s \in S
      BY <3>1
    <3> HIDE DEF r
    <3>3. c \in Nat
      BY <3>2, DigitCharIs
    <3> HIDE DEF s, c
    <3>4. Append(s, c) \in S
      BY <3>2, <3>3, AppendProperties
    <3> QED
      BY <2>2, <3>4 DEF s, c, r
  <2> QED
    BY <2>1, <2>2
<1>2. IsStep(G, S)
  <2> SUFFICES ASSUME NEW n \in Nat PROVE G[n] \in [[0 .. n - 1 -> S] -> S]
    BY DEF IsStep
  <2>1. G[n] = [h \in [0 .. n - 1 -> S] |-> Step(n, h)]
    OBVIOUS
  <2> HIDE DEF Step, G
  <2> QED
    BY <1>1, <2>1
<1>3. ASSUME NEW n \in Nat, NEW h \in [0 .. n - 1 -> S] PROVE G[n][h] = Step(n, h)
  OBVIOUS
<1> HIDE DEF G
<1>4. PICK f : Made(f, G, S)
  BY <1>2, Recursion
<1>5. ASSUME NEW n \in Nat, NEW h PROVE Step(n, Before(h, n)) = Step(n, h)
  <2>1. ~(n < base) => Before(h, n)[n \div base] = h[n \div base]
    BY Shorter DEF Before
  <2> QED
    BY <2>1
<1>6. ASSUME NEW n \in Nat PROVE f[n] = Step(n, f)
  <2>1. Before(f, n) \in [0 .. n - 1 -> S]
    BY <1>4 DEF Before, Made
  <2> QED
    BY <1>3, <1>4, <1>5, <2>1 DEF Made
<1>7. f = [n \in Nat |-> Step(n, f)]
  <2>1. f = [n \in Nat |-> f[n]]
    BY <1>4 DEF Made
  <2> QED
    BY <1>6, <2>1
<1> DEFINE tmp[n \in Nat] ==
             IF n < base THEN <<DigitChar(n, upper)>>
             ELSE Append(tmp[n \div base], DigitChar(n % base, upper))
<1>8. tmp = [n \in Nat |-> IF n < base THEN <<DigitChar(n, upper)>>
                           ELSE Append(tmp[n \div base], DigitChar(n % base, upper))]
  BY <1>7, Zenon
<1>9. Digits(v, base, upper) = tmp[v]
  BY Zenon DEF Digits
<1> HIDE DEF tmp
<1>10. \A n \in Nat : tmp[n] = Step(n, tmp)
  BY <1>8
<1> HIDE DEF Step
<1> DEFINE Right(n) == tmp[n] # <<>> /\ Spells(tmp[n], base, upper, n)
           T == {n \in Nat : ~Right(n)}
<1>11. T \subseteq Nat /\ \A n : n \in T <=> n \in Nat /\ ~Right(n)
  OBVIOUS
<1> HIDE DEF T
<1>12. ASSUME T # {} PROVE FALSE
  <2>1. PICK n \in T : \A y \in T : n <= y
    BY <1>11, <1>12, LeastIs
  <2>2. n \in Nat /\ ~Right(n)
    BY <1>11
  <2>3. CASE n < base
    <3>1. n \in 0 .. base - 1 /\ base \in Nat
      BY <2>2, <2>3
    <3> DEFINE c == DigitChar(n, upper)
    <3>2. tmp[n] = <<c>>
      BY <1>10, <2>2, <2>3 DEF Step
    <3>3. Spells(<<>>, base, upper, 0)
      BY <3>1, SpellsNothing
    <3>4. Spells(Append(<<>>, c), base, upper, base * 0 + n)
      <4>1. 0 \in Int
        OBVIOUS
      <4> QED
        BY <3>1, <3>3, <4>1, SpellsMore, Zenon
    <3>5. base * 0 + n = n
      BY <2>2, <3>1
    <3> HIDE DEF c
    <3>6. Append(<<>>, c) = <<c>> /\ <<c>> # <<>>
      OBVIOUS
    <3>7. Right(n)
      BY <3>2, <3>4, <3>5, <3>6
    <3> QED
      BY <2>2, <3>7
  <2>4. CASE ~(n < base)
    <3> DEFINE q == n \div base
               r == n % base
    <3>1. q \in 0 .. n - 1 /\ r \in 0 .. base - 1 /\ n = base * q + r
      BY <2>2, <2>4, Shorter
    <3>2. tmp[n] = Append(tmp[q], DigitChar(r, upper))
      BY <1>10, <2>2, <2>4 DEF Step
    <3> HIDE DEF q, r
    <3>3. q \in Nat /\ ~(n <= q)
      BY <2>2, <3>1
    <3>4. Right(q)
      BY <1>11, <2>1, <3>3
    <3> HIDE DEF Right
    <3>5. Spells(tmp[q], base, upper, q)
      BY <3>4 DEF Right
    <3>6. Spells(Append(tmp[q], DigitChar(r, upper)), base, upper, base * q + r)
      <4>1. q \in Int
        BY <3>3
      <4> QED
        BY <3>1, <3>5, <4>1, SpellsMore, Zenon
    <3>7. Spells(tmp[n], base, upper, n)
      BY <3>1, <3>2, <3>6, Zenon
    <3>8. tmp[n] # <<>>
      <4> DEFINE s == tmp[q]
                 c == DigitChar(r, upper)
      <4>1. s \in Seq(Nat) /\ c \in Nat
        <5>1. r \in 0 .. 15
          BY <3>1
        <5> QED
          BY <3>5, <5>1, DigitCharIs DEF Spells
      <4> HIDE DEF s, c
      <4>2. Append(s, c) # <<>>
        BY <4>1, AppendProperties
      <4> QED
        BY <3>2, <4>2 DEF s, c
    <3> QED
      BY <2>2, <3>7, <3>8 DEF Right
  <2> QED
    BY <2>3, <2>4
<1>13. Right(v)
  BY <1>11, <1>12
<1> QED
  BY <1>9, <1>13

-----------------------------------------------------------------------------
(* In.                                                                     *)

\* What Past looks for.
IsPast(s, k, set, m) ==
  /\ m \in k .. Len(s) + 1
  /\ \A j \in k .. m - 1 : s[j] \in set
  /\ m <= Len(s) => s[m] \notin set

\* It finds it.
LEMMA PastIs ==
  ASSUME NEW s, Len(s) \in Nat, NEW k \in Nat, NEW set, NEW m, IsPast(s, k, set, m)
  PROVE  Past(s, k, set) = m
<1>1. ASSUME NEW a, NEW b, IsPast(s, k, set, a), IsPast(s, k, set, b) PROVE ~(a < b)
  BY <1>1 DEF IsPast
<1>2. ASSUME NEW a, NEW b, IsPast(s, k, set, a), IsPast(s, k, set, b) PROVE a = b
  <2>1. a \in Int /\ b \in Int
    BY <1>2 DEF IsPast
  <2>2. ~(a < b)
    BY <1>1, <1>2
  <2>3. ~(b < a)
    BY <1>1, <1>2
  <2> QED
    BY <2>1, <2>2, <2>3
<1>3. Past(s, k, set) = CHOOSE n : n \in k .. Len(s) + 1 /\ IsPast(s, k, set, n)
  BY DEF Past, IsPast
<1>4. IsPast(s, k, set, Past(s, k, set))
  BY <1>3 DEF IsPast
<1> QED
  BY <1>2, <1>4

\* A number in a type is that number and something the type has no place for.
LEMMA SignedIs ==
  ASSUME NEW V \in Nat \ {0}, NEW x \in Int
  PROVE  Signed(x, V) \in Int /\ \E q \in Int : Signed(x, V) = x + V * q
<1> DEFINE H == V \div 2
           r == (x + H) % V
           e == (x + H) \div V
<1>1. H \in Int
  OBVIOUS
<1>2. x + H \in Int
  BY <1>1
<1>3. r \in 0 .. V - 1 /\ e \in Int /\ x + H = V * e + r
  BY <1>2
<1>4. Signed(x, V) = r - H
  BY DEF Signed
<1> HIDE DEF H, r, e
<1> DEFINE q == -e
<1>5. q \in Int /\ V * q = -(V * e)
  BY <1>3
<1> HIDE DEF q
<1>6. V * e \in Int
  BY <1>3
<1>7. r - H = x + V * q /\ r - H \in Int
  BY <1>1, <1>3, <1>5, <1>6
<1> QED
  BY <1>4, <1>5, <1>7

\* What it has no place for does not matter.
LEMMA SignedAlike ==
  ASSUME NEW V \in Nat \ {0}, NEW x \in Int, NEW q \in Int
  PROVE  Signed(x + V * q, V) = Signed(x, V)
<1> DEFINE H == V \div 2
           r == (x + H) % V
           e == (x + H) \div V
<1>1. H \in Int
  OBVIOUS
<1>2. x + H \in Int
  BY <1>1
<1>3. r \in 0 .. V - 1 /\ e \in Int /\ x + H = V * e + r
  BY <1>2
<1> HIDE DEF H, r, e
<1> DEFINE k == e + q
<1>4. k \in Int /\ V * k = V * e + V * q
  BY <1>3
<1> HIDE DEF k
<1>5. (r + V * k) % V = r
  BY <1>3, <1>4, ModIs
<1>6. V * q \in Int /\ V * e \in Int
  BY <1>3
<1>7. (x + V * q) + H = r + V * k
  BY <1>1, <1>3, <1>4, <1>6
<1>8. ((x + V * q) + H) % V = r
  BY <1>5, <1>7
<1> QED
  BY <1>8 DEF Signed, H, r

\* So a number can be read figure by figure, each time as the type has it.
LEMMA SignedStep ==
  ASSUME NEW V \in Nat \ {0}, NEW x \in Int, NEW c \in Int
  PROVE  Signed(Signed(x, V) * 10 + c, V) = Signed(10 * x + c, V)
<1>1. PICK q \in Int : Signed(x, V) = x + V * q
  BY SignedIs
<1> DEFINE p == 10 * q
           y == 10 * x + c
<1>2. p \in Int /\ V * p = 10 * (V * q) /\ V * q \in Int
  OBVIOUS
<1>3. y \in Int
  OBVIOUS
<1>4. (x + V * q) * 10 + c = y + V * p
  BY <1>2
<1> HIDE DEF p, y
<1>5. Signed(y + V * p, V) = Signed(y, V)
  BY <1>2, <1>3, SignedAlike, Zenon
<1> QED
  BY <1>1, <1>4, <1>5 DEF y

\* Nor does it matter how often a number is put in its type, and when it is negated.
LEMMA SignedTwice ==
  ASSUME NEW V \in Nat \ {0}, NEW x \in Int
  PROVE  Signed(Signed(x, V), V) = Signed(x, V) /\ Signed(-Signed(x, V), V) = Signed(-x, V)
<1>1. PICK q \in Int : Signed(x, V) = x + V * q
  BY SignedIs
<1>2. Signed(x + V * q, V) = Signed(x, V)
  BY SignedAlike, Zenon
<1> DEFINE p == -q
           y == -x
<1>3. p \in Int /\ y \in Int /\ V * p = -(V * q) /\ V * q \in Int
  OBVIOUS
<1>4. -(x + V * q) = y + V * p
  BY <1>3
<1> HIDE DEF p, y
<1>5. Signed(y + V * p, V) = Signed(y, V)
  BY <1>3, SignedAlike, Zenon
<1> QED
  BY <1>1, <1>2, <1>4, <1>5 DEF y

\* Zero is zero in any type.
LEMMA SignedZero == ASSUME NEW V \in Nat \ {0} PROVE Signed(0, V) = 0
<1> DEFINE H == V \div 2
<1>1. H \in 0 .. V - 1
  OBVIOUS
<1> HIDE DEF H
<1>2. H % V = H
  BY <1>1, ModSame
<1>3. 0 + H = H
  BY <1>1
<1> QED
  BY <1>1, <1>2, <1>3 DEF Signed, H

-----------------------------------------------------------------------------

\* b blanks, g signs, the figures t, and no figure behind them.
Numeral(s, b, g, t) ==
  /\ Len(s) \in Nat /\ b \in Nat /\ g \in {0, 1} /\ b + g + Len(t) <= Len(s)
  /\ \A k \in 1 .. b : s[k] \in Spaces
  /\ g = 1 => s[b + 1] \in {Minus, Plus}
  /\ \A k \in 1 .. Len(t) : s[b + g + k] = t[k]
  /\ b + g + Len(t) < Len(s) => s[b + g + Len(t) + 1] \notin DecimalDigits
  /\ g = 1 \/ Len(t) >= 1

\* A function that goes by the last value it had, in a type of V values.
Horners(v, s, from, to, V) ==
  v = [k \in 0 .. to |-> IF k < from THEN 0 ELSE Signed(v[k - 1] * 10 + (s[k] - Zero), V)]

\* It is the one that has every prefix of the figures.
LEMMA HornersIs ==
  ASSUME NEW V \in Nat \ {0}, NEW s, NEW m \in Nat, NEW l \in Nat, NEW d, NEW f,
         \A k \in 1 .. l : d[k] \in Int /\ s[m + k] = 48 + d[k],
         Chain(f, 10, d, l)
  PROVE  /\ \E v : Horners(v, s, m + 1, m + l, V)
         /\ \A v : Horners(v, s, m + 1, m + l, V) => v[m + l] = Signed(f[l], V)
<1> DEFINE w == [k \in 0 .. m + l |-> IF k < m + 1 THEN 0 ELSE Signed(f[k - m], V)]
<1>1. f[0] = 0 /\ \A k \in 0 .. l : f[k] \in Int
  BY DEF Chain, Links
<1>2. \A k \in 1 .. l : f[k] = 10 * f[k - 1] + d[k]
  BY DEF Chain, Links
<1>3. ASSUME NEW k \in 0 .. l PROVE w[m + k] = Signed(f[k], V)
  <2>1. m + k \in 0 .. m + l /\ (m + k) - m = k
    OBVIOUS
  <2>2. CASE k = 0
    <3>1. w[m + k] = 0
      BY <2>1, <2>2
    <3> QED
      BY <1>1, <2>2, <3>1, SignedZero
  <2>3. CASE k # 0
    BY <2>1, <2>3
  <2> QED
    BY <2>2, <2>3
<1>4. w = [k \in 0 .. m + l |-> w[k]] /\ \A k \in 0 .. m + l : k < m + 1 => w[k] = 0
  OBVIOUS
<1> HIDE DEF w
<1>5. ASSUME NEW k \in 0 .. m + l, ~(k < m + 1)
      PROVE  w[k] = Signed(w[k - 1] * 10 + (s[k] - Zero), V)
  <2> DEFINE j == k - m
  <2>1. j \in 1 .. l /\ j \in 0 .. l /\ j - 1 \in 0 .. l /\ k = m + j /\ k - 1 = m + (j - 1)
    BY <1>5
  <2> HIDE DEF j
  <2> DEFINE i == j - 1
             x == f[i]
             c == d[j]
  <2>2. i \in 0 .. l /\ k - 1 = m + i
    BY <2>1
  <2>3. f[j] = 10 * x + c
    BY <1>2, <2>1
  <2> HIDE DEF i
  <2>4. w[k - 1] = Signed(x, V) /\ w[k] = Signed(f[j], V)
    BY <1>3, <2>1, <2>2
  <2>5. c \in Int /\ s[k] - Zero = c
    <3>1. c \in Int /\ s[k] = 48 + c
      BY <2>1
    <3> HIDE DEF c
    <3> QED
      BY <3>1 DEF Zero
  <2>6. x \in Int
    BY <1>1, <2>2
  <2> HIDE DEF x, c
  <2>7. Signed(Signed(x, V) * 10 + c, V) = Signed(10 * x + c, V)
    BY <2>5, <2>6, SignedStep, Zenon
  <2> QED
    BY <2>3, <2>4, <2>5, <2>7
<1>6. Horners(w, s, m + 1, m + l, V)
  <2>1. \A k \in 0 .. m + l :
          w[k] = IF k < m + 1 THEN 0 ELSE Signed(w[k - 1] * 10 + (s[k] - Zero), V)
    BY <1>4, <1>5
  <2> QED
    BY <1>4, <2>1 DEF Horners
<1>7. ASSUME NEW v, Horners(v, s, m + 1, m + l, V) PROVE v[m + l] = Signed(f[l], V)
  <2> DEFINE T == {k \in 0 .. m + l : v[k] # w[k]}
  <2>1. T \subseteq Nat /\ \A k : k \in T <=> k \in 0 .. m + l /\ v[k] # w[k]
    OBVIOUS
  <2> HIDE DEF T
  <2>2. \A k \in 0 .. m + l :
          v[k] = IF k < m + 1 THEN 0 ELSE Signed(v[k - 1] * 10 + (s[k] - Zero), V)
    BY <1>7 DEF Horners
  <2>3. ASSUME T # {} PROVE FALSE
    <3>1. PICK k \in T : \A y \in T : k <= y
      BY <2>1, <2>3, LeastIs
    <3>2. k \in 0 .. m + l /\ v[k] # w[k]
      BY <2>1
    <3>3. ~(k < m + 1)
      BY <1>4, <2>2, <3>2
    <3>4. k - 1 \in 0 .. m + l /\ ~(k <= k - 1)
      BY <3>2, <3>3
    <3>5. v[k - 1] = w[k - 1]
      BY <2>1, <3>1, <3>4
    <3>6. v[k] = Signed(v[k - 1] * 10 + (s[k] - Zero), V)
      BY <2>2, <3>2, <3>3
    <3>7. w[k] = Signed(w[k - 1] * 10 + (s[k] - Zero), V)
      BY <1>5, <3>2, <3>3
    <3> QED
      BY <3>2, <3>5, <3>6, <3>7
  <2>4. m + l \in 0 .. m + l
    OBVIOUS
  <2>5. v[m + l] = w[m + l]
    BY <2>1, <2>3, <2>4
  <2>6. l \in 0 .. l
    OBVIOUS
  <2> QED
    BY <1>3, <2>5, <2>6
<1> QED
  BY <1>6, <1>7

\* atoi and atol read the number that is there.
LEMMA AtoIs ==
  ASSUME NEW V \in Nat \ {0}, NEW s, NEW b, NEW g, NEW t, Numeral(s, b, g, t),
         NEW n \in Nat, Spells(t, 10, FALSE, n)
  PROVE  Ato(s, V) = Signed(IF g = 1 /\ s[b + 1] = Minus THEN -n ELSE n, V)
<1> DEFINE l == Len(t)
           m == b + g
<1>1. PICK d, f : Figured(t, 10, FALSE, d) /\ Chain(f, 10, d, l) /\ f[l] = n
  BY DEF Spells
<1>2. l \in Nat
  BY DEF Spells
<1>3. /\ Len(s) \in Nat /\ b \in Nat /\ g \in {0, 1} /\ m + l <= Len(s)
      /\ \A k \in 1 .. b : s[k] \in Spaces
      /\ g = 1 => s[b + 1] \in {45, 43}
      /\ \A k \in 1 .. l : s[m + k] = t[k]
      /\ m + l < Len(s) => s[m + l + 1] \notin DecimalDigits
      /\ g = 1 \/ l >= 1
  BY DEF Numeral, Minus, Plus
<1>4. \A k \in 1 .. l : d[k] \in Int /\ t[k] = 48 + d[k] /\ t[k] \in 48 .. 57
  <2>1. \A k \in 1 .. l : d[k] \in 0 .. 10 - 1 /\ t[k] = DigitChar(d[k], FALSE)
    BY <1>1 DEF Figured
  <2> HIDE DEF l
  <2> QED
    BY <2>1 DEF DigitChar, Zero
<1> HIDE DEF l
<1>5. \A k \in 1 .. l : d[k] \in Int /\ s[m + k] = 48 + d[k] /\ s[m + k] \in 48 .. 57
  BY <1>3, <1>4
<1>6. m \in Nat
  BY <1>3
<1>7. g = 0 => m = b
  BY <1>3
<1>8. g = 1 => m = b + 1
  BY <1>3
<1> HIDE DEF m
<1> DEFINE sign == Past(s, 1, Spaces)
           neg == sign <= Len(s) /\ s[sign] = Minus
           first == IF sign <= Len(s) /\ s[sign] \in {Minus, Plus} THEN sign + 1 ELSE sign
           end == Past(s, first, DecimalDigits)
           v[k \in 0 .. end - 1] ==
             IF k < first THEN 0 ELSE Signed(v[k - 1] * 10 + (s[k] - Zero), V)
<1>9. b + 1 <= Len(s)
  BY <1>2, <1>3, <1>7, <1>8
<1>10. g = 0 => s[b + 1] \in 48 .. 57
  <2>1. g = 0 => 1 \in 1 .. l
    BY <1>2, <1>3
  <2> QED
    BY <1>5, <1>7, <2>1
<1>11. sign = b + 1
  <2>1. s[b + 1] \notin Spaces
    <3> DEFINE c == s[b + 1]
    <3>1. c \in {45, 43} \/ c \in 48 .. 57
      BY <1>3, <1>10
    <3> HIDE DEF c
    <3>2. c \notin Spaces
      BY <3>1 DEF Spaces
    <3> QED
      BY <3>2 DEF c
  <2>2. IsPast(s, 1, Spaces, b + 1)
    BY <1>3, <1>9, <2>1 DEF IsPast
  <2>3. 1 \in Nat /\ Len(s) \in Nat
    BY <1>3
  <2> QED
    BY <2>2, <2>3, PastIs, Zenon
<1>12. neg <=> g = 1 /\ s[b + 1] = Minus
  BY <1>3, <1>9, <1>10, <1>11 DEF Minus
<1>13. first = m + 1
  BY <1>3, <1>7, <1>8, <1>9, <1>10, <1>11 DEF Minus, Plus
<1>14. end = m + l + 1
  <2>1. \A j \in m + 1 .. m + l : s[j] \in DecimalDigits
    <3>1. \A j \in m + 1 .. m + l : j - m \in 1 .. l /\ m + (j - m) = j
      BY <1>2, <1>6
    <3> QED
      BY <1>5, <3>1 DEF DecimalDigits
  <2>2. /\ m + l + 1 \in m + 1 .. Len(s) + 1 /\ (m + l + 1) - 1 = m + l
        /\ m + l + 1 <= Len(s) => m + l < Len(s)
    BY <1>2, <1>3, <1>6
  <2>3. IsPast(s, m + 1, DecimalDigits, m + l + 1)
    BY <1>3, <2>1, <2>2 DEF IsPast
  <2>4. m + 1 \in Nat /\ Len(s) \in Nat
    BY <1>3, <1>6
  <2> HIDE DEF first
  <2> QED
    BY <1>13, <2>3, <2>4, PastIs, Zenon
<1>15. end - 1 = m + l
  <2> HIDE DEF end
  <2> QED
    BY <1>2, <1>6, <1>14
<1>16. Ato(s, V) = Signed(IF neg THEN -v[end - 1] ELSE v[end - 1], V)
  BY Zenon DEF Ato
<1> HIDE DEF sign, neg, first, end
<1>17. /\ \E w : Horners(w, s, m + 1, m + l, V)
       /\ \A w : Horners(w, s, m + 1, m + l, V) => w[m + l] = Signed(n, V)
  BY <1>1, <1>2, <1>5, <1>6, HornersIs
<1>18. \E w : w = [k \in 0 .. end - 1 |->
                    IF k < first THEN 0 ELSE Signed(w[k - 1] * 10 + (s[k] - Zero), V)]
  BY <1>13, <1>15, <1>17 DEF Horners
<1>19. v = [k \in 0 .. end - 1 |->
              IF k < first THEN 0 ELSE Signed(v[k - 1] * 10 + (s[k] - Zero), V)]
  BY <1>18, Zenon
<1> HIDE DEF v
<1>20. v[end - 1] = Signed(n, V)
  <2>1. Horners(v, s, m + 1, m + l, V)
    BY <1>13, <1>15, <1>19 DEF Horners
  <2> QED
    BY <1>15, <1>17, <2>1
<1>21. Signed(Signed(n, V), V) = Signed(n, V) /\ Signed(-Signed(n, V), V) = Signed(-n, V)
  BY SignedTwice
<1> QED
  BY <1>12, <1>16, <1>20, <1>21

-----------------------------------------------------------------------------

\* z is x and then y.
Joined(x, y, z) ==
  /\ z \in Seq(Nat) /\ Len(z) = Len(x) + Len(y)
  /\ \A k \in 1 .. Len(x) + Len(y) : z[k] = IF k <= Len(x) THEN x[k] ELSE y[k - Len(x)]

\* Sequences of characters join so.
LEMMA JoinedIs ==
  ASSUME NEW x \in Seq(Nat), NEW y \in Seq(Nat)
  PROVE  Joined(x, y, x \o y)
BY ConcatProperties DEF Joined

\* Three of them in either order.
LEMMA JoinedAlike ==
  ASSUME NEW x \in Seq(Nat), NEW y \in Seq(Nat), NEW z \in Seq(Nat)
  PROVE  (x \o y) \o z = x \o (y \o z)
BY Z3

Blanks(s) == s \in Seq(Nat) /\ \A k \in 1 .. Len(s) : s[k] \in Spaces
Signs == {<<>>, <<Minus>>, <<Plus>>}
Ends(s) == s \in Seq(Nat) /\ (Len(s) >= 1 => s[1] \notin DecimalDigits)
Decimal(s, n) == Spells(s, 10, FALSE, n)

\* Behind blanks and a sign, in front of what is no figure, a number is read.
LEMMA ReadBack ==
  ASSUME NEW V \in Nat \ {0}, NEW B, NEW G, NEW T, NEW R, NEW n \in Nat,
         Blanks(B), G \in Signs, Decimal(T, n), Ends(R), G # <<>> \/ T # <<>>
  PROVE  Ato(B \o (G \o (T \o R)), V) = Signed(IF G = <<Minus>> THEN -n ELSE n, V)
<1>1. /\ B \in Seq(Nat) /\ \A k \in 1 .. Len(B) : B[k] \in Spaces
      /\ G \in {<<>>, <<Minus>>, <<Plus>>}
      /\ Spells(T, 10, FALSE, n) /\ R \in Seq(Nat)
      /\ Len(R) >= 1 => R[1] \notin DecimalDigits
  BY Zenon DEF Blanks, Signs, Decimal, Ends
<1> DEFINE a == Len(B)
           g == Len(G)
           l == Len(T)
           r == Len(R)
           u == T \o R
           w == G \o u
           s == B \o w
<1>2. T \in Seq(Nat) /\ a \in Nat /\ l \in Nat /\ r \in Nat
  BY <1>1 DEF Spells
<1>3. G \in Seq(Nat) /\ g \in {0, 1} /\ (g = 1 => G[1] \in {Minus, Plus})
  <2>1. PICK x \in {<<>>, <<45>>, <<43>>} : x = G
    BY <1>1 DEF Minus, Plus
  <2>2. CASE x = <<>>
    BY <2>1, <2>2
  <2>3. CASE x # <<>>
    <3>1. PICK c \in {45, 43} : x = <<c>>
      BY <2>1, <2>3
    <3> QED
      BY <2>1, <3>1 DEF Minus, Plus
  <2> QED
    BY <2>2, <2>3
<1>4. g = 1 /\ G[1] = Minus <=> G = <<Minus>>
  <2>1. CASE G = <<>>
    BY <2>1
  <2>2. CASE G # <<>>
    <3>1. PICK c \in {Minus, Plus} : G = <<c>>
      BY <1>1, <2>2
    <3>2. g = 1 /\ G[1] = c
      BY <3>1
    <3> QED
      BY <3>1, <3>2
  <2> QED
    BY <2>1, <2>2
<1>5. /\ u \in Seq(Nat) /\ Len(u) = l + r
      /\ \A k \in 1 .. l + r : u[k] = IF k <= l THEN T[k] ELSE R[k - l]
  BY <1>1, <1>2, ConcatProperties
<1> HIDE DEF u
<1>6. Joined(G, u, w)
  BY <1>3, <1>5, JoinedIs, Zenon
<1> HIDE DEF w
<1>7. Joined(B, w, s)
  <2>1. w \in Seq(Nat)
    BY <1>6 DEF Joined
  <2> QED
    BY <1>1, <2>1, JoinedIs, Zenon
<1> HIDE DEF s, a, g, l, r
<1>8. Len(w) = g + Len(u) /\ \A k \in 1 .. g + Len(u) : w[k] = IF k <= g THEN G[k] ELSE u[k - g]
  BY <1>6 DEF Joined, g
<1>9. /\ Len(s) = a + Len(w) /\ s \in Seq(Nat)
       /\ \A k \in 1 .. a + Len(w) : s[k] = IF k <= a THEN B[k] ELSE w[k - a]
  BY <1>7 DEF Joined, a
<1>10. Len(s) = a + g + l + r /\ Len(w) = g + l + r
  BY <1>2, <1>3, <1>5, <1>8, <1>9
<1>11. ASSUME NEW k \in 1 .. a PROVE s[k] = B[k]
  <2>1. k \in 1 .. a + Len(w) /\ k <= a
    BY <1>2, <1>3, <1>10
  <2> QED
    BY <1>9, <2>1
<1>12. ASSUME NEW k \in 1 .. g + l + r PROVE s[a + k] = w[k]
  <2>1. a + k \in 1 .. a + Len(w) /\ ~(a + k <= a) /\ (a + k) - a = k
    BY <1>2, <1>3, <1>10
  <2> QED
    BY <1>9, <2>1
<1>13. ASSUME NEW k \in 1 .. l + r PROVE s[a + g + k] = u[k]
  <2> DEFINE j == g + k
  <2>1. j \in 1 .. g + l + r /\ a + g + k = a + j /\ ~(j <= g) /\ j - g = k
    BY <1>2, <1>3
  <2>2. j \in 1 .. g + Len(u)
    BY <1>2, <1>3, <1>5
  <2> HIDE DEF j
  <2> QED
    BY <1>8, <1>12, <2>1, <2>2
<1>14. Numeral(s, a, g, T)
  <2>1. Len(s) \in Nat /\ a \in Nat /\ g \in {0, 1} /\ a + g + l <= Len(s)
    BY <1>2, <1>3, <1>10
  <2>2. \A k \in 1 .. a : s[k] \in Spaces
    BY <1>1, <1>11 DEF a
  <2>3. g = 1 => s[a + 1] = G[1]
    <3>1. g = 1 => 1 \in 1 .. g + l + r /\ 1 \in 1 .. g + Len(u) /\ 1 <= g
      BY <1>2, <1>5
    <3> QED
      BY <1>8, <1>12, <3>1
  <2>4. \A k \in 1 .. l : s[a + g + k] = T[k]
    <3>1. \A k \in 1 .. l : k \in 1 .. l + r /\ k <= l
      BY <1>2
    <3> QED
      BY <1>5, <1>13, <3>1
  <2>5. a + g + l < Len(s) => s[a + g + l + 1] \notin DecimalDigits
    <3> SUFFICES ASSUME a + g + l < Len(s) PROVE s[a + g + l + 1] \notin DecimalDigits
      OBVIOUS
    <3> DEFINE k == l + 1
    <3>1. k \in 1 .. l + r /\ ~(k <= l) /\ k - l = 1 /\ a + g + l + 1 = a + g + k /\ r >= 1
      BY <1>2, <1>3, <1>10
    <3> HIDE DEF k
    <3>2. s[a + g + k] = R[1]
      BY <1>5, <1>13, <3>1
    <3> QED
      BY <1>1, <3>1, <3>2 DEF r
  <2>6. g = 1 \/ l >= 1
    <3>1. Len(G) = 0 => G = <<>>
      BY <1>3, EmptySeq
    <3>2. Len(T) = 0 => T = <<>>
      BY <1>2, EmptySeq
    <3> QED
      BY <1>2, <1>3, <3>1, <3>2 DEF g, l
  <2> QED
    BY <1>3, <2>1, <2>2, <2>3, <2>4, <2>5, <2>6 DEF Numeral, l
<1>15. g = 1 => s[a + 1] = G[1]
  <2>1. g = 1 => 1 \in 1 .. g + l + r /\ 1 \in 1 .. g + Len(u) /\ 1 <= g
    BY <1>2, <1>5
  <2> QED
    BY <1>8, <1>12, <2>1
<1>16. Ato(s, V) = Signed(IF g = 1 /\ s[a + 1] = Minus THEN -n ELSE n, V)
  BY <1>1, <1>14, AtoIs, Zenon
<1>17. g = 1 /\ s[a + 1] = Minus <=> G = <<Minus>>
  BY <1>4, <1>15
<1> QED
  BY <1>16, <1>17, Zenon DEF s, w, u

-----------------------------------------------------------------------------
(* The fields of printf.                                                   *)

Magnitude(v) == IF v < 0 THEN -v ELSE v
SignOf(v) == IF v < 0 THEN <<Minus>> ELSE <<>>
Padding(p, zero) == [k \in 1 .. p |-> IF zero THEN Zero ELSE Blank]
Room(width, l) == IF width > l THEN width - l ELSE 0

\* Both ways to negate a long come to its magnitude, that of the least one too.
LEMMA MagnitudeIs ==
  ASSUME NEW v \in Longs
  PROVE  /\ v \in Int /\ Magnitude(v) \in Nat /\ LongValues \in Nat \ {0}
         /\ Signed(v, LongValues) = v
         /\ v < 0 => /\ ToULong(ToULong(-(v + 1)) + 1) = Magnitude(v)
                     /\ ToULong(ToLong(-(v + 1) + 1)) = Magnitude(v)
         /\ ~(v < 0) => ToULong(v) = Magnitude(v)
<1>1. PICK h, k \in Nat : Sizes(h, k)
  BY Halves, Zenon
<1>2. /\ LongValues \in Nat \ {0} /\ k \in Nat \ {0} /\ LongValues = 2 * k
      /\ LongValues \div 2 = k /\ Halved(LongValues, k)
  BY <1>1 DEF Sizes, Halved
<1>3. v \in Int /\ -k <= v /\ v < k
  BY <1>2 DEF Longs
<1>4. Signed(v, LongValues) = v
  BY <1>2, <1>3, SignedSame
<1> DEFINE m == -v
<1>5. v < 0 => m \in 1 .. k
  BY <1>2, <1>3
<1>6. v < 0 => ToULong(ToULong(-(v + 1)) + 1) = m
  <2> SUFFICES ASSUME v < 0 PROVE ToULong(ToULong(-(v + 1)) + 1) = m
    OBVIOUS
  <2> DEFINE x == m - 1
  <2>1. -(v + 1) = x /\ x + 1 = m
    BY <1>3
  <2>2. x \in 0 .. LongValues - 1 /\ m \in 0 .. LongValues - 1
    BY <1>2, <1>5
  <2> HIDE DEF x, m
  <2>3. x % LongValues = x /\ m % LongValues = m
    BY <1>2, <2>2, ModSame
  <2> QED
    BY <2>1, <2>3 DEF ToULong
<1>7. v < 0 => ToULong(ToLong(-(v + 1) + 1)) = m
  <2> SUFFICES ASSUME v < 0 PROVE ToULong(ToLong(-(v + 1) + 1)) = m
    OBVIOUS
  <2>1. -(v + 1) + 1 = m
    BY <1>3
  <2>2. m \in 1 .. k
    BY <1>5
  <2> HIDE DEF m
  <2>3. CASE m < k
    <3>1. m \in Int /\ -k <= m /\ m \in 0 .. LongValues - 1
      BY <1>2, <2>2, <2>3
    <3>2. Signed(m, LongValues) = m
      BY <1>2, <2>3, <3>1, SignedSame
    <3>3. m % LongValues = m
      BY <1>2, <3>1, ModSame
    <3> QED
      BY <2>1, <3>2, <3>3 DEF ToULong, ToLong
  <2>4. CASE ~(m < k)
    <3>1. m = k
      BY <2>2, <2>4
    <3>2. 0 \in 0 .. LongValues - 1 /\ k \in 0 .. LongValues - 1
      BY <1>2
    <3>3. (0 + LongValues * 1) % LongValues = 0
      BY <1>2, <3>2, ModIs
    <3>4. (k + LongValues * (-1)) % LongValues = k
      BY <1>2, <3>2, ModIs
    <3>5. m + k = 0 + LongValues * 1 /\ 0 - k = k + LongValues * (-1)
      BY <1>2, <3>1
    <3>6. Signed(m, LongValues) = 0 - k
      BY <1>2, <3>3, <3>5 DEF Signed
    <3> QED
      BY <2>1, <3>1, <3>4, <3>5, <3>6 DEF ToULong, ToLong
  <2> QED
    BY <2>3, <2>4
<1>8. ~(v < 0) => ToULong(v) = v
  <2>1. ~(v < 0) => v \in 0 .. LongValues - 1
    BY <1>2, <1>3
  <2> QED
    BY <1>2, <2>1, ModSame DEF ToULong
<1> QED
  <2>1. Magnitude(v) = IF v < 0 THEN m ELSE v
    BY DEF Magnitude
  <2>2. Magnitude(v) \in Nat
    BY <1>3, <2>1
  <2> HIDE DEF m
  <2> QED
    BY <1>2, <1>3, <1>4, <1>6, <1>7, <1>8, <2>1, <2>2

-----------------------------------------------------------------------------

\* A number is its sign and its magnitude.
LEMMA SignIs ==
  ASSUME NEW v \in Int
  PROVE  /\ SignOf(v) \in {<<>>, <<Minus>>, <<Plus>>} /\ SignOf(v) \in Seq(Nat)
         /\ SignOf(v) = <<Minus>> <=> v < 0
         /\ Len(SignOf(v)) = IF v < 0 THEN 1 ELSE 0
         /\ (IF SignOf(v) = <<Minus>> THEN -Magnitude(v) ELSE Magnitude(v)) = v
<1>1. CASE v < 0
  <2>1. SignOf(v) = <<45>> /\ Magnitude(v) = -v
    BY <1>1 DEF SignOf, Minus, Magnitude
  <2>2. <<45>> \in Seq(Nat) /\ Len(<<45>>) = 1 /\ -(-v) = v
    OBVIOUS
  <2> QED
    BY <1>1, <2>1, <2>2 DEF Minus
<1>2. CASE ~(v < 0)
  <2>1. SignOf(v) = <<>> /\ Magnitude(v) = v
    BY <1>2 DEF SignOf, Magnitude
  <2>2. <<>> \in Seq(Nat) /\ Len(<<>>) = 0 /\ <<>> # <<45>>
    OBVIOUS
  <2> QED
    BY <1>2, <2>1, <2>2 DEF Minus
<1> QED
  BY <1>1, <1>2

\* Padding is so many blanks or zeros.
LEMMA PaddingIs ==
  ASSUME NEW p \in Nat, NEW zero
  PROVE  /\ Padding(p, zero) \in Seq(Nat) /\ Len(Padding(p, zero)) = p
         /\ ~zero => \A k \in 1 .. p : Padding(p, zero)[k] = Blank
         /\ zero => Padding(p, zero) = [k \in 1 .. p |-> Zero]
         /\ p = 0 => Padding(p, zero) = <<>>
<1>1. Padding(p, zero) \in Seq(Nat) /\ Len(Padding(p, zero)) = p
  BY DEF Padding, Zero, Blank
<1>2. p = 0 => Padding(p, zero) = <<>>
  BY <1>1, EmptySeq
<1> QED
  BY <1>1, <1>2 DEF Padding

\* The digits of v, and the field that they fill.
Written(v, D) == D # <<>> /\ Spells(D, 10, FALSE, Magnitude(v))
Field(v, width, zero, D) == SignOf(v) \o (Padding(Room(width, Len(SignOf(v) \o D)), zero) \o D)

\* printf and vsnprintf_internal write the same digits, printf in a field.
LEMMA EmittedIs ==
  ASSUME NEW v \in Longs, NEW width \in Nat, NEW zero \in BOOLEAN
  PROVE  \E D : /\ Written(v, D) /\ IntToWrite(v) = SignOf(v) \o D
                /\ EmitInt(v, width, zero) = Field(v, width, zero, D)
<1> DEFINE m == Magnitude(v)
           D == Digits(m, 10, FALSE)
           l == Len(D)
           sign == SignOf(v)
<1>1. v \in Int /\ m \in Nat
  BY MagnitudeIs
<1>2. Written(v, D)
  <2> DEFINE b == 10
             upper == FALSE
  <2>1. b \in {10, 16}
    OBVIOUS
  <2> HIDE DEF m
  <2>2. Digits(m, b, upper) # <<>> /\ Spells(Digits(m, b, upper), b, upper, m)
    BY <1>1, <2>1, DigitsSpell, Zenon
  <2> QED
    BY <2>2, Zenon DEF Written, m
<1> HIDE DEF D
<1>3. D \in Seq(Nat) /\ l \in Nat
  <2>1. D \in Seq(Nat)
    BY <1>2 DEF Written, Spells
  <2> QED
    BY <2>1
<1>4. sign \in Seq(Nat) /\ Len(sign) = IF v < 0 THEN 1 ELSE 0
  BY <1>1, SignIs
<1> HIDE DEF m
<1>5. Len(sign \o D) = Len(sign) + l
  BY <1>3, <1>4, ConcatProperties, Zenon
<1> HIDE DEF l, sign
<1>6. Padding(0, zero) \o D = D /\ <<>> \o D = D
  BY <1>3, PaddingIs, ConcatEmptySeq
<1>7. ASSUME NEW w \in Nat
      PROVE  EmitUint(m, 10, FALSE, w, zero) = Padding(Room(w, l), zero) \o D
  BY DEF EmitUint, Padding, Room, D, l
<1>8. CASE v < 0
  <2>1. sign = <<Minus>> /\ Len(sign \o D) = l + 1
    BY <1>3, <1>4, <1>5, <1>8 DEF sign, SignOf
  <2>2. ToULong(ToULong(-(v + 1)) + 1) = m /\ ToULong(ToLong(-(v + 1) + 1)) = m
    BY <1>8, MagnitudeIs DEF m
  <2>3. IntToWrite(v) = sign \o D
    BY <1>8, <2>1, <2>2, Zenon DEF IntToWrite, D
  <2> DEFINE w == IF width > 0 THEN width - 1 ELSE width
  <2>4. w \in Nat /\ Room(w, l) = Room(width, l + 1)
    BY <1>3 DEF Room
  <2>5. EmitInt(v, width, zero) = <<Minus>> \o EmitUint(m, 10, FALSE, w, zero)
    BY <1>8, <2>2, Zenon DEF EmitInt
  <2> HIDE DEF w
  <2>6. EmitInt(v, width, zero) = sign \o (Padding(Room(width, l + 1), zero) \o D)
    BY <1>7, <2>1, <2>4, <2>5
  <2> QED
    BY <1>2, <2>1, <2>3, <2>6 DEF Field, sign
<1>9. CASE ~(v < 0)
  <2>1. sign = <<>> /\ sign \o D = D
    BY <1>6, <1>9 DEF sign, SignOf
  <2>2. ToULong(v) = m /\ v = m
    BY <1>9, MagnitudeIs DEF m, Magnitude
  <2>3. IntToWrite(v) = sign \o D
    BY <1>9, <2>1, <2>2, Zenon DEF IntToWrite, D
  <2>4. EmitInt(v, width, zero) = EmitUint(m, 10, FALSE, width, zero)
    BY <1>9, <2>2, Zenon DEF EmitInt
  <2> DEFINE p == Room(width, l)
             s == Padding(p, zero) \o D
  <2>5. EmitInt(v, width, zero) = s
    BY <1>7, <2>4
  <2>6. p \in Nat
    BY <1>3 DEF Room
  <2>7. s \in Seq(Nat)
    BY <1>3, <2>6, PaddingIs, ConcatProperties, Zenon
  <2>8. <<>> \o s = s
    BY <2>7, ConcatEmptySeq, Zenon
  <2>9. Field(v, width, zero, D) = s
    BY <2>1, <2>8, Zenon DEF Field, sign, l
  <2> QED
    BY <1>2, <2>3, <2>5, <2>9 DEF sign
<1> QED
  BY <1>8, <1>9

\* What is read of them.
LEMMA DigitsReadBack ==
  ASSUME NEW V \in Nat \ {0}, NEW v \in Longs, NEW D, Written(v, D)
  PROVE  LET digits == SignOf(v) \o D
         IN  /\ Ato(digits, V) = Signed(v, V)
             /\ Ato(<<Blank, 9>> \o digits \o <<Minus, Zero>>, V) = Signed(v, V)
             /\ v >= 0 => Ato(<<Plus>> \o digits, V) = Signed(v, V)
<1> DEFINE G == SignOf(v)
           n == Magnitude(v)
           E == <<>>
           B == <<Blank, 9>>
           R == <<Minus, Zero>>
           P == <<Plus>>
<1>1. v \in Int /\ n \in Nat
  BY MagnitudeIs
<1>2. G \in Signs /\ G \in Seq(Nat) /\ (IF G = <<Minus>> THEN -n ELSE n) = v
  BY <1>1, SignIs, Zenon DEF Signs
<1>3. Decimal(D, n) /\ D # <<>>
  BY Zenon DEF Written, Decimal
<1>4. D \in Seq(Nat)
  BY DEF Written, Spells
<1>5. Blanks(E) /\ Ends(E)
  BY DEF Blanks, Ends
<1>6. Blanks(B)
  BY DEF Blanks, Blank, Spaces
<1>7. Ends(R)
  BY DEF Ends, Minus, Zero, DecimalDigits
<1>8. P \in Signs /\ P # <<Minus>> /\ P \in Seq(Nat)
  BY DEF Signs, Plus, Minus
<1>9. B \in Seq(Nat) /\ R \in Seq(Nat)
  BY <1>6, <1>7, Zenon DEF Blanks, Ends
<1>10. D \o E = D
  BY <1>4, ConcatEmptySeq, Zenon
<1>11. G \o D \in Seq(Nat)
  BY <1>2, <1>4, ConcatProperties, Zenon
<1>12. E \o (G \o D) = G \o D
  BY <1>11, ConcatEmptySeq, Zenon
<1>13. P \o D \in Seq(Nat)
  BY <1>4, <1>8, ConcatProperties, Zenon
<1>14. E \o (P \o D) = P \o D
  BY <1>13, ConcatEmptySeq, Zenon
<1>15. (B \o (G \o D)) \o R = B \o ((G \o D) \o R)
  BY <1>9, <1>11, JoinedAlike, Zenon
<1>16. v >= 0 => G = <<>> /\ n = v
  <2>1. v >= 0 => ~(v < 0)
    BY <1>1
  <2> QED
    BY <2>1, Zenon DEF SignOf, Magnitude
<1>17. <<>> \o D = D
  BY <1>4, ConcatEmptySeq, Zenon
<1> HIDE DEF G, E, B, R, P, n
<1>18. (G \o D) \o R = G \o (D \o R)
  BY <1>2, <1>4, <1>9, JoinedAlike, Zenon
<1>19. Ato(G \o D, V) = Signed(v, V)
  <2>1. Ato(E \o (G \o (D \o E)), V) = Signed(IF G = <<Minus>> THEN -n ELSE n, V)
    BY <1>1, <1>2, <1>3, <1>5, ReadBack
  <2> QED
    BY <1>2, <1>10, <1>12, <2>1, Zenon
<1>20. Ato((B \o (G \o D)) \o R, V) = Signed(v, V)
  <2>1. Ato(B \o (G \o (D \o R)), V) = Signed(IF G = <<Minus>> THEN -n ELSE n, V)
    BY <1>1, <1>2, <1>3, <1>6, <1>7, ReadBack
  <2> QED
    BY <1>2, <1>15, <1>18, <2>1, Zenon
<1>21. v >= 0 => Ato(P \o (G \o D), V) = Signed(v, V)
  <2>1. Ato(E \o (P \o (D \o E)), V) = Signed(IF P = <<Minus>> THEN -n ELSE n, V)
    BY <1>1, <1>3, <1>5, <1>8, ReadBack
  <2> QED
    BY <1>8, <1>10, <1>14, <1>16, <1>17, <2>1, Zenon
<1> QED
  BY <1>19, <1>20, <1>21, Zenon DEF G, B, R, P

-----------------------------------------------------------------------------

FieldTells(v, width, zero, digits, field, V) ==
  /\ Len(field) = IF width > Len(digits) THEN width ELSE Len(digits)
  /\ Ato(field, V) = IF v < 0 /\ ~zero /\ width > Len(digits) THEN 0 ELSE Signed(v, V)

\* The field is as wide as asked, and is read unless blanks part sign and digits.
LEMMA FieldReadsBack ==
  ASSUME NEW V \in Nat \ {0}, NEW v \in Longs, NEW width \in Nat, NEW zero \in BOOLEAN, NEW D,
         Written(v, D)
  PROVE  LET digits == SignOf(v) \o D
             field  == Field(v, width, zero, D)
         IN  FieldTells(v, width, zero, digits, field, V)
<1> DEFINE G == SignOf(v)
           n == Magnitude(v)
           E == <<>>
           l == Len(G \o D)
           p == Room(width, l)
           P == Padding(p, zero)
           F == P \o D
<1>1. v \in Int /\ n \in Nat
  BY MagnitudeIs
<1>2. G \in Signs /\ G \in Seq(Nat) /\ (IF G = <<Minus>> THEN -n ELSE n) = v
  BY <1>1, SignIs, Zenon DEF Signs
<1>3. Decimal(D, n) /\ D # <<>>
  BY Zenon DEF Written, Decimal
<1>4. D \in Seq(Nat)
  BY DEF Written, Spells
<1>5. Blanks(E) /\ Ends(E) /\ E \in Seq(Nat)
  BY DEF Blanks, Ends
<1>6. l = Len(G) + Len(D) /\ Len(G) \in Nat /\ Len(D) \in Nat
  <2> HIDE DEF G
  <2>1. Len(G \o D) = Len(G) + Len(D)
    BY <1>2, <1>4, ConcatProperties, Zenon
  <2> QED
    BY <1>2, <1>4, <2>1
<1> HIDE DEF l
<1>7. p \in Nat /\ (width > l => p = width - l /\ p >= 1) /\ (~(width > l) => p = 0)
  BY <1>6 DEF Room
<1> HIDE DEF p
<1>8. /\ P \in Seq(Nat) /\ Len(P) = p
      /\ ~zero => \A k \in 1 .. p : P[k] = Blank
      /\ zero => P = [k \in 1 .. p |-> Zero]
      /\ p = 0 => P = <<>>
  BY <1>7, PaddingIs, Zenon
<1> HIDE DEF P
<1>9. Joined(P, D, F)
  BY <1>4, <1>8, JoinedIs, Zenon
<1>10. F \in Seq(Nat)
  BY <1>9, Zenon DEF Joined
<1> HIDE DEF G, E, n
<1>11. D \o E = D
  BY <1>4, ConcatEmptySeq, Zenon DEF E
<1>12. F \o E = F
  BY <1>10, ConcatEmptySeq, Zenon DEF E
<1>13. E \o D = D
  BY <1>4, ConcatEmptySeq, Zenon DEF E
<1>14. E \o F = F
  BY <1>10, ConcatEmptySeq, Zenon DEF E
<1> HIDE DEF F
<1>15. Joined(G, F, G \o F)
  BY <1>2, <1>10, JoinedIs, Zenon
<1>16. E \o (G \o F) = G \o F
  <2>1. G \o F \in Seq(Nat)
    BY <1>15, Zenon DEF Joined
  <2> QED
    BY <2>1, ConcatEmptySeq, Zenon DEF E
<1>17. Len(G \o F) = IF width > l THEN width ELSE l
  <2>1. Len(G \o F) = Len(G) + Len(F) /\ Len(F) = Len(P) + Len(D)
    BY <1>9, <1>15, Zenon DEF Joined
  <2> QED
    BY <1>6, <1>7, <1>8, <2>1
<1>18. CASE ~(width > l)
  <2>1. F = D
    BY <1>7, <1>8, <1>13, <1>18, Zenon DEF F, E
  <2>2. Ato(G \o D, V) = Signed(v, V)
    BY DigitsReadBack, Zenon DEF G
  <2>3. Ato(G \o F, V) = Signed(v, V)
    BY <2>1, <2>2, Zenon
  <2> QED
    BY <1>17, <1>18, <2>3, Zenon DEF FieldTells, Field, F, P, p, l, G
<1>19. CASE width > l /\ zero
  <2>1. Decimal(F, n)
    <3> DEFINE b == 10
               upper == FALSE
    <3>1. b \in {10, 16} /\ Spells(D, b, upper, n)
      BY <1>3 DEF Decimal
    <3>2. Spells([k \in 1 .. p |-> Zero] \o D, b, upper, n)
      BY <1>7, <3>1, SpellsZeros, Zenon
    <3> QED
      BY <1>8, <1>19, <3>2, Zenon DEF F, Decimal
  <2>2. F # <<>>
    <3>1. Len(F) # 0
      BY <1>6, <1>7, <1>8, <1>9, <1>19 DEF Joined
    <3> QED
      BY <3>1
  <2>3. Ato(E \o (G \o (F \o E)), V) = Signed(IF G = <<Minus>> THEN -n ELSE n, V)
    BY <1>1, <1>2, <1>5, <2>1, <2>2, ReadBack
  <2>4. Ato(G \o F, V) = Signed(v, V)
    BY <1>2, <1>12, <1>16, <2>3, Zenon
  <2> QED
    BY <1>17, <1>19, <2>4, Zenon DEF FieldTells, Field, F, P, p, l, G
<1>20. CASE width > l /\ ~zero /\ ~(v < 0)
  <2>1. G = E
    BY <1>20, Zenon DEF G, SignOf, E
  <2>2. Blanks(P)
    BY <1>8, <1>20 DEF Blanks, Blank, Spaces
  <2>3. E \in Signs
    BY Zenon DEF E, Signs
  <2>4. Ato(P \o (E \o (D \o E)), V) = Signed(IF E = <<Minus>> THEN -n ELSE n, V)
    BY <1>1, <1>3, <1>5, <2>2, <2>3, ReadBack
  <2>5. Ato(G \o F, V) = Signed(v, V)
    BY <1>2, <1>11, <1>13, <1>14, <2>1, <2>4, Zenon DEF F
  <2> QED
    BY <1>17, <1>20, <2>5, Zenon DEF FieldTells, Field, F, P, p, l, G
<1>21. CASE width > l /\ ~zero /\ v < 0
  <2>1. G = <<Minus>> /\ G # <<>>
    BY <1>21 DEF G, SignOf
  <2>2. Ends(F)
    <3>1. 1 \in 1 .. p /\ p >= 1
      BY <1>7, <1>21
    <3>2. F[1] = P[1]
      BY <1>6, <1>8, <1>9, <3>1 DEF Joined
    <3>3. F[1] = 32
      BY <1>8, <1>21, <3>1, <3>2 DEF Blank
    <3> QED
      BY <1>10, <3>3 DEF Ends, DecimalDigits
  <2>3. Decimal(E, 0)
    <3> DEFINE b == 10
               upper == FALSE
    <3>1. b \in Nat
      OBVIOUS
    <3>2. Spells(<<>>, b, upper, 0)
      BY <3>1, SpellsNothing, Zenon
    <3> QED
      BY <3>2, Zenon DEF Decimal, E
  <2>4. PICK z \in Nat : z = 0
    OBVIOUS
  <2>5. -z = 0
    <3>1. -z = 0 - z
      OBVIOUS
    <3>2. 0 - z = 0
      BY <2>4
    <3> QED
      BY <3>1, <3>2, Zenon
  <2>6. Decimal(E, z)
    BY <2>3, <2>4, Zenon
  <2>7. Ato(E \o (G \o (E \o F)), V) = Signed(IF G = <<Minus>> THEN -z ELSE z, V)
    BY <2>4, <1>2, <1>5, <2>1, <2>2, <2>5, <2>6, ReadBack
  <2>8. Signed(0, V) = 0
    BY SignedZero
  <2>9. Ato(G \o F, V) = 0
    BY <1>14, <1>16, <2>1, <2>5, <2>7, <2>8, Zenon
  <2> QED
    BY <1>17, <1>21, <2>9, Zenon DEF FieldTells, Field, F, P, p, l, G
<1> QED
  BY <1>18, <1>19, <1>20, <1>21, Zenon

-----------------------------------------------------------------------------
(* Hexadecimal.                                                            *)

\* Horner reads the number that figures spell.
LEMMA HornerIs ==
  ASSUME NEW b \in {10, 16}, NEW upper, NEW s, NEW n, Spells(s, b, upper, n)
  PROVE  Horner(s, b, upper) = n
<1> DEFINE l == Len(s)
           Digit(c) == CHOOSE d \in 0 .. b - 1 : DigitChar(d, upper) = c
<1>1. PICK d, w : Figured(s, b, upper, d) /\ Chain(w, b, d, l) /\ w[l] = n
  BY DEF Spells
<1>2. l \in Nat
  BY DEF Spells
<1>3. ASSUME NEW k \in 1 .. l PROVE Digit(s[k]) = d[k]
  <2>1. d[k] \in 0 .. b - 1 /\ s[k] = DigitChar(d[k], upper)
    BY <1>1 DEF Figured
  <2>2. Digit(s[k]) \in 0 .. b - 1 /\ DigitChar(Digit(s[k]), upper) = s[k]
    BY <2>1, Zenon
  <2> DEFINE e == Digit(s[k])
             c == d[k]
  <2>3. e \in 0 .. b - 1 /\ c \in 0 .. b - 1 /\ DigitChar(e, upper) = DigitChar(c, upper)
    BY <2>1, <2>2, Zenon
  <2> HIDE DEF e, c
  <2>4. e \in 0 .. 15 /\ c \in 0 .. 15
    BY <2>3
  <2>5. c = e
    BY <2>3, <2>4, DigitCharOnce
  <2> QED
    BY <2>5, Zenon DEF e, c
<1> HIDE DEF Digit
<1>4. w = [k \in 0 .. l |-> IF k = 0 THEN 0 ELSE b * w[k - 1] + Digit(s[k])]
  <2>1. w = [k \in 0 .. l |-> w[k]] /\ \A k \in 0 .. l : k # 0 => k \in 1 .. l
    BY <1>1 DEF Chain, Links
  <2>2. \A k \in 0 .. l : w[k] = IF k = 0 THEN 0 ELSE b * w[k - 1] + Digit(s[k])
    BY <1>1, <1>3, <2>1 DEF Chain, Links
  <2> HIDE DEF l
  <2> QED
    BY <2>1, <2>2
<1> DEFINE f[k \in 0 .. Len(s)] == IF k = 0 THEN 0 ELSE b * f[k - 1] + Digit(s[k])
<1>5. f = [k \in 0 .. l |-> IF k = 0 THEN 0 ELSE b * f[k - 1] + Digit(s[k])]
  BY <1>4, Zenon
<1>6. Horner(s, b, upper) = f[l]
  BY Zenon DEF Horner, Digit
<1> HIDE DEF f
<1>7. Links(f, b, d, l)
  BY <1>2, <1>3, <1>5 DEF Links
<1>8. \A k \in 0 .. l : f[k] = w[k]
  <2> HIDE DEF l
  <2>1. b \in Int
    OBVIOUS
  <2> QED
    BY <1>1, <1>2, <1>7, <2>1, ChainOnly
<1>9. l \in 0 .. l
  BY <1>2
<1> QED
  BY <1>1, <1>6, <1>8, <1>9

\* Hexadecimal digits, which no width changes, are read back.
LEMMA HexadecimalIs ==
  ASSUME NEW v \in Nat, NEW upper
  PROVE  Horner(EmitUint(v, 16, upper, 0, FALSE), 16, upper) = v
<1> DEFINE b == 16
           D == Digits(v, b, upper)
<1>1. b \in {10, 16}
  OBVIOUS
<1>2. Spells(D, b, upper, v)
  BY <1>1, DigitsSpell, Zenon
<1>3. D \in Seq(Nat)
  <2> HIDE DEF D
  <2> QED
    BY <1>2 DEF Spells
<1>4. EmitUint(v, b, upper, 0, FALSE) = D
  <2> HIDE DEF b
  <2> DEFINE p == IF 0 > Len(D) THEN 0 - Len(D) ELSE 0
             P == Padding(p, FALSE)
  <2>1. EmitUint(v, b, upper, 0, FALSE) = P \o D
    BY Zenon DEF EmitUint, Padding
  <2> HIDE DEF D
  <2>2. p = 0
    BY <1>3
  <2>3. P = <<>>
    BY <2>2, PaddingIs
  <2>4. <<>> \o D = D
    BY <1>3, ConcatEmptySeq, Zenon
  <2> QED
    BY <2>1, <2>3, <2>4, Zenon
<1>5. Horner(D, b, upper) = v
  BY <1>1, <1>2, HornerIs, Zenon
<1> QED
  BY <1>4, <1>5, Zenon

-----------------------------------------------------------------------------

\* NumbersReadBack: atoi and atol read every number that printf and snprintf
\* print, in a field of any width, at every width of int and long, the least long
\* included (stdio.c:43-91, stdio.c:192-212, stdlib.c:156-200).
THEOREM NumbersReadBackHolds == Spec => []NumbersReadBack
<1>1. StartInv /\ LastInv => NumbersReadBack
  <2> SUFFICES ASSUME LastInv, last.fn = "printf" PROVE NumbersReadBack
    BY DEF NumbersReadBack
  <2> DEFINE v == last.v
             digits == last.digits
             field == last.field
             width == last.width
             zero == last.zero
  <2>1. /\ v \in Longs /\ width \in Nat /\ zero \in BOOLEAN
        /\ field = EmitInt(v, width, zero) /\ digits = IntToWrite(v)
    BY Zenon DEF LastInv
  <2> HIDE DEF v, digits, field, width, zero
  <2>2. PICK D : /\ Written(v, D) /\ digits = SignOf(v) \o D
                 /\ field = Field(v, width, zero, D)
    BY <2>1, EmittedIs, Zenon
  <2>3. LongValues \in Nat \ {0} /\ Signed(v, LongValues) = v /\ v \in Int
    BY <2>1, MagnitudeIs, Zenon
  <2>4. IntValues \in Nat \ {0}
    BY NumbersAssumption
  <2>5. /\ Atol(digits) = v
        /\ Atol(<<Blank, 9>> \o digits \o <<Minus, Zero>>) = v
        /\ v >= 0 => Atol(<<Plus>> \o digits) = v
    <3> DEFINE V == LongValues
               s == SignOf(v) \o D
    <3>1. /\ Ato(s, V) = Signed(v, V)
          /\ Ato(<<Blank, 9>> \o s \o <<Minus, Zero>>, V) = Signed(v, V)
          /\ v >= 0 => Ato(<<Plus>> \o s, V) = Signed(v, V)
      BY <2>1, <2>2, <2>3, DigitsReadBack, Zenon
    <3> HIDE DEF s
    <3>2. /\ Ato(digits, V) = Signed(v, V)
          /\ Ato(<<Blank, 9>> \o digits \o <<Minus, Zero>>, V) = Signed(v, V)
          /\ v >= 0 => Ato(<<Plus>> \o digits, V) = Signed(v, V)
      BY <2>2, <3>1, Zenon DEF s
    <3> QED
      BY <2>3, <3>2, Zenon DEF Atol
  <2>6. Atoi(digits) = ToInt(v)
    BY <2>1, <2>2, <2>4, DigitsReadBack, Zenon DEF Atoi, ToInt
  <2>7. /\ Len(field) = IF width > Len(digits) THEN width ELSE Len(digits)
        /\ Atol(field) = IF v < 0 /\ ~zero /\ width > Len(digits) THEN 0 ELSE v
    <3>1. FieldTells(v, width, zero, digits, field, LongValues)
      BY <2>1, <2>2, <2>3, FieldReadsBack, Zenon
    <3> QED
      BY <2>3, <3>1, Zenon DEF FieldTells, Atol
  <2>8. ASSUME NEW upper \in BOOLEAN
        PROVE  Horner(EmitUint(ToULong(v), 16, upper, 0, FALSE), 16, upper) = ToULong(v)
    <3>1. ToULong(v) \in Nat
      BY <2>3 DEF ToULong
    <3> QED
      BY <3>1, HexadecimalIs, Zenon
  <2> QED
    BY <2>5, <2>6, <2>7, <2>8, Zenon DEF NumbersReadBack, v, digits, field, width, zero
<1> QED
  BY <1>1, CallInvariance, PTL
==============================================================================
