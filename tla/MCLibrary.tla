------------------------------ MODULE MCLibrary -----------------------------
(***************************************************************************)
(* Library on small numbers: int has 64 values, long 1024, and errno goes  *)
(* up to 15.  The times cover every day around the years where leap years  *)
(* change their rule, two years before 1970, and the turns of the months   *)
(* of every other year up to 2101.                                         *)
(***************************************************************************)
EXTENDS Library

\* 1970 to 1973, 1999 to 2001, 2099 to 2101, and the days about 1 March and
\* the new year of the others.
Days == (-750 .. 1460) \cup (10590 .. 11690) \cup (47110 .. 48211)
          \cup UNION {{NewYear(y) - 1, NewYear(y)} : y \in 1974 .. 2098}
          \cup UNION {NewYear(y) + 57 .. NewYear(y) + 60 : y \in 1974 .. 2098}
MCTimes == [quo : {d \in Days : d >= 0}, rem : {0, 59, 36009, 86399}]
             \cup [quo : {d \in Days : d <= 0}, rem : {0, -1, -60, -86399}]
MCAgain == [quo : {0, 11016, 47540}, rem : {3600}]

Own(year, mon, mday, wday) ==
  [tm_hour |-> 23, tm_min |-> 5, tm_sec |-> 0, tm_wday |-> wday, tm_year |-> year - 1900,
   tm_yday |-> 0, tm_mon |-> mon, tm_mday |-> mday]
MCOwnTms == {Own(y, m, d, w) : y \in {-1, 0, 7, 999, 9999, 10000}, m \in {0, 11, 12},
                               d \in {1, 9, 10, 31}, w \in {0, 6}}

MCMicroseconds == {0, 1, 999, 1000, 999999, 1000000, 1000001, 59999999, 2147483647}
MCValues == -512 .. 511

\* Words and what they point to: A=B, A=B=A, AB=B, =A, A, AB, B.
MCStrings ==
  [p \in 1001 .. 1007 |->
     <<<<65, 61, 66>>, <<65, 61, 66, 61, 65>>, <<65, 66, 61, 66>>, <<61, 65>>,
       <<65>>, <<65, 66>>, <<66>>>>[p - 1000]]
Vectors(n) == UNION {[1 .. k -> DOMAIN MCStrings] : k \in 0 .. n}
MCArgvs == {<<>>, <<1005>>, <<1005, 1001>>}
MCEnvps == Vectors(3)
MCNames == {<<>>, <<65>>, <<66>>, <<65, 66>>, <<65, 66, 66>>}

Paths(n) == UNION {[1 .. k -> {"/", "a", "b"}] : k \in 0 .. n}
MCDirs == Paths(3)
MCFiles == Paths(3)
MCModes == SUBSET Bits
=============================================================================
