------------------------------ MODULE Calendar ------------------------------
(***************************************************************************)
(* sdk/src/time.c: time_to_tm, which takes a number of seconds apart by    *)
(* division and by counting off years and months, asctime, which has to    *)
(* fit the result into its 26 bytes, and usleep, which splits its argument.*)
(*                                                                         *)
(* A time is [quo |-> t / 86400, rem |-> t % 86400], as C divides: before  *)
(* 1970 neither is positive.  A character of asctime's numbers is its      *)
(* distance from '0', a digit if that is in 0 .. 9; names stand for their  *)
(* three letters.                                                          *)
(***************************************************************************)
EXTENDS Integers, Sequences

CONSTANT LastYear   \* bound: the last year a time falls in

\* C's / and %, which round towards zero.
Quot(a, b) == IF a >= 0 THEN a \div b ELSE -((-a) \div b)
Rest(a, b) == a - b * Quot(a, b)

DaySeconds == 24 * 3600

-----------------------------------------------------------------------------
(* time_to_tm.                                                             *)

BugIsLeap(year) == year % 4 = 0 /\ year % 100 # 0
IsLeap(year) == (year % 4 = 0 /\ year % 100 # 0) \/ year % 400 = 0

MonthDays(year) ==
  <<31, IF IsLeap(year) THEN 29 ELSE 28, 31, 30, 31, 30, 31, 31, 30, 31, 30, 31>>

YearDays(year) == IF IsLeap(year) THEN 366 ELSE 365

Epoch == 1970   \* the year that begins with day 0

\* The loops that count off: years, and months of a year.
CountYears(days) ==
  LET count[at \in [year : Epoch .. LastYear + 1, left : Int]] ==
        IF at.left >= YearDays(at.year) /\ at.year <= LastYear
        THEN count[[year |-> at.year + 1, left |-> at.left - YearDays(at.year)]]
        ELSE at
  IN  count[[year |-> Epoch, left |-> days]]

CountMonths(year, yday) ==
  LET count[at \in [month : 0 .. 12, left : Int]] ==
        IF at.month < 12 /\ at.left >= MonthDays(year)[at.month + 1]
        THEN count[[month |-> at.month + 1, left |-> at.left - MonthDays(year)[at.month + 1]]]
        ELSE at
  IN  count[[month |-> 0, left |-> yday]]

TimeToTm(t) ==
  LET y == CountYears(t.quo)
      m == CountMonths(y.year, y.left)
  IN  [tm_hour |-> Quot(t.rem, 3600), tm_min |-> Quot(Rest(t.rem, 3600), 60),
       tm_sec |-> Rest(Rest(t.rem, 3600), 60),
       tm_wday |-> Rest(t.quo + 4, 7), tm_year |-> y.year - 1900,
       tm_yday |-> y.left, tm_mon |-> m.month, tm_mday |-> m.left + 1]

-----------------------------------------------------------------------------
(* asctime.  A weekday or month below zero reads outside of the names.     *)

WdayName == <<"Sun", "Mon", "Tue", "Wed", "Thu", "Fri", "Sat">>
MonName == <<"Jan", "Feb", "Mar", "Apr", "May", "Jun",
             "Jul", "Aug", "Sep", "Oct", "Nov", "Dec">>
Letters(name) == <<name, name, name>>
Sign(c) == CASE c = " " -> -16 [] c = ":" -> 10 [] c = "newline" -> -38 [] c = "nul" -> -48
WdayLetters(wday) == Letters(WdayName[(wday % 7) + 1])

BugMonLetters(mon) == Letters(MonName[((mon + 11) % 12) + 1])
MonLetters(mon) == Letters(MonName[(mon % 12) + 1])

Two(n) == <<Quot(n, 10), Rest(n, 10)>>

Named(tm) == tm.tm_wday >= 0 /\ tm.tm_mon >= 0

BugAsctimeDay(mday) == <<IF mday > 10 THEN Quot(mday, 10) ELSE Sign(" "), Rest(mday, 10)>>
AsctimeDay(mday) == <<IF mday >= 10 THEN Quot(mday, 10) ELSE Sign(" "), Rest(mday, 10)>>

Asctime(tm) ==
  LET year == tm.tm_year + 1900
  IN  WdayLetters(tm.tm_wday) \o <<Sign(" ")>> \o MonLetters(tm.tm_mon) \o <<Sign(" ")>>
        \o AsctimeDay(tm.tm_mday) \o <<Sign(" ")>>
        \o Two(tm.tm_hour) \o <<Sign(":")>> \o Two(tm.tm_min) \o <<Sign(":")>>
        \o Two(tm.tm_sec) \o <<Sign(" ")>>
        \o <<Quot(year, 1000), Rest(Quot(year, 100), 10), Rest(Quot(year, 10), 10),
             Rest(year, 10)>>
        \o <<Sign("newline"), Sign("nul")>>

-----------------------------------------------------------------------------
\* What usleep asks the kernel for; an unsigned product of less than 10^9.
Million == 1000 * 1000
Usleep(usec) == [tv_sec |-> usec \div Million, tv_nsec |-> (usec % Million) * 1000]

-----------------------------------------------------------------------------
(* The calendar, by its rules: from a date to the number of its day.       *)

\* Leap years up to year y; the day of 1 January of y.
LeapsUpTo(y) == y \div 4 - y \div 100 + y \div 400
NewYear(y) == 365 * (y - Epoch) + LeapsUpTo(y - 1) - LeapsUpTo(Epoch - 1)
YearLength(y) == NewYear(y + 1) - NewYear(y)

\* Days of the year before month m (0 .. 11): 30 each and one more for every
\* long month, less what February lacks.
LongMonths(m) == IF m <= 7 THEN (m + 1) \div 2 ELSE 4 + (m - 6) \div 2
DaysBefore(y, m) == 30 * m + LongMonths(m) - (IF m <= 1 THEN 0 ELSE 367 - YearLength(y))

DayNumber(tm) ==
  NewYear(tm.tm_year + 1900) + DaysBefore(tm.tm_year + 1900, tm.tm_mon) + tm.tm_mday - 1
=============================================================================
