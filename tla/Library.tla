------------------------------ MODULE Library ------------------------------
(***************************************************************************)
(* A program at work with the functions of the library that compute: it is *)
(* started, and uses one part of the library.  The times use the static    *)
(* buffers of time.c and are asked for twice, so that a call meets what    *)
(* another one left there; system calls leave errno behind.                *)
(***************************************************************************)
EXTENDS Calendar, Kernel, Startup, Tools

CONSTANTS Times, Again,      \* times the first and the second call is about
          OwnTms,            \* structs the program fills in itself
          Microseconds,      \* what it sleeps
          Values, Widths,    \* longs it prints, in fields of these widths
          Argvs, Envps,      \* argument and environment vectors
          Strings, Names,    \* what their words point to, and names looked up
          Dirs, Files, Caps, \* paths to join, sizes of the array for them
          Modes,             \* sets of mode bits
          Errnos             \* what errno was before

\* A time is what C's division makes of it, and falls in a year of the bound.
IsTime(t) ==
  /\ t.quo \in Int /\ t.rem \in Int /\ t.quo < NewYear(LastYear + 1)
  /\ -DaySeconds < t.rem /\ t.rem < DaySeconds
  /\ (t.quo >= 0 /\ t.rem >= 0) \/ (t.quo <= 0 /\ t.rem <= 0)

IsTm(d) ==
  /\ {d.tm_hour, d.tm_min, d.tm_sec, d.tm_wday, d.tm_year, d.tm_yday} \subseteq Int
  /\ d.tm_mon \in Int /\ d.tm_mday \in Int

\* Strings end at the first 0, so none is in them; a name that is looked up
\* has no '=' in it.
ASSUME LibraryAssumption ==
  /\ LastYear \in Nat /\ LastYear >= Epoch
  /\ \A t \in Times \cup Again : IsTime(t)
  /\ \A d \in OwnTms : IsTm(d)
  /\ Microseconds \subseteq Nat
  /\ Values \subseteq Longs /\ Widths \subseteq Nat
  /\ DOMAIN Strings \subseteq Nat \ {NULL}
  /\ \A p \in DOMAIN Strings : Strings[p] \in Seq(Nat \ {0})
  /\ Names \subseteq Seq(Nat \ {0, Equals})
  /\ Argvs \subseteq Seq(DOMAIN Strings) /\ Envps \subseteq Seq(DOMAIN Strings)
  /\ \A p \in Dirs \cup Files : p \in Seq({p[k] : k \in DOMAIN p})
  /\ Caps \subseteq Nat \ {0}
  /\ Modes \subseteq SUBSET Bits

VARIABLES
  part,          \* the part of the library this program uses, or "over"
  tm, text,      \* _tm_buf of localtime, buf of asctime
  asked, shown,  \* the time and the struct last converted, none or one
  given,         \* the vectors the program was started with
  stack, entry,  \* the initial stack and what crt0 made of it
  errno,
  last           \* the last other call: its arguments and what came of it

vars == <<part, tm, text, asked, shown, given, stack, entry, errno, last>>

Parts == {"time", "sleep", "numbers", "start", "tools", "kernel"}

NotStarted == [environ |-> NULL, main |-> [argc |-> 0, argv |-> NULL, envp |-> NULL]]
NoCall == [fn |-> "none"]

Init ==
  /\ part \in Parts
  /\ tm = [tm_hour |-> 0, tm_min |-> 0, tm_sec |-> 0, tm_wday |-> 0, tm_year |-> 0,
           tm_yday |-> 0, tm_mon |-> 0, tm_mday |-> 0]
  /\ text = <<>> /\ asked = <<>> /\ shown = <<>>
  /\ IF part = "start" THEN given \in [argv : Argvs, envp : Envps]
     ELSE given = [argv |-> <<>>, envp |-> <<>>]
  /\ stack = StackOf(given.argv, given.envp) /\ entry = NotStarted
  /\ IF part = "kernel" THEN errno \in Errnos ELSE errno = 0
  /\ last = NoCall

-----------------------------------------------------------------------------
(* time.c.  A NULL argument changes nothing and is left out.               *)

After(p) == CASE p = "time" -> "time again" [] p = "time again" -> "over"
Time == CASE part = "time" -> Times [] part = "time again" -> Again [] OTHER -> {}

\* localtime, and gmtime, which is the same.
Localtime ==
  /\ \E t \in Time : tm' = TimeToTm(t) /\ asked' = <<t>>
  /\ part' = After(part)
  /\ UNCHANGED <<text, shown, given, stack, entry, errno, last>>

\* asctime of the static struct or of the program's own.
AsctimeCall ==
  /\ Time # {}
  /\ \E d \in {tm} \cup (IF part = "time" THEN OwnTms ELSE {}) :
       Named(d) /\ text' = Asctime(d) /\ shown' = <<d>>
  /\ part' = After(part)
  /\ UNCHANGED <<tm, asked, given, stack, entry, errno, last>>

Ctime ==
  /\ \E t \in Time : LET d == TimeToTm(t) IN
       Named(d) /\ tm' = d /\ asked' = <<t>> /\ shown' = <<d>> /\ text' = Asctime(d)
  /\ part' = After(part)
  /\ UNCHANGED <<given, stack, entry, errno, last>>

-----------------------------------------------------------------------------
(* Calls without a state of their own.                                     *)

Called(result) ==
  /\ part' = "over" /\ last' = result
  /\ UNCHANGED <<tm, text, asked, shown, given, stack, entry>>

Sleep ==
  /\ part = "sleep" /\ UNCHANGED errno
  /\ \E usec \in Microseconds : Called([fn |-> "usleep", usec |-> usec, req |-> Usleep(usec)])

Printf ==
  /\ part = "numbers" /\ UNCHANGED errno
  /\ \E v \in Values, width \in Widths, zero \in BOOLEAN :
       Called([fn |-> "printf", v |-> v, width |-> width, zero |-> zero,
               field |-> EmitInt(v, width, zero), digits |-> IntToWrite(v)])

Join ==
  /\ part = "tools" /\ UNCHANGED errno
  /\ \E dir \in Dirs, name \in Files, cap \in Caps :
       Called([fn |-> "ax_join_path", dir |-> dir, name |-> name, cap |-> cap,
               out |-> JoinPath(dir, name, cap)])

Mode ==
  /\ part = "tools" /\ UNCHANGED errno
  /\ \E m \in Modes : Called([fn |-> "ax_mode_str", m |-> m, out |-> ModeStr(m)])

SystemCall ==
  /\ part = "kernel"
  /\ \E call \in DOMAIN ReturnType : \E raw \in Answers(call) :
       /\ errno' = SyscallErrno(raw, errno)
       /\ Called([fn |-> "syscall", call |-> call, raw |-> raw, was |-> errno,
                  result |-> Wrapper(call, raw)])

-----------------------------------------------------------------------------
(* The program's start and its environment.                                *)

StartUp ==
  /\ part = "start" /\ entry = NotStarted
  /\ entry' = Start(stack, 1)
  /\ UNCHANGED <<part, tm, text, asked, shown, given, stack, errno, last>>

GetenvCall ==
  /\ part = "start" /\ entry # NotStarted /\ UNCHANGED errno
  /\ \E name \in Names :
       Called([fn |-> "getenv", name |-> name,
               at |-> Getenv(stack, Strings, entry.environ, name)])

Next == Localtime \/ AsctimeCall \/ Ctime \/ Sleep \/ Printf \/ Join \/ Mode
          \/ SystemCall \/ StartUp \/ GetenvCall
          \/ (part = "over" /\ UNCHANGED vars)

Spec == Init /\ [][Next]_vars

-----------------------------------------------------------------------------
(* What holds of it.                                                       *)

YearOf(d) == d.tm_year + 1900

\* 1 January 2000 was a Saturday.
Saturday2000 == [day |-> NewYear(2000), wday |-> 6]

\* The struct that localtime, gmtime and ctime share names the second that
\* was asked for last, by the rules of the calendar: leap years, centuries,
\* the ends of months and years.  From 1970 on every field is in its range.
FieldsTellTime ==
  asked # <<>> =>
    LET t == asked[1]
        year == YearOf(tm)
    IN  /\ DayNumber(tm) = t.quo
        /\ 3600 * tm.tm_hour + 60 * tm.tm_min + tm.tm_sec = t.rem
        /\ tm.tm_yday = t.quo - NewYear(year)
        /\ t.quo >= 0 /\ t.rem >= 0 =>
             /\ tm.tm_mon \in 0 .. 11 /\ tm.tm_wday \in 0 .. 6
             /\ tm.tm_mday \in 1 .. DaysBefore(year, tm.tm_mon + 1) - DaysBefore(year, tm.tm_mon)
             /\ tm.tm_hour \in 0 .. 23 /\ tm.tm_min \in 0 .. 59 /\ tm.tm_sec \in 0 .. 59
             /\ (tm.tm_wday - Saturday2000.wday) % 7 = (t.quo - Saturday2000.day) % 7

Number(s) == LET f[k \in 0 .. Len(s)] == IF k = 0 THEN 0 ELSE 10 * f[k - 1] + s[k] IN f[Len(s)]
Read(s, from, to) == Number(SubSeq(s, from, to))

\* What the names of the weekdays and months stand for (C 7.27.1).
WeekdayOf == [Sun |-> 0, Mon |-> 1, Tue |-> 2, Wed |-> 3, Thu |-> 4, Fri |-> 5, Sat |-> 6]
MonthOf == [Jan |-> 0, Feb |-> 1, Mar |-> 2, Apr |-> 3, May |-> 4, Jun |-> 5,
            Jul |-> 6, Aug |-> 7, Sep |-> 8, Oct |-> 9, Nov |-> 10, Dec |-> 11]
StandsFor(names, n, letters) ==
  \E name \in DOMAIN names : names[name] = n /\ \A k \in 1 .. 3 : letters[k] = name

\* The fields are those of a date in the years 0 to 9999 and of a time in two
\* digits each; every field can be read back from the text, but the day of the
\* year, which it does not hold.
IsDate(d, year) ==
  /\ year \in 0 .. 9999 /\ d.tm_mday \in 1 .. 31
  /\ d.tm_mon \in 0 .. 11 /\ d.tm_wday \in 0 .. 6
  /\ {d.tm_hour, d.tm_min, d.tm_sec} \subseteq 0 .. 99
TellsDate(d, year, s) ==
  /\ StandsFor(WeekdayOf, d.tm_wday, <<s[1], s[2], s[3]>>)
  /\ StandsFor(MonthOf, d.tm_mon, <<s[5], s[6], s[7]>>)
  /\ \A k \in {10, 12, 13, 15, 16, 18, 19, 21, 22, 23, 24} : s[k] \in 0 .. 9
  /\ d.tm_mday = IF s[9] = Sign(" ") THEN s[10] ELSE Read(s, 9, 10)
  /\ d.tm_mday >= 10 => s[9] \in 1 .. 3
  /\ <<Read(s, 12, 13), Read(s, 15, 16), Read(s, 18, 19)>> = <<d.tm_hour, d.tm_min, d.tm_sec>>
  /\ Read(s, 21, 24) = year

\* asctime fills its 26 bytes exactly, and its text tells the weekday, month,
\* day, time and year, if the struct holds a date, whatever call wrote it and the
\* struct before (time.c:87-138).
TextTellsDate ==
  shown # <<>> =>
    /\ Len(text) = 26 /\ text[26] = Sign("nul")
    /\ IsDate(shown[1], YearOf(shown[1])) => TellsDate(shown[1], YearOf(shown[1]), text)

Horner(s, base, upper) ==
  LET Digit(c) == CHOOSE d \in 0 .. base - 1 : DigitChar(d, upper) = c
      f[k \in 0 .. Len(s)] == IF k = 0 THEN 0 ELSE base * f[k - 1] + Digit(s[k])
  IN  f[Len(s)]

\* atol, and atoi as far as an int goes, reads every number the library prints,
\* the least long included, behind blanks and in front of anything that is no
\* digit; the field is as wide as asked or as long as the number.  Only where
\* printf puts blanks behind the sign it is not a number any more.
NumbersReadBack ==
  last.fn = "printf" =>
    LET v == last.v
    IN  /\ Atol(last.digits) = v /\ Atoi(last.digits) = ToInt(v)
        /\ Atol(<<Blank, 9>> \o last.digits \o <<Minus, Zero>>) = v
        /\ v >= 0 => Atol(<<Plus>> \o last.digits) = v
        /\ Len(last.field) =
             IF last.width > Len(last.digits) THEN last.width ELSE Len(last.digits)
        /\ Atol(last.field) =
             IF v < 0 /\ ~last.zero /\ last.width > Len(last.digits) THEN 0 ELSE v
        /\ \A upper \in BOOLEAN :
             Horner(EmitUint(ToULong(v), 16, upper, 0, FALSE), 16, upper) = ToULong(v)

\* The system call layer loses nothing: an answer of the kernel reaches the
\* program whole and leaves errno alone, an error comes as the -1 of the
\* wrapper's type, with errno, and nothing else looks like it.  usleep asks for
\* the microseconds it was given, to the last one, in a struct the kernel takes.
CallsArrive ==
  /\ last.fn = "syscall" =>
       LET minus1 == CASE ReturnType[last.call] = "unsigned" -> IntValues - 1
                       [] ReturnType[last.call] = "ulong" -> LongValues - 1
                       [] OTHER -> -1
       IN  IF last.raw < 0 THEN last.result = minus1 /\ errno = -last.raw
           ELSE last.result = last.raw /\ last.result # minus1 /\ errno = last.was
  /\ last.fn = "usleep" =>
       /\ last.req.tv_nsec \in 0 .. 1000 * Million - 1 /\ last.req.tv_nsec % 1000 = 0
       /\ last.req.tv_sec * Million + (last.req.tv_nsec \div 1000) = last.usec

\* The value of name in the environment the program was started with, by the
\* first entry that has it in front of its first '='.
Entry(e, name) ==
  \E k \in 1 .. Len(e) :
    /\ e[k] = Equals /\ \A j \in 1 .. k - 1 : e[j] # Equals
    /\ SubSeq(e, 1, k - 1) = name
Entries(name) == {k \in DOMAIN given.envp : Entry(Strings[given.envp[k]], name)}

\* main gets the vectors the kernel was given, each up to its NULL, and getenv
\* finds in them what it should: crt0, __axiome_set_environ and getenv agree on
\* where the environment is.
StartArrives ==
  entry # NotStarted =>
    /\ entry.main.argc = Len(given.argv)
    /\ \A k \in 0 .. entry.main.argc :
         stack[entry.main.argv + k] = Append(given.argv, NULL)[k + 1]
    /\ entry.main.envp = entry.environ
    /\ SubSeq(stack, entry.environ, Len(stack)) = Append(given.envp, NULL)
    /\ last.fn = "getenv" =>
         IF Entries(last.name) = {} \/ last.name = <<>> THEN last.at = <<NULL, 0>>
         ELSE LET first == CHOOSE k \in Entries(last.name) : \A j \in Entries(last.name) : k <= j
              IN  last.at = <<given.envp[first], Len(last.name) + 1>>

Path(dir, name) ==
  IF dir = <<>> \/ dir[Len(dir)] = Slash THEN dir \o name ELSE dir \o <<Slash>> \o name

\* The column of a bit in a listing, and the letters it shows as.
Shows ==
  [IFDIR |-> <<1, {"d"}>>, IRUSR |-> <<2, {"r"}>>, IWUSR |-> <<3, {"w"}>>,
   IXUSR |-> <<4, {"x", "s"}>>, ISUID |-> <<4, {"S", "s"}>>, IRGRP |-> <<5, {"r"}>>,
   IWGRP |-> <<6, {"w"}>>, IXGRP |-> <<7, {"x", "s"}>>, ISGID |-> <<7, {"S", "s"}>>,
   IROTH |-> <<8, {"r"}>>, IWOTH |-> <<9, {"w"}>>, IXOTH |-> <<10, {"x"}>>]

\* A path joined in an array of any size is as much of the whole path as fits
\* with its terminator; if that is all of it, its last component is that of the
\* name.  Every bit of a mode can be told from its column in a listing.
ToolsTell ==
  /\ last.fn = "ax_join_path" =>
       /\ last.out = Clip(Path(last.dir, last.name), last.cap - 1)
       /\ last.out = Path(last.dir, last.name) => Basename(last.out) = Basename(last.name)
  /\ last.fn = "ax_mode_str" =>
       last.m = {b \in DOMAIN Shows : last.out[Shows[b][1]] \in Shows[b][2]}
=============================================================================
