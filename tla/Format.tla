------------------------------- MODULE Format -------------------------------
(***************************************************************************)
(* The format interpreter of sdk/src/stdio.c.  It exists twice, in vprintf *)
(* and in vsnprintf_internal: the scanners are the same, the conversions   *)
(* and where the characters go are not.  vfprintf formats to an array of   *)
(* its own and hands that to fwrite; "measure" is snprintf(NULL, 0, ...).  *)
(*                                                                         *)
(* A format is a sequence of characters, its end is "nul".  Every          *)
(* conversion of one format takes the same argument, as a number of its    *)
(* type, a string or a character.  %d stands for %i too.  Widths are such  *)
(* as fit an int.                                                          *)
(***************************************************************************)
EXTENDS Integers, Sequences, SequencesExt

CONSTANTS Formats,     \* the formats tried
          Args,        \* the arguments tried: [number, string]
          Junk,        \* upper half of the word an int is passed in
          IntValues, LongValues,   \* 2^32 and 2^64
          Sizes,       \* what snprintf is given as size
          SizeMax,     \* (size_t)-1: what sprintf passes
          StreamBuf    \* sizeof(buf) of vfprintf

ASSUME FormatAssumption ==
  /\ \A f \in Formats : f \in Seq(Range(f)) /\ "nul" \notin Range(f)
  /\ \A a \in Args : a.number \in Int /\ a.string \in Seq(Range(a.string))
  /\ IntValues \in Nat \ {0} /\ LongValues \in Nat \ {0} /\ SizeMax \in Nat
  /\ Junk \subseteq 0 .. (LongValues \div IntValues) - 1
  /\ Sizes \subseteq 0 .. SizeMax
  /\ StreamBuf \in 2 .. SizeMax

VARIABLES
  call,  \* the call: its function, format, arguments and size
  i,     \* fmt, as an index
  pc,    \* what the scanner is at
  dir,   \* flags, width and length modifiers of the directive under way
  text,  \* the characters produced so far; Len(text) is pos
  buf,   \* str: index -> character, where one was stored
  sent   \* what vfprintf passed to fwrite

vars == <<call, i, pc, dir, text, buf, sent>>

N == INSTANCE Numbers

NULL == <<"NULL">>

Figures == <<"0", "1", "2", "3", "4", "5", "6", "7", "8", "9">>
Digit == [c \in Range(Figures) |-> CHOOSE d \in 0 .. 9 : Figures[d + 1] = c]
Flag == {"-", "0"}
Length == {"l", "h", "z"}

NoDirective == [left |-> FALSE, zero |-> FALSE, width |-> 0, mods |-> {}]

Init ==
  /\ call \in [fn : {"printf", "measure"}, fmt : Formats, arg : Args, size : {0}]
       \cup [fn : {"snprintf"}, fmt : Formats, arg : Args,
             size : Sizes \cup {SizeMax}]
       \cup [fn : {"fprintf"}, fmt : Formats, arg : Args,
             size : {StreamBuf}]
  /\ i = 1 /\ pc = "text" /\ dir = NoDirective
  /\ text = <<>> /\ buf = [k \in {} |-> "nul"] /\ sent = <<>>

Char == IF i <= Len(call.fmt) THEN call.fmt[i] ELSE "nul"

-----------------------------------------------------------------------------
(* Where characters go.                                                    *)

\* size - 1 in size_t arithmetic: for an array of size 0 there is no limit.
Room == (call.size - 1) % (SizeMax + 1)

\* There is an array to store in: vprintf has none, str may be NULL.
Stores == call.fn \notin {"printf", "measure"}

\* pos counts every character, str gets those there is room for.
Put(s) ==
  /\ text' = text \o s
  /\ buf' = IF ~Stores THEN buf
            ELSE [k \in DOMAIN buf \cup {j \in Len(text) .. Len(text) + Len(s) - 1 :
                                           j < Room} |->
                    IF k \in DOMAIN buf THEN buf[k] ELSE s[k - Len(text) + 1]]

\* After the last character, at the position clipped to the array.
BugTerminate ==
  buf' = IF ~Stores \/ call.size = 0 THEN buf
         ELSE [k \in DOMAIN buf \cup {Len(text)} |->
                 IF k = Len(text) THEN "nul" ELSE buf[k]]

Terminate ==
  LET end == IF Len(text) < Room THEN Len(text) ELSE call.size - 1
  IN  buf' = IF ~Stores \/ call.size = 0 THEN buf
             ELSE [k \in DOMAIN buf \cup {end} |->
                     IF k = end THEN "nul" ELSE buf[k]]

-----------------------------------------------------------------------------
(* The conversions.                                                        *)

Fill(c, n) == [k \in 1 .. (IF n > 0 THEN n ELSE 0) |-> c]
Pad(s, width, c, left) ==
  IF left THEN s \o Fill(" ", width - Len(s)) ELSE Fill(c, width - Len(s)) \o s

Glyphs(upper) ==
  Figures \o IF upper THEN <<"A", "B", "C", "D", "E", "F">> ELSE <<"a", "b", "c", "d", "e", "f">>

Spelled(v, base, upper) ==
  LET digits[n \in Nat] ==
        IF n < base THEN <<Glyphs(upper)[n + 1]>>
        ELSE Append(digits[n \div base], Glyphs(upper)[(n % base) + 1])
  IN  digits[v]

Base(c) == IF c = "u" THEN 10 ELSE 16
Unsigned(v, c) == Spelled(v, Base(c), c = "X")
Abs(n) == IF n < 0 THEN -n ELSE n
Decimal(n) == (IF n < 0 THEN <<"-">> ELSE <<>>) \o Spelled(Abs(n), 10, FALSE)
Address(arg) == <<"0", "x">> \o Spelled(N!ToULong(arg.number), 16, FALSE)
Text(arg) == IF arg.string = NULL THEN <<"(", "n", "u", "l", "l", ")">> ELSE arg.string
Character == <<"chr">>
ZeroPad == IF dir.zero THEN "0" ELSE " "

\* The word the program passes a number in, for the length modifiers it wrote:
\* under h it is an int, as without any.
Word(mods, junk) ==
  IF mods \cap {"l", "z"} # {} THEN N!ToULong(call.arg.number)
  ELSE (call.arg.number % IntValues) + IntValues * junk

\* What va_arg makes of it: every modifier sets longflag.
ReadSigned(word) == IF dir.mods # {} THEN N!ToLong(word) ELSE N!ToInt(word)
ReadUnsigned(word) == IF dir.mods # {} THEN word ELSE word % IntValues

\* emit_int_width and emit_str_width: the flag '-' is for strings alone, and
\* a sign goes in front of the padding.
Emitted(c, word) ==
  LET v == ReadSigned(word)
  IN  CASE c = "d" /\ v < 0 ->
             <<"-">> \o Pad(Decimal(-v), dir.width - 1, ZeroPad, FALSE)
        [] c = "d" /\ v >= 0 -> Pad(Decimal(v), dir.width, ZeroPad, FALSE)
        [] c \in {"u", "x", "X"} ->
             Pad(Unsigned(ReadUnsigned(word), c), dir.width, ZeroPad, FALSE)
        [] c = "p" -> Address(call.arg)
        [] c = "s" -> Pad(Text(call.arg), dir.width, " ", dir.left)
        [] c = "c" -> Character
        [] OTHER   -> <<"%", c>>

\* vsnprintf_internal pads whatever the conversion left in to_write.
Written(c, word) ==
  Pad(CASE c = "d" -> Decimal(ReadSigned(word))
        [] c \in {"u", "x", "X"} -> Unsigned(ReadUnsigned(word), c)
        [] c = "p" -> Address(call.arg)
        [] c = "s" -> Text(call.arg)
        [] c = "c" -> Character
        [] OTHER   -> <<"%", c>>,
      dir.width, ZeroPad, dir.left)

Converted(c, word) == IF call.fn = "printf" THEN Emitted(c, word) ELSE Written(c, word)

-----------------------------------------------------------------------------
(* The scanner.                                                            *)

Goto(next) == pc' = next /\ i' = i + 1
Nothing == UNCHANGED <<text, buf>>

Literal ==
  /\ pc = "text" /\ Char \notin {"%", "nul"}
  /\ Put(<<Char>>) /\ Goto("text") /\ UNCHANGED dir

Directive ==
  /\ pc = "text" /\ Char = "%"
  /\ Goto("percent") /\ dir' = NoDirective /\ Nothing

\* Bug: the second '%' of "%%" is read again.
BugPercent ==
  /\ pc = "percent" /\ Char # "nul"
  /\ IF Char = "%" THEN Put(<<"%">>) /\ pc' = "text" /\ UNCHANGED i
     ELSE pc' = "flags" /\ UNCHANGED i /\ Nothing
  /\ UNCHANGED dir

\* "%%", or the flags, width, precision and length of a directive; whatever
\* is not one of them goes on to the next stage.
Percent ==
  /\ pc = "percent" /\ Char # "nul"
  /\ IF Char = "%" THEN Put(<<"%">>) /\ Goto("text")
     ELSE pc' = "flags" /\ UNCHANGED i /\ Nothing
  /\ UNCHANGED dir

BugFlags ==
  /\ pc = "flags" /\ Char # "nul"
  /\ IF Char \in Flag
     THEN /\ dir' = [dir EXCEPT !.left = (Char = "-"), !.zero = (Char = "0")]
          /\ Goto("flags")
     ELSE pc' = "width" /\ UNCHANGED <<i, dir>>
  /\ Nothing

Flags ==
  /\ pc = "flags" /\ Char # "nul"
  /\ IF Char \in Flag
     THEN /\ dir' = [dir EXCEPT !.left = @ \/ Char = "-", !.zero = @ \/ Char = "0"]
          /\ Goto("flags")
     ELSE pc' = "width" /\ UNCHANGED <<i, dir>>
  /\ Nothing

Width ==
  /\ pc = "width" /\ Char # "nul"
  /\ IF Char \in DOMAIN Digit
     THEN /\ dir' = [dir EXCEPT !.width = @ * 10 + Digit[Char]]
          /\ Goto("width")
     ELSE /\ IF Char = "." THEN Goto("precision") ELSE pc' = "length" /\ UNCHANGED i
          /\ UNCHANGED dir
  /\ Nothing

\* A precision is read over and has no effect.
Precision ==
  /\ pc = "precision" /\ Char # "nul"
  /\ IF Char \in DOMAIN Digit THEN Goto("precision")
     ELSE pc' = "length" /\ UNCHANGED i
  /\ UNCHANGED dir /\ Nothing

Modifier ==
  /\ pc = "length" /\ Char # "nul"
  /\ IF Char \in Length
     THEN dir' = [dir EXCEPT !.mods = @ \cup {Char}] /\ Goto("length")
     ELSE pc' = "convert" /\ UNCHANGED <<i, dir>>
  /\ Nothing

Convert ==
  /\ pc = "convert"
  /\ \E junk \in Junk : Put(Converted(Char, Word(dir.mods, junk)))
  /\ Goto("text") /\ UNCHANGED dir

\* The end of the format, also where it cuts a directive short.
Finish ==
  /\ pc \notin {"convert", "send", "done"} /\ Char = "nul"
  /\ Terminate
  /\ pc' = IF call.fn = "fprintf" THEN "send" ELSE "done"
  /\ UNCHANGED <<i, dir, text>>

Scan == Literal \/ Directive \/ Percent \/ Flags \/ Width \/ Precision
          \/ Modifier \/ Convert \/ Finish

\* fwrite(buf, 1, n, stream): n bytes from the array on, whatever they are.
Send ==
  /\ pc = "send" /\ pc' = "done"
  /\ sent' = [k \in 1 .. Len(text) |->
                IF k - 1 \in DOMAIN buf THEN buf[k - 1] ELSE "stray"]
  /\ UNCHANGED <<i, dir, text, buf>>

Next ==
  \/ Scan /\ UNCHANGED <<call, sent>>
  \/ Send /\ UNCHANGED call
  \/ pc = "done" /\ UNCHANGED vars

Spec == Init /\ [][Next]_vars

-----------------------------------------------------------------------------
(* What the format means, by its grammar: '%', flags, width, an optional   *)
(* precision, length modifiers, a conversion.  A precision has no meaning  *)
(* here: both interpreters are written to read over it.                    *)

\* The first index from k on whose character is not in set.
Past(fmt, k, set) ==
  CHOOSE m \in k .. Len(fmt) + 1 :
    /\ \A j \in k .. m - 1 : fmt[j] \in set
    /\ m <= Len(fmt) => fmt[m] \notin set

\* The number its characters from first to last are.
Value(fmt, first, last) ==
  LET v[k \in first - 1 .. last] ==
        IF k < first THEN 0 ELSE v[k - 1] * 10 + Digit[fmt[k]]
  IN  v[last]

\* The directive after the '%' at k - 1: its parts and its last index.
Parsed(fmt, k) ==
  LET w == Past(fmt, k, Flag)
      p == Past(fmt, w, DOMAIN Digit)
      l == IF p <= Len(fmt) /\ fmt[p] = "." THEN Past(fmt, p + 1, DOMAIN Digit) ELSE p
      c == Past(fmt, l, Length)
  IN  [flags |-> {fmt[j] : j \in k .. w - 1},
       width |-> Value(fmt, w, p - 1),
       mods  |-> {fmt[j] : j \in l .. c - 1},
       spec  |-> IF c <= Len(fmt) THEN fmt[c] ELSE "nul",
       last  |-> c]

\* The signed number it is given: the argument as the type it asks for.
Passed(d, arg) == IF d.mods = {} THEN N!ToInt(arg.number) ELSE N!ToLong(arg.number)

\* A directive rendered as C has it: numbers in the type of the argument,
\* zeros between sign and digits, and not at all if the field is to the left.
Plain(d, arg) ==
  LET values == IF d.mods = {} THEN IntValues ELSE LongValues
  IN  CASE d.spec = "d" -> Decimal(Passed(d, arg))
        [] d.spec \in {"u", "x", "X"} -> Unsigned(arg.number % values, d.spec)
        [] d.spec = "p" -> Address(arg)
        [] d.spec = "s" -> Text(arg)
        [] d.spec = "c" -> Character
        [] OTHER -> <<"%", d.spec>>

Rendered(d, arg) ==
  LET s == Plain(d, arg)
      zeros == d.flags = {"0"} /\ d.spec \in {"d", "u", "x", "X"}
  IN  IF zeros /\ s[1] = "-" THEN <<"-">> \o Pad(Tail(s), d.width - 1, "0", FALSE)
      ELSE Pad(s, d.width, IF zeros THEN "0" ELSE " ", "-" \in d.flags)

Meaning(fmt, arg) ==
  LET from[k \in 1 .. Len(fmt) + 1] ==
        IF k > Len(fmt) THEN <<>>
        ELSE IF fmt[k] # "%" THEN <<fmt[k]>> \o from[k + 1]
        ELSE IF k = Len(fmt) THEN <<>>
        ELSE IF fmt[k + 1] = "%" THEN <<"%">> \o from[k + 2]
        ELSE LET d == Parsed(fmt, k + 1)
             IN  IF d.spec = "nul" THEN <<>>
                 ELSE Rendered(d, arg) \o from[d.last + 1]
  IN  from[1]

\* Where reading goes on behind what begins at k: a character, "%%", a directive.
Behind(fmt, k) ==
  IF fmt[k] # "%" \/ k = Len(fmt) THEN k + 1
  ELSE IF fmt[k + 1] = "%" THEN k + 2 ELSE Parsed(fmt, k + 1).last + 1

\* Where something begins, when fmt is read from its first character on.
Begins(fmt) ==
  LET Closed(R) ==
        1 \in R /\ \A k \in R : Behind(fmt, k) <= Len(fmt) => Behind(fmt, k) \in R
  IN  {k \in 1 .. Len(fmt) : \A R \in SUBSET (1 .. Len(fmt)) : Closed(R) => k \in R}

\* "%%" is none, and no '%' in the middle of a directive or of "%%" begins one.
Directives(fmt) ==
  {Parsed(fmt, k + 1) :
     k \in {j \in Begins(fmt) : j < Len(fmt) /\ fmt[j] = "%" /\ fmt[j + 1] # "%"}}

\* Where the two interpreters leave C, each in its own way.  Both read a long
\* under %h, where the program passed an int.  printf ignores '-' before a
\* number, puts blanks behind the sign, and has no width for pointers and
\* characters; snprintf puts zeros in front of the sign, and pads what is no
\* number with them.  What a conversion they do not know means is not for C to
\* say.
Off(d) ==
  \/ d.spec \notin {"d", "u", "x", "X", "p", "s", "c", "nul"}
  \/ "h" \in d.mods /\ d.spec \in {"d", "u", "x", "X"}
  \/ /\ call.fn = "printf" /\ d.width > 0
     /\ \/ d.spec \in {"d", "u", "x", "X"} /\ "-" \in d.flags
        \/ d.spec = "d" /\ Passed(d, call.arg) < 0 /\ d.flags = {}
        \/ d.spec \in {"p", "c"}
  \/ /\ call.fn # "printf" /\ d.flags = {"0"} /\ d.width > 0
     /\ d.spec \in {"p", "s", "c"} \/ (d.spec = "d" /\ Passed(d, call.arg) < 0)

-----------------------------------------------------------------------------
(* What holds of it.                                                       *)

\* str ends up with as much of the text as fits and a terminator, nothing is
\* stored behind that, and the result is the length the text has without the
\* limit.  Excepted is an array of size 0 that is there: it gets all of the
\* text, for which it has no room.
Truncated ==
  pc = "done" /\ Stores /\ call.size > 0 =>
    LET n == IF Len(text) < call.size THEN Len(text) ELSE call.size - 1
    IN  buf = [k \in 0 .. n |-> IF k = n THEN "nul" ELSE text[k + 1]]

\* Outside of the cases of Off, both interpreters produce what the format
\* means; they agree with each other for that.
AsMeant ==
  pc = "done" /\ (\A d \in Directives(call.fmt) : ~Off(d)) =>
    text = Meaning(call.fmt, call.arg)

\* fprintf sends what was formatted, to the character.
SendsText == pc = "done" /\ call.fn = "fprintf" => sent = text
=============================================================================
