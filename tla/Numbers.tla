------------------------------- MODULE Numbers ------------------------------
(***************************************************************************)
(* Numbers to digits and back: emit_uint_width and emit_int_width of       *)
(* sdk/src/stdio.c, the copy of them in vsnprintf_internal, and atoi and   *)
(* atol of sdk/src/stdlib.c.  A text is a sequence of character codes.     *)
(*                                                                         *)
(* int and long have as many values as the constants say.  Where the C     *)
(* standard leaves an overflow of theirs undefined, the library's build    *)
(* computes on: the result is the one of that width.                       *)
(***************************************************************************)
EXTENDS Integers, Sequences

CONSTANTS IntValues, LongValues   \* 2^32 and 2^64

ASSUME NumbersAssumption ==
  /\ IntValues \in Nat /\ LongValues \in Nat
  /\ IntValues > 0 /\ IntValues % 2 = 0 /\ LongValues % 2 = 0
  /\ IntValues <= LongValues

Signed(v, values) == ((v + values \div 2) % values) - (values \div 2)
ToInt(v) == Signed(v, IntValues)
ToLong(v) == Signed(v, LongValues)
ToULong(v) == v % LongValues
Longs == -(LongValues \div 2) .. (LongValues \div 2) - 1

Blank == 32
Minus == 45
Plus == 43
Zero == 48
Spaces == {32, 9, 10, 13}
DecimalDigits == 48 .. 57

-----------------------------------------------------------------------------
(* Out.                                                                    *)

DigitChar(d, upper) == IF d < 10 THEN Zero + d ELSE (IF upper THEN 55 ELSE 87) + d

\* The digits are found from the last to the first.
Digits(v, base, upper) ==
  LET tmp[n \in Nat] ==
        IF n < base THEN <<DigitChar(n, upper)>>
        ELSE Append(tmp[n \div base], DigitChar(n % base, upper))
  IN  tmp[v]

EmitUint(v, base, upper, width, zero_pad) ==
  LET digits == Digits(v, base, upper)
      pad    == IF width > Len(digits) THEN width - Len(digits) ELSE 0
  IN  [k \in 1 .. pad |-> IF zero_pad THEN Zero ELSE Blank] \o digits

\* Bug: the sign takes no place in the field.
BugEmitInt(v, width, zero_pad) ==
  IF v < 0
  THEN <<Minus>> \o EmitUint(ToULong(ToULong(-(v + 1)) + 1), 10, FALSE, width, zero_pad)
  ELSE EmitUint(v, 10, FALSE, width, zero_pad)

EmitInt(v, width, zero_pad) ==
  IF v < 0
  THEN <<Minus>> \o EmitUint(ToULong(ToULong(-(v + 1)) + 1), 10, FALSE,
                             IF width > 0 THEN width - 1 ELSE width, zero_pad)
  ELSE EmitUint(v, 10, FALSE, width, zero_pad)

\* vsnprintf_internal adds before it casts: for the least long the sum is
\* that long again, and the cast makes the right number of it.
IntToWrite(v) ==
  IF v < 0 THEN <<Minus>> \o Digits(ToULong(ToLong(-(v + 1) + 1)), 10, FALSE)
  ELSE Digits(ToULong(v), 10, FALSE)

-----------------------------------------------------------------------------
(* In: blanks, a sign, digits up to the first character that is none, which *)
(* the terminator is.                                                      *)

\* The first index from k on whose character is not in set.
Past(s, k, set) ==
  CHOOSE j \in k .. Len(s) + 1 :
    /\ \A i \in k .. j - 1 : s[i] \in set
    /\ j <= Len(s) => s[j] \notin set

\* In a type of so many values.
Ato(s, values) ==
  LET sign  == Past(s, 1, Spaces)
      neg   == sign <= Len(s) /\ s[sign] = Minus
      first == IF sign <= Len(s) /\ s[sign] \in {Minus, Plus} THEN sign + 1 ELSE sign
      end   == Past(s, first, DecimalDigits)
      v[k \in 0 .. end - 1] ==
        IF k < first THEN 0 ELSE Signed(v[k - 1] * 10 + (s[k] - Zero), values)
  IN  Signed(IF neg THEN -v[end - 1] ELSE v[end - 1], values)

Atoi(s) == Ato(s, IntValues)
Atol(s) == Ato(s, LongValues)
=============================================================================
