------------------------------ MODULE MCFormat ------------------------------
(***************************************************************************)
(* Format on every tail of up to four characters behind "%" and of three   *)
(* behind "a%": all directives with two of flags, width, precision and     *)
(* length, the ones cut short, and what follows them; and every conversion *)
(* behind up to two of them.  An int has 64 values, a long 1024: 70 is 6   *)
(* as an int.                                                              *)
(***************************************************************************)
EXTENDS Format

UpTo(n, chars) == UNION {[1 .. k -> chars] : k \in 0 .. n}

MCFormats ==
  {<<"%">> \o t : t \in UpTo(4, {"a", "%", "-", "0", "3", ".", "l", "d", "s"})}
    \cup {<<"a", "%">> \o t : t \in UpTo(3, {"%", "-", "3", "d", "s"})}
    \cup {<<"%">> \o t \o <<c>> : t \in UpTo(3, {"-", "0", "3", "l", "h", "z"}),
                                  c \in {"d", "u", "x", "X", "p", "c"}}
MCArgs == {[number |-> 70, string |-> <<"x", "y">>], [number |-> -5, string |-> NULL]}

\* The text is longer than vfprintf's array.
LongFormats ==
  {<<"a", "%", "d">>, <<"a", "%", "3", "d">>, <<"%", "s", "%", "s">>}
    \cup {<<"%", "3", c>> \o t : c \in {"d", "s"}, t \in UpTo(3, {"a", "%"})}
=============================================================================
