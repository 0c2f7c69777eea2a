------------------------------ MODULE Startup -------------------------------
(***************************************************************************)
(* sdk/src/crt0.c, which finds the arguments and the environment on the    *)
(* initial stack and passes them to main and to libc, and getenv of        *)
(* sdk/src/stdlib.c, which looks names up there.                           *)
(*                                                                         *)
(* The stack is a sequence of words from the one at rsp on, an address an  *)
(* index into it.  A string's address is any other number, and strings     *)
(* maps it to the characters; NULL and the terminator are 0.               *)
(***************************************************************************)
EXTENDS Integers, Sequences

NULL == 0
Equals == 61   \* '='

\* What the kernel puts there (external): the count, both lists, each ended.
StackOf(argv, envp) == <<Len(argv)>> \o argv \o <<NULL>> \o envp \o <<NULL>>

\* Bug: takes the end of argv for the beginning of envp.
BugStart(stack, rsp) ==
  LET rdi == stack[rsp]
      rsi == rsp + 1
      rdx == rsi + rdi
  IN  [environ |-> rdx, main |-> [argc |-> rdi, argv |-> rsi, envp |-> rdx]]

\* _start up to the call of main.  __axiome_set_environ stores its argument
\* and leaves r8, r9 and rdx alone, which the code keeps across it.
Start(stack, rsp) ==
  LET rdi == stack[rsp]
      rsi == rsp + 1
      rdx == rsi + rdi + 1
  IN  [environ |-> rdx, main |-> [argc |-> rdi, argv |-> rsi, envp |-> rdx]]

\* s[i] of a string that ends in a terminator.
CharAt(s, i) == IF i < Len(s) THEN s[i + 1] ELSE 0

\* The loop over the characters of name.
Common(e, name) ==
  CHOOSE i \in 0 .. Len(name) :
    /\ \A j \in 0 .. i - 1 : CharAt(e, j) = name[j + 1]
    /\ i < Len(name) => CharAt(e, i) # name[i + 1]

Matches(e, name) == Common(e, name) = Len(name) /\ CharAt(e, Len(name)) = Equals

\* The value, as the address of the string it is in and where it begins;
\* NULL for none.  No name is the empty one.
Getenv(stack, strings, environ, name) ==
  LET entries == {p \in environ .. Len(stack) :
                    /\ \A q \in environ .. p : stack[q] # NULL
                    /\ Matches(strings[stack[p]], name)}
      first   == CHOOSE p \in entries : \A q \in entries : p <= q
  IN  IF name = <<>> \/ environ = NULL \/ entries = {} THEN <<NULL, 0>>
      ELSE <<stack[first], Len(name) + 1>>
=============================================================================
