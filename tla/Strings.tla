------------------------------- MODULE Strings ------------------------------
(***************************************************************************)
(* sdk/src/string.c at work on one memory: memmove, whose ranges may       *)
(* overlap, a byte a step, and strtok, which cuts the caller's string in   *)
(* place and remembers where it was in a static variable between two       *)
(* calls.  The functions of Text are held against plain sequences here.    *)
(*                                                                         *)
(* The memory is one array whose last byte is a terminator nobody          *)
(* overwrites, so every address starts a string.  The program first moves  *)
(* bytes about, then takes the string apart; it may turn to a part of it   *)
(* (a token it was given) before it is through.                            *)
(***************************************************************************)
EXTENDS Text, Functions

CONSTANTS Size,        \* bytes of memory
          Characters,  \* what a byte may be, beside the terminator
          Delimiters   \* the delim arguments, as sets of characters

ASSUME StringsAssumption ==
  /\ Size \in Nat \ {0}
  /\ Characters \subseteq 1 .. 255
  /\ \A d \in Delimiters : d \subseteq Characters

Address == 1 .. Size

VARIABLES
  mem,   \* the bytes
  save,  \* strtok_saveptr
  move,  \* the memmove under way, Idle when there is none
  task   \* what strtok was asked since it was last given a string, and said

vars == <<mem, save, move, task>>

Idle == [pc |-> "idle"]
NoTask == [str |-> Null, was |-> <<>>, used |-> {}, tokens |-> <<>>, over |-> FALSE]

Init ==
  /\ mem \in {m \in [Address -> Characters \cup {NUL}] : m[Size] = NUL}
  /\ save = Null /\ move = Idle /\ task = NoTask

-----------------------------------------------------------------------------
(* memmove, a byte at a time.  Before is a copy for the properties.        *)

\* Bug: copies forward whatever the overlap.
BugMoveCall(d, s, n) ==
  /\ move = Idle /\ task = NoTask
  /\ d + n - 1 < Size /\ s + n - 1 < Size
  /\ move' = [pc |-> "up", d |-> d, s |-> s, n |-> n, i |-> 0, before |-> mem]
  /\ UNCHANGED <<mem, save, task>>

MoveCall(d, s, n) ==
  /\ move = Idle /\ task = NoTask
  /\ d + n - 1 < Size /\ s + n - 1 < Size
  /\ move' = [pc |-> IF d < s THEN "up" ELSE "down", d |-> d, s |-> s, n |-> n,
              i |-> IF d < s THEN 0 ELSE n, before |-> mem]
  /\ UNCHANGED <<mem, save, task>>

MoveUp ==
  /\ move.pc = "up" /\ move.i < move.n
  /\ mem' = [mem EXCEPT ![move.d + move.i] = mem[move.s + move.i]]
  /\ move' = [move EXCEPT !.i = @ + 1]
  /\ UNCHANGED <<save, task>>

MoveDown ==
  /\ move.pc = "down" /\ move.i > 0
  /\ mem' = [mem EXCEPT ![move.d + move.i - 1] = mem[move.s + move.i - 1]]
  /\ move' = [move EXCEPT !.i = @ - 1]
  /\ UNCHANGED <<save, task>>

Moved == \/ move.pc = "up" /\ move.i = move.n
         \/ move.pc = "down" /\ move.i = 0

MoveReturn ==
  /\ Moved
  /\ move' = Idle
  /\ UNCHANGED <<mem, save, task>>

-----------------------------------------------------------------------------
(* strtok.                                                                 *)

\* strtok(str, d) with a string starts over; NULL asks for more.
Task(str, d) ==
  IF str = Null THEN [task EXCEPT !.used = @ \cup {d}]
  ELSE [NoTask EXCEPT !.str = str, !.was = mem, !.used = {d}]

Says(str, d, start, end) ==
  task' = IF start = Null THEN [Task(str, d) EXCEPT !.over = TRUE]
          ELSE [Task(str, d) EXCEPT !.tokens = Append(@, <<start, end>>)]

\* Nothing to go on with.
NoString(str, d) ==
  /\ str = Null /\ save = Null
  /\ Says(str, d, Null, Null)
  /\ UNCHANGED <<mem, save, move>>

From(str) == IF str = Null THEN save ELSE str

\* Only delimiters are left.
NoToken(str, d) ==
  /\ From(str) # Null
  /\ mem[From(str) + Span(mem, From(str), d)] = NUL
  /\ save' = Null
  /\ Says(str, d, Null, Null)
  /\ UNCHANGED <<mem, move>>

\* Where the next call goes on, when a delimiter ends the token at e.
After(e) == e + 1

Token(str, d) ==
  /\ From(str) # Null
  /\ LET t == From(str) + Span(mem, From(str), d)
         e == t + CSpan(mem, t, d)
     IN /\ mem[t] # NUL
        /\ IF mem[e] = NUL
           THEN save' = Null /\ UNCHANGED mem
           ELSE save' = After(e) /\ mem' = [mem EXCEPT ![e] = NUL]
        /\ Says(str, d, t, e)
  /\ UNCHANGED move

\* A string is the whole memory or a token handed out earlier.
Strtok ==
  /\ move = Idle
  /\ \E d \in Delimiters :
       \E str \in {Null, 1} \cup {t[1] : t \in Range(task.tokens)} :
         NoString(str, d) \/ NoToken(str, d) \/ Token(str, d)

Next ==
  \/ \E d, s \in Address, n \in 0 .. Size - 1 : MoveCall(d, s, n)
  \/ MoveUp \/ MoveDown \/ MoveReturn
  \/ Strtok

Spec == Init /\ [][Next]_vars

-----------------------------------------------------------------------------
(* Properties.                                                             *)

\* The fields of the string given to strtok, by the book: the longest runs
\* without a delimiter.
InString(a) == a >= task.str /\ \A b \in task.str .. a : task.was[b] # NUL
InField(a, d) == InString(a) /\ task.was[a] \notin d
Fields(d) ==
  {f \in Address \X Address :
     /\ f[1] < f[2] /\ \A a \in f[1] .. f[2] - 1 : InField(a, d)
     /\ f[1] = task.str \/ ~ InField(f[1] - 1, d)
     /\ ~ InField(f[2], d)}

(* A program that asks with one set of delimiters gets the fields of the   *)
(* string it gave, all of them, in order, NULL only after the last, even   *)
(* when that string is a token of another one; the calls write nowhere but *)
(* just behind a token, so every token handed out still reads as it did in *)
(* the string, and strtok's pointer stays in it (strtok, string.c:252).    *)
TokensAreFields ==
  task.str # Null =>
  /\ save \in {Null} \cup Address
  /\ \A d \in Delimiters : task.used = {d} =>
       LET got == Range(task.tokens)
       IN /\ got \subseteq Fields(d)
          /\ \A f \in Fields(d) \ got : \A t \in got : t[2] < f[1]
          /\ \A j, k \in DOMAIN task.tokens :
               j < k => task.tokens[j][2] < task.tokens[k][1]
          /\ task.over => got = Fields(d)
  /\ \A a \in Address : mem[a] =
       IF \E t \in Range(task.tokens) : t[2] = a THEN NUL ELSE task.was[a]

(* Whatever the overlap, memmove leaves the destination as the source was  *)
(* when it was called and touches nothing else: the direction of the loop  *)
(* saves every byte before it is overwritten (memmove, string.c:22).       *)
MoveIsExact ==
  Moved =>
    mem = [a \in Address |-> IF a \in move.d .. move.d + move.n - 1
                             THEN move.before[move.s + a - move.d]
                             ELSE move.before[a]]

\* The program has a memory and no call is under way.
AtRest == move = Idle /\ task = NoTask

S(p) == SubSeq(mem, p, p + Strlen(mem, p) - 1)
Bytes(p, n) == SubSeq(mem, p, p + n - 1)
Prefix(s, n) == SubSeq(s, 1, IF n < Len(s) THEN n ELSE Len(s))
Fits(p, n) == p + n - 1 \in Address \cup {p - 1}

\* The order of the dictionary, by unsigned bytes; r says how s and t lie in it.
Less(s, t) == \E k \in 0 .. Len(s) :
                /\ k < Len(t) /\ Prefix(s, k) = Prefix(t, k)
                /\ k < Len(s) => s[k + 1] < t[k + 1]
Orders(r, s, t) == (r < 0) = Less(s, t) /\ (r > 0) = Less(t, s)

\* The first or the last of some addresses, Null of none.
FirstOf(P) == IF P = {} THEN Null ELSE Min(P)
LastOf(P) == IF P = {} THEN Null ELSE Max(P)
Where(p, c) == {q \in p .. p + Strlen(mem, p) : mem[q] = c}

(* The scans of string.c say of their strings what there is to say of them *)
(* as sequences: the comparisons order them as a dictionary does, also     *)
(* bytes above 127, cut off at n and never past a terminator; a search     *)
(* finds the first place, or the last, and the terminator when asked for.  *)
ScansAgree ==
  AtRest => \A a, b \in Address :
    /\ Orders(Strcmp(mem, a, b), S(a), S(b))
    /\ \A n \in 0 .. Size :
         /\ Orders(Strncmp(mem, a, b, n), Prefix(S(a), n), Prefix(S(b), n))
         /\ Fits(a, n) /\ Fits(b, n) =>
              Orders(Memcmp(mem, a, b, n), Bytes(a, n), Bytes(b, n))
    /\ \A c \in Characters \cup {NUL} :
         /\ Strchr(mem, a, c) = FirstOf(Where(a, c))
         /\ Strrchr(mem, a, c) = LastOf(Where(a, c))
         /\ Memchr(mem, a, c, Len(S(a)) + 1) = Strchr(mem, a, c)
    /\ Strstr(mem, a, b) =
         FirstOf({p \in a .. a + Len(S(a)) : Prefix(S(p), Len(S(b))) = S(b)})
    /\ Strpbrk(mem, a, b) =
         FirstOf({p \in a .. a + Len(S(a)) - 1 : Strchr(mem, b, mem[p]) # Null})
    /\ Strcspn(mem, a, b) = IF Strpbrk(mem, a, b) = Null THEN Len(S(a))
                            ELSE Strpbrk(mem, a, b) - a
    /\ \A i \in 0 .. Strspn(mem, a, b) - 1 : Strchr(mem, b, mem[a + i]) # Null
    /\ LET next == mem[a + Strspn(mem, a, b)]
       IN  next = NUL \/ Strchr(mem, b, next) = Null

\* m is the memory with the bytes s from d on and everything else as it was.
Wrote(m, d, s) ==
  m = [a \in Address |-> IF a \in d .. d + Len(s) - 1 THEN s[a - d + 1] ELSE mem[a]]

\* C lets the program call when s ends up in the array, from d on, and when
\* those bytes and the n it is made of, from p on, have none in common.
Allowed(d, s, p, n) ==
  Fits(d, Len(s)) /\ (d .. d + Len(s) - 1) \cap (p .. p + n - 1) = {}

Zeros(n) == [k \in 1 .. n |-> NUL]
Ended(s) == Append(s, NUL)

(* The copies of string.c write the string they are for, terminated where  *)
(* C says so and padded where it says so, behind the end of what strcat    *)
(* and strncat find in dst, and not one byte besides.                      *)
StoresAgree ==
  AtRest => \A d, s \in Address :
    LET len == Len(S(s))
        end == d + Len(S(d))
    IN  /\ Allowed(d, Ended(S(s)), s, len + 1) => Wrote(Strcpy(mem, d, s), d, Ended(S(s)))
        /\ Allowed(d, Ended(S(s)), s, len + 1) => Wrote(Strdup(mem, s, d), d, Ended(S(s)))
        /\ Allowed(end, Ended(S(s)), s, len + 1) =>
             Wrote(Strcat(mem, d, s), end, Ended(S(s)))
        /\ \A n \in 0 .. Size :
             /\ Allowed(d, Zeros(n), s, len + 1) =>
                  Wrote(Strncpy(mem, d, s, n), d, Prefix(S(s) \o Zeros(n), n))
             /\ Allowed(end, Ended(Prefix(S(s), n)), s, len + 1) =>
                  Wrote(Strncat(mem, d, s, n), end, Ended(Prefix(S(s), n)))
             /\ Fits(s, n) /\ Allowed(d, Zeros(n), s, n) =>
                  Wrote(Memcpy(mem, d, s, n), d, Bytes(s, n))
             /\ Fits(d, n) => \A c \in Characters :
                  Wrote(Memset(mem, d, c + 256, n), d, [k \in 1 .. n |-> c])
=============================================================================
