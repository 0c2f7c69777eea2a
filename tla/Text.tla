-------------------------------- MODULE Text --------------------------------
(***************************************************************************)
(* The functions of sdk/src/string.c that scan or fill their arguments and *)
(* keep nothing between two calls.  m is the memory, a sequence of bytes;  *)
(* a pointer is an index into it.  A loop of the code is the least number  *)
(* of steps after which its condition fails; a function that writes        *)
(* returns the memory it leaves behind.                                    *)
(***************************************************************************)
EXTENDS Integers, Sequences, FiniteSetsExt

Null == 0
NUL == 0   \* the terminator

UChar(c) == c % 256   \* (unsigned char)c

Ahead(m, s) == 0 .. Len(m) - s                     \* offsets from s to the end
Both(m, a, b) == Ahead(m, a) \cap Ahead(m, b)

-----------------------------------------------------------------------------
(* Scans.                                                                  *)

Strlen(m, s) == Min({i \in Ahead(m, s) : m[s + i] = NUL})

\* The set a string stands for in strspn, strcspn and strpbrk.
Chars(m, s) == {m[s + i] : i \in 0 .. Strlen(m, s) - 1}

Span(m, s, set) == Min({i \in Ahead(m, s) : m[s + i] \notin set \ {NUL}})
Strspn(m, s, accept) == Span(m, s, Chars(m, accept))

\* Bug: stops at the terminator alone.
BugCSpan(m, s, set) == Min({i \in Ahead(m, s) : m[s + i] = NUL})

CSpan(m, s, set) == Min({i \in Ahead(m, s) : m[s + i] \in set \cup {NUL}})
Strcspn(m, s, reject) == CSpan(m, s, Chars(m, reject))

Strpbrk(m, s, accept) ==
  LET p == s + CSpan(m, s, Chars(m, accept))
  IN  IF m[p] = NUL THEN Null ELSE p

\* What a comparison says of the first bytes that decide it: offsets is where
\* it looks, stop where it stops.
Difference(m, a, b, stop) ==
  IF stop = {} THEN 0 ELSE m[a + Min(stop)] - m[b + Min(stop)]

Memcmp(m, a, b, n) ==
  Difference(m, a, b, {i \in 0 .. n - 1 : m[a + i] # m[b + i]})

Strcmp(m, a, b) ==
  Difference(m, a, b, {i \in Both(m, a, b) : m[a + i] = NUL \/ m[a + i] # m[b + i]})

\* Bug: goes on behind the end of two equal strings.
BugStrncmp(m, a, b, n) ==
  Difference(m, a, b, {i \in Both(m, a, b) : i < n /\ m[a + i] # m[b + i]})

Strncmp(m, a, b, n) ==
  Difference(m, a, b, {i \in Both(m, a, b) :
                         i < n /\ (m[a + i] = NUL \/ m[a + i] # m[b + i])})

Memchr(m, s, c, n) ==
  LET hits == {i \in 0 .. n - 1 : m[s + i] = UChar(c)}
  IN  IF hits = {} THEN Null ELSE s + Min(hits)

\* strchr and strrchr compare characters, but ask of the int c whether the
\* terminator is meant.
Hits(m, s, c) == {i \in 0 .. Strlen(m, s) - 1 : m[s + i] = UChar(c)}

Strchr(m, s, c) ==
  IF Hits(m, s, c) # {} THEN s + Min(Hits(m, s, c))
  ELSE IF c = 0 THEN s + Strlen(m, s) ELSE Null

Strrchr(m, s, c) ==
  IF c = 0 THEN s + Strlen(m, s)
  ELSE IF Hits(m, s, c) # {} THEN s + Max(Hits(m, s, c)) ELSE Null

\* The inner loop of strstr ends at either terminator or at a difference.
Begins(m, h, needle) ==
  m[needle + Min({i \in Both(m, h, needle) :
                    m[h + i] = NUL \/ m[needle + i] = NUL \/ m[h + i] # m[needle + i]})] = NUL

Strstr(m, haystack, needle) ==
  LET found == {i \in 0 .. Strlen(m, haystack) - 1 : Begins(m, haystack + i, needle)}
  IN  IF m[needle] = NUL THEN haystack
      ELSE IF found = {} THEN Null ELSE haystack + Min(found)

-----------------------------------------------------------------------------
(* Stores.  As in C, source and destination of these do not overlap.       *)

Memcpy(m, d, s, n) ==
  LET copied[i \in 0 .. n] ==
        IF i = 0 THEN m ELSE [copied[i - 1] EXCEPT ![d + i - 1] = copied[i - 1][s + i - 1]]
  IN  copied[n]

Memset(m, d, c, n) == [a \in DOMAIN m |-> IF a \in d .. d + n - 1 THEN UChar(c) ELSE m[a]]

Strcpy(m, d, s) == Memcpy(m, d, s, Strlen(m, s) + 1)

\* Two loops: characters while there are any, then terminators.
Strncpy(m, d, s, n) ==
  LET k == Min({n, Strlen(m, s)})
  IN  Memset(Memcpy(m, d, s, k), d + k, NUL, n - k)

Strcat(m, d, s) == Strcpy(m, d + Strlen(m, d), s)

\* Bug: counts the terminator among the n characters.
BugStrncat(m, d, s, n) ==
  LET k == Min({n, Strlen(m, s)})
      e == d + Strlen(m, d)
  IN  IF k = n THEN Memcpy(m, e, s, k) ELSE [Memcpy(m, e, s, k) EXCEPT ![e + k] = NUL]

Strncat(m, d, s, n) ==
  LET k == Min({n, Strlen(m, s)})
      e == d + Strlen(m, d)
  IN  [Memcpy(m, e, s, k) EXCEPT ![e + k] = NUL]

\* block is what malloc(strlen(s) + 1) returns.
Strdup(m, s, block) ==
  IF s = Null \/ block = Null THEN m ELSE Memcpy(m, block, s, Strlen(m, s) + 1)
=============================================================================
