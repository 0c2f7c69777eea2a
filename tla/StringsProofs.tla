---------------------------- MODULE StringsProofs ----------------------------
(***************************************************************************)
(* memmove and strtok on a memory of any size, with any characters and any *)
(* sets of delimiters, and the functions of Text on the memory they leave. *)
(***************************************************************************)
EXTENDS Strings, FiniteSetTheorems, SequenceTheorems, TLAPS

-----------------------------------------------------------------------------
(* The inductive invariant.                                                *)

Byte == Characters \cup {NUL}

TypeOK ==
  /\ mem \in [Address -> Byte] /\ mem[Size] = NUL
  /\ save \in {Null} \cup Address
  /\ task = [str |-> task.str, was |-> task.was, used |-> task.used,
             tokens |-> task.tokens, over |-> task.over]

\* The bytes at the addresses A are copied, the others still what they were.
Copied(A) ==
  \A a \in Address :
    mem[a] = IF a \in A THEN move.before[move.s + a - move.d] ELSE move.before[a]

\* Going up from a destination below the source, or down from one above it,
\* the loop has not overwritten a byte it still has to read.
MoveOK ==
  move # Idle =>
    /\ move = [pc |-> move.pc, d |-> move.d, s |-> move.s, n |-> move.n,
               i |-> move.i, before |-> move.before]
    /\ task = NoTask
    /\ move.d \in Address /\ move.s \in Address /\ move.n \in Nat /\ move.i \in 0 .. move.n
    /\ move.d + move.n - 1 < Size /\ move.s + move.n - 1 < Size
    /\ move.before \in [Address -> Byte]
    /\ \/ /\ move.pc = "up" /\ move.d < move.s
          /\ Copied(move.d .. move.d + move.i - 1)
       \/ /\ move.pc = "down" /\ move.s <= move.d
          /\ Copied(move.d + move.i .. move.d + move.n - 1)

\* The fields of the string a task T was given.
In(T, a) == a >= T.str /\ \A b \in T.str .. a : T.was[b] # NUL
InF(T, a, d) == In(T, a) /\ T.was[a] \notin d
FieldsOf(T, d) ==
  {f \in Address \X Address :
     /\ f[1] < f[2] /\ \A a \in f[1] .. f[2] - 1 : InF(T, a, d)
     /\ f[1] = T.str \/ ~ InF(T, f[1] - 1, d)
     /\ ~ InF(T, f[2], d)}
Got(T) == Range(T.tokens)

\* What a task has found, and that it goes on at p behind all of it, in the
\* string and at the start of a field if p is in one.
Found(T, d, p) ==
  /\ Got(T) \subseteq FieldsOf(T, d)
  /\ \A f \in FieldsOf(T, d) \ Got(T) :
       /\ \A t \in Got(T) : t[2] < f[1]
       /\ p # Null /\ p <= f[1]
  /\ p = Null \/ p = T.str \/ ~ InF(T, p - 1, d)

Behind(T, p) ==
  /\ p \in Address /\ T.str <= p
  /\ \A b \in T.str .. p - 1 : T.was[b] # NUL
  /\ \A t \in Got(T) : t[2] < p

\* The memory m reads as it did but for the ends of the tokens.
Cut(T, m) ==
  \A a \in Address : m[a] = IF \E t \in Got(T) : t[2] = a THEN NUL ELSE T.was[a]

Sound(T, m, p) ==
  /\ T.str \in Address /\ T.was \in [Address -> Byte] /\ T.was[Size] = NUL
  /\ T.used # {}
  /\ T.tokens \in Seq(Address \X Address)
  /\ \A j, k \in DOMAIN T.tokens : j < k => T.tokens[j][2] < T.tokens[k][1]
  /\ Cut(T, m)
  /\ p # Null => Behind(T, p)
  /\ \A d \in Delimiters : T.used = {d} => Found(T, d, p)

TaskOK ==
  IF task.str = Null THEN save = Null /\ task.tokens = <<>>
  ELSE Sound(task, mem, save) /\ (task.over => save = Null)

IInv == TypeOK /\ MoveOK /\ TaskOK

-----------------------------------------------------------------------------
(* The least number of a set, which the scans are made of.                 *)

\* The segments below the numbers of a set are well-founded by inclusion.
LEMMA Least ==
  ASSUME NEW T, T \subseteq Nat, T # {}
  PROVE  \E x \in T : \A y \in T : x <= y
<1> DEFINE Below(n) == 0 .. n - 1
           Segments == {Below(n) : n \in T}
           R == StrictSubsetOrdering(Nat)
<1>1. Segments \subseteq FiniteSubsetsOf(Nat) /\ Segments # {}
  <2>1. \A n \in T : IsFiniteSet(Below(n)) /\ Below(n) \subseteq Nat
    BY FS_Interval
  <2> QED
    BY <2>1 DEF FiniteSubsetsOf
<1>2. \E x \in Segments : \A y \in Segments : ~ (<<y, x>> \in R)
  <2>1. IsWellFoundedOn(R, FiniteSubsetsOf(Nat))
    BY FS_StrictSubsetOrderingWellFounded
  <2> HIDE DEF Segments, R
  <2> QED
    BY <1>1, <2>1, WFMin
<1>3. PICK x \in T : \A y \in T : ~ (<<Below(y), Below(x)>> \in R)
  BY <1>2
<1>4. ASSUME NEW y \in T, ~(x <= y) PROVE FALSE
  <2>1. Below(y) \subseteq Below(x) /\ y \in Below(x) /\ y \notin Below(y)
    BY <1>4
  <2>2. <<Below(y), Below(x)>> \in R
    BY <2>1 DEF StrictSubsetOrdering
  <2> QED
    BY <1>3, <2>2
<1> QED
  BY <1>4

\* The least of a set of numbers is in it.
LEMMA MinIs ==
  ASSUME NEW T, T \subseteq Nat, T # {}
  PROVE  Min(T) \in T /\ \A y \in T : Min(T) <= y
<1>1. \E x \in T : \A y \in T : x <= y
  BY Least
<1> QED
  BY <1>1 DEF Min

\* A memory is a sequence.
LEMMA Memory ==
  ASSUME NEW m \in [Address -> Byte]
  PROVE  m \in Seq(Byte) /\ Len(m) = Size /\ Size \in Nat \ {0}
BY StringsAssumption DEF Address

\* Characters and the terminator are different bytes.
LEMMA BytesAre == NUL \notin Characters /\ NUL \in Byte /\ Characters \subseteq Byte
BY StringsAssumption DEF Byte, NUL

\* Where strtok's two scans stop: the first byte behind the delimiters, and the
\* first delimiter or terminator behind that.
LEMMA Scans ==
  ASSUME NEW m \in [Address -> Byte], m[Size] = NUL, NEW p \in Address,
         NEW d \in Delimiters
  PROVE  LET t == p + Span(m, p, d)
             e == p + CSpan(m, p, d)
         IN  /\ t \in p .. Size /\ m[t] \notin d
             /\ \A a \in p .. t - 1 : m[a] \in d
             /\ e \in p .. Size /\ (m[e] = NUL \/ m[e] \in d)
             /\ \A a \in p .. e - 1 : m[a] # NUL /\ m[a] \notin d
<1> DEFINE S1 == {i \in Ahead(m, p) : m[p + i] \notin d \ {NUL}}
           S2 == {i \in Ahead(m, p) : m[p + i] \in d \cup {NUL}}
<1>1. Ahead(m, p) = 0 .. Size - p /\ NUL \notin d /\ p \in Nat /\ Size \in Nat /\ p <= Size
  BY Memory, BytesAre, StringsAssumption DEF Ahead, Address
<1>2. Size - p \in S1 /\ Size - p \in S2 /\ S1 \subseteq Nat /\ S2 \subseteq Nat
  BY <1>1
<1>3. Span(m, p, d) \in S1 /\ \A y \in S1 : Span(m, p, d) <= y
  BY <1>2, MinIs DEF Span
<1>4. CSpan(m, p, d) \in S2 /\ \A y \in S2 : CSpan(m, p, d) <= y
  BY <1>2, MinIs DEF CSpan
<1> DEFINE t == p + Span(m, p, d)
           e == p + CSpan(m, p, d)
<1>5. t \in p .. Size /\ m[t] \notin d /\ e \in p .. Size /\ (m[e] = NUL \/ m[e] \in d)
  BY <1>1, <1>3, <1>4
<1>6. ASSUME NEW a \in p .. t - 1 PROVE m[a] \in d
  <2>1. a - p \in 0 .. Size - p /\ p + (a - p) = a /\ ~(Span(m, p, d) <= a - p)
    BY <1>1, <1>3, <1>5
  <2> QED
    BY <1>1, <1>3, <2>1
<1>7. ASSUME NEW a \in p .. e - 1 PROVE m[a] # NUL /\ m[a] \notin d
  <2>1. a - p \in 0 .. Size - p /\ p + (a - p) = a /\ ~(CSpan(m, p, d) <= a - p)
    BY <1>1, <1>4, <1>5
  <2> QED
    BY <1>1, <1>4, <2>1
<1> QED
  BY <1>5, <1>6, <1>7

-----------------------------------------------------------------------------
(* memmove.                                                                *)

\* A call has copied nothing yet.
LEMMA MoveCallInv ==
  ASSUME IInv, NEW d \in Address, NEW s \in Address, NEW n \in 0 .. Size - 1,
         MoveCall(d, s, n)
  PROVE  IInv'
<1>0. /\ task = NoTask /\ UNCHANGED <<mem, save, task>>
      /\ move' = [pc |-> IF d < s THEN "up" ELSE "down", d |-> d, s |-> s, n |-> n,
                  i |-> IF d < s THEN 0 ELSE n, before |-> mem]
      /\ d + n - 1 < Size /\ s + n - 1 < Size /\ d \in Nat /\ s \in Nat /\ n \in Nat
  BY DEF MoveCall, Address
<1>1. TypeOK' /\ TaskOK'
  BY <1>0 DEF IInv, TypeOK, TaskOK
<1>2. MoveOK'
  <2>1. CASE d < s
    <3>1. move' = [pc |-> "up", d |-> d, s |-> s, n |-> n, i |-> 0, before |-> mem]
      BY <1>0, <2>1
    <3>2. Copied(move.d .. move.d + move.i - 1)'
      BY <1>0, <3>1 DEF Copied
    <3> QED
      BY <1>0, <2>1, <3>1, <3>2 DEF MoveOK, IInv, TypeOK
  <2>2. CASE ~(d < s)
    <3>1. move' = [pc |-> "down", d |-> d, s |-> s, n |-> n, i |-> n, before |-> mem]
      BY <1>0, <2>2
    <3>2. Copied(move.d + move.i .. move.d + move.n - 1)'
      BY <1>0, <3>1 DEF Copied
    <3> QED
      BY <1>0, <2>2, <3>1, <3>2 DEF MoveOK, IInv, TypeOK
  <2> QED
    BY <2>1, <2>2
<1> QED
  BY <1>1, <1>2 DEF IInv

\* Of the bytes at A copied, one more is, from a place nothing was copied to.
OneMore(A, k) ==
  \A a \in Address : mem'[a] = IF a \in A \/ a = move.d + k
                               THEN move.before[move.s + a - move.d] ELSE move.before[a]

\* One byte more is copied, and the source byte was not overwritten before.
LEMMA OneByte ==
  ASSUME IInv, move # Idle, NEW k \in 0 .. move.n - 1,
         NEW A, Copied(A), move.s + k \notin A,
         mem' = [mem EXCEPT ![move.d + k] = mem[move.s + k]],
         UNCHANGED <<save, task>>
  PROVE  OneMore(A, k) /\ TypeOK' /\ TaskOK'
<1>1. /\ move.d + k \in Address \ {Size} /\ move.s + k \in Address
      /\ move.s + (move.d + k) - move.d = move.s + k
  BY StringsAssumption DEF IInv, MoveOK, Address
<1>2. mem[move.s + k] = move.before[move.s + k]
  BY <1>1 DEF Copied
<1>3. /\ mem' \in [Address -> Byte] /\ mem'[Size] = NUL
      /\ mem'[move.d + k] = mem[move.s + k]
      /\ \A a \in Address : a # move.d + k => mem'[a] = mem[a]
  BY <1>1, StringsAssumption DEF IInv, TypeOK, Address
<1>4. OneMore(A, k)
  BY <1>1, <1>2, <1>3 DEF Copied, OneMore
<1>5. TypeOK'
  BY <1>3 DEF IInv, TypeOK
<1>6. task.str = Null
  BY DEF IInv, MoveOK, NoTask
<1> QED
  BY <1>4, <1>5, <1>6 DEF IInv, TaskOK

\* Upwards, what is overwritten lies before what is still to be copied.
LEMMA MoveUpInv == IInv /\ MoveUp => IInv'
<1> SUFFICES ASSUME IInv, MoveUp PROVE IInv'
  OBVIOUS
<1>0. /\ move.pc = "up" /\ move.i < move.n /\ UNCHANGED <<save, task>>
      /\ mem' = [mem EXCEPT ![move.d + move.i] = mem[move.s + move.i]]
      /\ move' = [move EXCEPT !.i = @ + 1]
  BY DEF MoveUp
<1>1. move # Idle /\ move.d < move.s /\ Copied(move.d .. move.d + move.i - 1)
  BY <1>0 DEF IInv, MoveOK, Idle
<1>2. /\ move.d \in Nat /\ move.s \in Nat /\ move.n \in Nat /\ move.i \in 0 .. move.n - 1
      /\ move.d .. move.d + (move.i + 1) - 1 = (move.d .. move.d + move.i - 1) \cup {move.d + move.i}
  BY <1>0, <1>1 DEF IInv, MoveOK, Address
<1>3. move' = [pc |-> "up", d |-> move.d, s |-> move.s, n |-> move.n,
               i |-> move.i + 1, before |-> move.before]
  BY <1>0, <1>1 DEF IInv, MoveOK
<1>4. move.s + move.i \notin move.d .. move.d + move.i - 1
  BY <1>1, <1>2
<1>5. OneMore(move.d .. move.d + move.i - 1, move.i) /\ TypeOK' /\ TaskOK'
  BY <1>0, <1>1, <1>2, <1>4, OneByte
<1>6. Copied(move.d .. move.d + move.i - 1)'
  BY <1>2, <1>3, <1>5 DEF Copied, OneMore
<1>7. MoveOK'
  <2>1. /\ move'.pc = "up" /\ move'.d = move.d /\ move'.s = move.s /\ move'.n = move.n
        /\ move'.i = move.i + 1 /\ move'.before = move.before
        /\ move' = [pc |-> move'.pc, d |-> move'.d, s |-> move'.s, n |-> move'.n,
                    i |-> move'.i, before |-> move'.before]
    BY <1>3
  <2>2. /\ task' = NoTask /\ move.d \in Address /\ move.s \in Address /\ move.n \in Nat
        /\ move.d + move.n - 1 < Size /\ move.s + move.n - 1 < Size
        /\ move.before \in [Address -> Byte]
    BY <1>0, <1>1 DEF IInv, MoveOK
  <2>3. move'.i \in 0 .. move.n
    BY <1>2, <2>1
  <2> QED
    BY <1>1, <1>6, <2>1, <2>2, <2>3 DEF MoveOK
<1> QED
  BY <1>5, <1>7 DEF IInv

\* Downwards, it lies behind that.
LEMMA MoveDownInv == IInv /\ MoveDown => IInv'
<1> SUFFICES ASSUME IInv, MoveDown PROVE IInv'
  OBVIOUS
<1> DEFINE k == move.i - 1
<1>0. /\ move.pc = "down" /\ move.i > 0 /\ UNCHANGED <<save, task>>
      /\ mem' = [mem EXCEPT ![move.d + move.i - 1] = mem[move.s + move.i - 1]]
      /\ move' = [move EXCEPT !.i = @ - 1]
  BY DEF MoveDown
<1>1. move # Idle /\ move.s <= move.d /\ Copied(move.d + move.i .. move.d + move.n - 1)
  BY <1>0 DEF IInv, MoveOK, Idle
<1>2. /\ move.d \in Nat /\ move.s \in Nat /\ move.n \in Nat /\ move.i \in 1 .. move.n
      /\ k \in 0 .. move.n - 1
      /\ move.d + move.i - 1 = move.d + k /\ move.s + move.i - 1 = move.s + k
      /\ move.d + k .. move.d + move.n - 1
           = (move.d + move.i .. move.d + move.n - 1) \cup {move.d + k}
  BY <1>0, <1>1 DEF IInv, MoveOK, Address
<1>3. move' = [pc |-> "down", d |-> move.d, s |-> move.s, n |-> move.n,
               i |-> k, before |-> move.before]
  BY <1>0, <1>1 DEF IInv, MoveOK
<1>4. move.s + k \notin move.d + move.i .. move.d + move.n - 1
  BY <1>1, <1>2
<1>5. mem' = [mem EXCEPT ![move.d + k] = mem[move.s + k]]
  BY <1>0, <1>2
<1> HIDE DEF k
<1>6. OneMore(move.d + move.i .. move.d + move.n - 1, k) /\ TypeOK' /\ TaskOK'
  BY <1>0, <1>1, <1>2, <1>4, <1>5, OneByte
<1>7. Copied(move.d + move.i .. move.d + move.n - 1)'
  BY <1>2, <1>3, <1>6 DEF Copied, OneMore
<1>8. MoveOK'
  <2>1. /\ move'.pc = "down" /\ move'.d = move.d /\ move'.s = move.s /\ move'.n = move.n
        /\ move'.i = k /\ move'.before = move.before
        /\ move' = [pc |-> move'.pc, d |-> move'.d, s |-> move'.s, n |-> move'.n,
                    i |-> move'.i, before |-> move'.before]
    BY <1>3
  <2>2. /\ task' = NoTask /\ move.d \in Address /\ move.s \in Address /\ move.n \in Nat
        /\ move.d + move.n - 1 < Size /\ move.s + move.n - 1 < Size
        /\ move.before \in [Address -> Byte]
    BY <1>0, <1>1 DEF IInv, MoveOK
  <2>3. move'.i \in 0 .. move.n
    BY <1>2, <2>1
  <2> QED
    BY <1>1, <1>7, <2>1, <2>2, <2>3 DEF MoveOK
<1> QED
  BY <1>6, <1>8 DEF IInv

\* A move returns.
LEMMA MoveReturnInv == IInv /\ MoveReturn => IInv'
BY DEF MoveReturn, IInv, TypeOK, MoveOK, TaskOK

-----------------------------------------------------------------------------
(* strtok.                                                                 *)

\* What a task is, apart from whether it is over.
Same(U, T) == U.str = T.str /\ U.was = T.was /\ U.used = T.used

\* Fields depend on the string and its bytes only.
LEMMA SameFields ==
  ASSUME NEW T, NEW U, Same(U, T), NEW d
  PROVE  FieldsOf(U, d) = FieldsOf(T, d) /\ \A a : InF(U, a, d) = InF(T, a, d)
<1>1. \A a : In(U, a) <=> In(T, a)
  BY DEF In, Same
<1>2. \A a : InF(U, a, d) <=> InF(T, a, d)
  BY <1>1 DEF InF, Same
<1> QED
  BY <1>2 DEF FieldsOf, InF, Same

\* Behind what is cut the memory reads as it did.
LEMMA Rest ==
  ASSUME NEW T, NEW m, NEW p, Sound(T, m, p), p # Null
  PROVE  \A a \in p .. Size : a \in Address /\ m[a] = T.was[a]
<1>1. p \in Address /\ \A t \in Got(T) : t[2] < p
  BY DEF Sound, Behind
<1>2. \A t \in Got(T) : t \in Address \X Address
  BY RangeOfSeq DEF Sound, Got
<1>3. Size \in Nat /\ \A a \in p .. Size : a \in Address
  BY <1>1, StringsAssumption DEF Address
<1>4. \A a \in p .. Size : ~\E t \in Got(T) : t[2] = a
  BY <1>1, <1>2, <1>3 DEF Address
<1> QED
  BY <1>3, <1>4 DEF Sound, Cut

\* Where only delimiters are left, all fields are found.
LEMMA NoMore ==
  ASSUME NEW T, NEW m \in [Address -> Byte], m[Size] = NUL, NEW p, p # Null,
         Sound(T, m, p), NEW d \in Delimiters, d \in T.used,
         m[p + Span(m, p, d)] = NUL,
         NEW U, Same(U, T), U.tokens = T.tokens
  PROVE  Sound(U, m, Null)
<1> DEFINE t == p + Span(m, p, d)
<1>1. /\ p \in Address /\ T.str \in Address /\ T.str <= p
      /\ t \in p .. Size /\ \A a \in p .. t - 1 : m[a] \in d
  BY Scans DEF Sound, Behind
<1> HIDE DEF t
<1>2. T.was[t] = NUL /\ \A a \in p .. t - 1 : T.was[a] \in d
  <2>1. \A a \in p .. t - 1 : a \in p .. Size
    BY <1>1, StringsAssumption DEF Address
  <2> QED
    BY <1>1, <2>1, Rest DEF t
<1>3. \A f \in FieldsOf(T, d) : p <= f[1] => FALSE
  <2> SUFFICES ASSUME NEW f \in FieldsOf(T, d), p <= f[1] PROVE FALSE
    OBVIOUS
  <2>1. f[1] \in Address /\ f[2] \in Address /\ InF(T, f[1], d)
    BY StringsAssumption DEF FieldsOf, Address
  <2>2. f[1] \notin p .. t - 1
    BY <1>2, <2>1 DEF InF
  <2>3. t \in T.str .. f[1]
    BY <1>1, <2>1, <2>2, StringsAssumption DEF Address
  <2> QED
    BY <1>2, <2>1, <2>3 DEF InF, In
<1>4. ASSUME NEW c \in Delimiters, U.used = {c} PROVE Found(U, c, Null)
  <2>1. c = d /\ Found(T, d, p)
    BY <1>4 DEF Same, Sound
  <2> QED
    BY <1>3, <2>1, SameFields DEF Found, Got
<1> QED
  BY <1>4 DEF Sound, Same, Cut, Got

\* From p on, the next token goes from t up to e.
Ends(m, p, d, t, e) ==
  t = p + Span(m, p, d) /\ e = t + CSpan(m, t, d) /\ m[t] # NUL

\* What makes it one the task wants: it is a field, and there is none before it.
NextField(T, m, p, d, t, e) ==
  /\ t \in Address /\ e \in Address /\ p <= t /\ t < e
  /\ \A b \in T.str .. e - 1 : T.was[b] # NUL
  /\ T.was[e] = m[e] /\ (m[e] = NUL \/ m[e] \in d)
  /\ Found(T, d, p) =>
       /\ <<t, e>> \in FieldsOf(T, d)
       /\ \A f \in FieldsOf(T, d) \ Got(T) : f # <<t, e>> => e < f[1]

\* A new token is a field, and the next one.
LEMMA NextToken ==
  ASSUME NEW T, NEW m \in [Address -> Byte], m[Size] = NUL, NEW p, p # Null,
         Sound(T, m, p), NEW d \in Delimiters, NEW t, NEW e,
         Ends(m, p, d, t, e)
  PROVE  NextField(T, m, p, d, t, e)
<1>0. Size \in Nat /\ p \in Nat /\ T.str \in Nat /\ p <= Size /\ 0 < T.str /\ T.str <= p
  BY StringsAssumption DEF Sound, Behind, Address
<1>1. /\ t \in p .. Size /\ m[t] \notin d
      /\ \A a \in p .. t - 1 : m[a] \in d
  BY Scans DEF Sound, Behind, Ends
<1>2. t \in Address
  BY <1>0, <1>1 DEF Address
<1>3. /\ e \in t .. Size /\ (m[e] = NUL \/ m[e] \in d)
      /\ \A a \in t .. e - 1 : m[a] # NUL /\ m[a] \notin d
  BY <1>2, Scans DEF Ends
<1>4. t < e /\ e \in Address
  BY <1>0, <1>1, <1>3 DEF Address, Ends
<1>5. /\ \A a \in p .. t - 1 : T.was[a] \in d
      /\ \A a \in t .. e - 1 : T.was[a] # NUL /\ T.was[a] \notin d
      /\ T.was[e] = m[e]
  <2>1. \A a \in p .. e : T.was[a] = m[a]
    BY <1>0, <1>1, <1>3, Rest
  <2> QED
    BY <1>0, <1>1, <1>3, <1>4, <2>1
<1>6. ASSUME NEW b \in T.str .. e - 1 PROVE T.was[b] # NUL
  <2>1. CASE b \in T.str .. p - 1
    BY <2>1 DEF Sound, Behind
  <2>2. CASE b \in p .. t - 1
    BY <1>5, <2>2, BytesAre, StringsAssumption
  <2>3. CASE b \in t .. e - 1
    BY <1>5, <2>3
  <2> QED
    BY <1>0, <1>1, <1>4, <2>1, <2>2, <2>3
<1>7. ASSUME Found(T, d, p)
      PROVE  <<t, e>> \in FieldsOf(T, d)
  <2>1. \A a \in t .. e - 1 : InF(T, a, d)
    BY <1>0, <1>1, <1>3, <1>5, <1>6 DEF InF, In
  <2>2. t = T.str \/ ~InF(T, t - 1, d)
    <3>1. CASE t = p
      BY <1>7, <3>1 DEF Found
    <3>2. CASE t # p
      BY <1>0, <1>1, <1>5, <3>2 DEF InF
    <3> QED
      BY <3>1, <3>2
  <2>3. ~InF(T, e, d)
    BY <1>0, <1>3, <1>4, <1>5 DEF InF, In
  <2> QED
    BY <1>2, <1>4, <2>1, <2>2, <2>3 DEF FieldsOf
<1>8. ASSUME Found(T, d, p), NEW f \in FieldsOf(T, d) \ Got(T), f # <<t, e>>
      PROVE  e < f[1]
  <2>1. /\ f = <<f[1], f[2]>> /\ f[1] \in Address /\ f[2] \in Address /\ f[1] < f[2]
        /\ \A a \in f[1] .. f[2] - 1 : InF(T, a, d)
        /\ f[1] = T.str \/ ~ InF(T, f[1] - 1, d)
        /\ ~ InF(T, f[2], d)
    BY DEF FieldsOf
  <2>2. p <= f[1] /\ InF(T, f[1], d)
    BY <1>8, <2>1 DEF Found, Address
  <2>3. t <= f[1]
    BY <1>0, <1>1, <1>5, <2>1, <2>2 DEF InF, Address
  <2>4. \A a \in t .. e - 1 : InF(T, a, d)
    BY <1>0, <1>1, <1>3, <1>5, <1>6 DEF InF, In
  <2>5. ~InF(T, e, d)
    BY <1>0, <1>3, <1>4, <1>5 DEF InF, In
  <2>6. f[1] = t => f[2] = e
    BY <1>0, <1>1, <1>3, <1>4, <2>1, <2>4, <2>5 DEF Address
  <2>7. f[1] \notin t + 1 .. e - 1
    <3> SUFFICES ASSUME f[1] \in t + 1 .. e - 1 PROVE FALSE
      OBVIOUS
    <3>1. f[1] # T.str /\ f[1] - 1 \in t .. e - 1
      BY <1>0, <1>1, <1>3
    <3> QED
      BY <2>1, <2>4, <3>1
  <2>8. f[1] # e
    BY <2>2, <2>5
  <2> QED
    BY <1>0, <1>1, <1>3, <1>8, <2>1, <2>3, <2>6, <2>7, <2>8 DEF Address
<1> QED
  BY <1>0, <1>1, <1>2, <1>3, <1>4, <1>5, <1>6, <1>7, <1>8 DEF NextField

OneMoreToken(T, U, t, e) ==
  /\ U.tokens \in Seq(Address \X Address) /\ Got(U) = Got(T) \cup {<<t, e>>}
  /\ \A j, k \in DOMAIN U.tokens : j < k => U.tokens[j][2] < U.tokens[k][1]

\* A token more, behind those that are there.
LEMMA Appended ==
  ASSUME NEW T, NEW m, NEW p, p # Null, Sound(T, m, p),
         NEW t \in Address, NEW e \in Address, p <= t, t < e,
         NEW U, U.tokens = Append(T.tokens, <<t, e>>)
  PROVE  OneMoreToken(T, U, t, e)
<1> DEFINE s == T.tokens
           u == U.tokens
<1>1. /\ s \in Seq(Address \X Address) /\ Len(s) \in Nat /\ DOMAIN s = 1 .. Len(s)
      /\ s \in [1 .. Len(s) -> Address \X Address]
      /\ \A j, k \in DOMAIN s : j < k => s[j][2] < s[k][1]
      /\ p \in Address /\ \A j \in DOMAIN s : s[j][2] < p
  <2>1. s \in Seq(Address \X Address)
    BY DEF Sound
  <2>2. \A j \in DOMAIN s : s[j] \in Got(T)
    BY DEF Got, Range
  <2> QED
    BY <2>1, <2>2, LenProperties DEF Sound, Behind
<1>2. <<t, e>> \in Address \X Address
  OBVIOUS
<1> HIDE DEF s
<1>3. /\ u \in Seq(Address \X Address) /\ Len(u) = Len(s) + 1 /\ DOMAIN u = 1 .. Len(s) + 1
      /\ \A i \in 1 .. Len(s) : u[i] = s[i]
      /\ u[Len(s) + 1] = <<t, e>>
  <2>1. u = Append(s, <<t, e>>)
    BY DEF s
  <2>2. /\ u \in Seq(Address \X Address) /\ Len(u) = Len(s) + 1
        /\ \A i \in 1 .. Len(s) : u[i] = s[i]
        /\ u[Len(s) + 1] = <<t, e>>
    <3> DEFINE Pair == Address \X Address
               x == <<t, e>>
    <3>1. s \in Seq(Pair) /\ x \in Pair /\ u = Append(s, x)
      BY <1>1, <1>2, <2>1
    <3> HIDE DEF Pair, x, u
    <3>2. /\ u \in Seq(Pair) /\ Len(u) = Len(s) + 1
          /\ \A i \in 1 .. Len(s) : u[i] = s[i] /\ u[Len(s) + 1] = x
      BY <3>1, AppendProperties
    <3> QED
      BY <3>1, <3>2, AppendProperties DEF Pair, x
  <2> HIDE DEF u
  <2> QED
    BY <2>2, LenProperties
<1> HIDE DEF u
<1>4. Range(u) = Range(s) \cup {<<t, e>>}
  <2>1. \A i \in DOMAIN u : u[i] \in Range(s) \cup {<<t, e>>}
    BY <1>1, <1>3 DEF Range
  <2>2. \A i \in DOMAIN s : s[i] \in Range(u)
    BY <1>1, <1>3 DEF Range
  <2>3. <<t, e>> \in Range(u)
    BY <1>1, <1>3 DEF Range
  <2> QED
    BY <2>1, <2>2, <2>3 DEF Range
<1>5. ASSUME NEW j \in DOMAIN u, NEW k \in DOMAIN u, j < k
      PROVE  u[j][2] < u[k][1]
  <2>1. CASE k \in 1 .. Len(s)
    BY <1>1, <1>3, <1>5, <2>1
  <2>2. CASE k = Len(s) + 1
    <3>1. j \in DOMAIN s /\ u[j] = s[j] /\ u[k] = <<t, e>> /\ s[j][2] < p
      BY <1>1, <1>3, <1>5, <2>2
    <3>2. s[j][2] \in Nat /\ p \in Nat /\ t \in Nat
      BY <1>1, <3>1 DEF Address
    <3> QED
      BY <3>1, <3>2
  <2> QED
    BY <1>1, <1>3, <2>1, <2>2
<1> QED
  BY <1>3, <1>4, <1>5 DEF Got, s, u, OneMoreToken

\* The token is handed out: at the end of the string,
LEMMA LastToken ==
  ASSUME NEW T, NEW m \in [Address -> Byte], m[Size] = NUL, NEW p, p # Null,
         Sound(T, m, p), NEW d \in Delimiters, d \in T.used, NEW t, NEW e,
         Ends(m, p, d, t, e),
         NEW U, Same(U, T), U.tokens = Append(T.tokens, <<t, e>>),
         m[e] = NUL
  PROVE  Sound(U, m, Null)
<1>1. /\ t \in Address /\ e \in Address /\ p <= t /\ t < e
      /\ \A b \in T.str .. e - 1 : T.was[b] # NUL
      /\ T.was[e] = NUL
      /\ Found(T, d, p) =>
           /\ <<t, e>> \in FieldsOf(T, d)
           /\ \A f \in FieldsOf(T, d) \ Got(T) : f # <<t, e>> => e < f[1]
  <2>1. NextField(T, m, p, d, t, e)
    BY NextToken
  <2> QED
    BY <2>1 DEF NextField, Ends
<1>3. /\ U.tokens \in Seq(Address \X Address) /\ Got(U) = Got(T) \cup {<<t, e>>}
      /\ \A j, k \in DOMAIN U.tokens : j < k => U.tokens[j][2] < U.tokens[k][1]
  <2>1. t \in Address /\ e \in Address /\ p <= t /\ t < e
    BY <1>1
  <2>2. OneMoreToken(T, U, t, e)
    BY <2>1, Appended
  <2> QED
    BY <2>2 DEF OneMoreToken
<1>4. Cut(U, m)
  BY <1>3 DEF Cut, Same, Sound
<1>5. ASSUME NEW c \in Delimiters, U.used = {c} PROVE Found(U, c, Null)
  <2>1. c = d /\ Found(T, d, p)
    BY <1>5 DEF Same, Sound
  <2>2. \A f \in FieldsOf(T, d) : f \notin Got(U) => FALSE
    <3> SUFFICES ASSUME NEW f \in FieldsOf(T, d), f \notin Got(U) PROVE FALSE
      OBVIOUS
    <3>1. e < f[1] /\ InF(T, f[1], d) /\ f[1] \in Address /\ T.str <= e
      <4>1. f[1] < f[2] /\ f[1] \in Nat /\ f[2] \in Nat /\ \A a \in f[1] .. f[2] - 1 : InF(T, a, d)
        BY DEF FieldsOf, Address
      <4>2. T.str <= p /\ T.str \in Nat /\ p \in Nat /\ t \in Nat /\ e \in Nat
        BY <1>1 DEF Sound, Behind, Address
      <4>3. InF(T, f[1], d) /\ T.str <= e
        <5>1. f[1] \in f[1] .. f[2] - 1
          BY <4>1
        <5> QED
          BY <1>1, <4>1, <4>2, <5>1
      <4> QED
        BY <1>1, <1>3, <2>1, <4>3 DEF FieldsOf
    <3> QED
      BY <1>1, <3>1 DEF InF, In, Sound, Address
  <2>3. Got(T) \subseteq FieldsOf(T, d)
    BY <2>1 DEF Found
  <2> QED
    BY <1>1, <1>3, <2>1, <2>2, <2>3, SameFields DEF Found
<1> QED
  BY <1>3, <1>4, <1>5 DEF Sound, Same

\* or with its end made a terminator.
LEMMA InnerToken ==
  ASSUME NEW T, NEW m \in [Address -> Byte], m[Size] = NUL, NEW p, p # Null,
         Sound(T, m, p), NEW d \in Delimiters, d \in T.used, NEW t, NEW e,
         Ends(m, p, d, t, e),
         NEW U, Same(U, T), U.tokens = Append(T.tokens, <<t, e>>),
         m[e] # NUL, NEW n, n = [m EXCEPT ![e] = NUL]
  PROVE  /\ Sound(U, n, e + 1) /\ e + 1 \in Address
         /\ n \in [Address -> Byte] /\ n[Size] = NUL
<1>1. /\ t \in Address /\ e \in Address /\ p <= t /\ t < e
      /\ \A b \in T.str .. e - 1 : T.was[b] # NUL
      /\ T.was[e] = m[e] /\ m[e] \in d
      /\ Found(T, d, p) =>
           /\ <<t, e>> \in FieldsOf(T, d)
           /\ \A f \in FieldsOf(T, d) \ Got(T) : f # <<t, e>> => e < f[1]
  <2>1. NextField(T, m, p, d, t, e)
    BY NextToken
  <2> QED
    BY <2>1 DEF NextField, Ends
<1>3. /\ U.tokens \in Seq(Address \X Address) /\ Got(U) = Got(T) \cup {<<t, e>>}
      /\ \A j, k \in DOMAIN U.tokens : j < k => U.tokens[j][2] < U.tokens[k][1]
  <2>1. t \in Address /\ e \in Address /\ p <= t /\ t < e
    BY <1>1
  <2>2. OneMoreToken(T, U, t, e)
    BY <2>1, Appended
  <2> QED
    BY <2>2 DEF OneMoreToken
<1>4. e + 1 \in Address /\ n \in [Address -> Byte] /\ n[Size] = NUL
      /\ n[e] = NUL /\ \A a \in Address : a # e => n[a] = m[a]
  BY <1>1, BytesAre, StringsAssumption DEF Address
<1>5. Cut(U, n)
  BY <1>3, <1>4 DEF Cut, Same, Sound
<1>6. p \in Address /\ T.str \in Address /\ T.str <= p
      /\ \A f \in Got(T) : f[2] < p /\ f[1] \in Nat /\ f[2] \in Nat
  <2>1. Got(T) \subseteq Address \X Address
    BY RangeOfSeq DEF Sound, Got
  <2> QED
    BY <2>1 DEF Sound, Behind, Address
<1>7. Behind(U, e + 1)
  <2>1. T.str <= e + 1 /\ \A b \in T.str .. (e + 1) - 1 : T.was[b] # NUL
    BY <1>1, <1>6 DEF Address
  <2>2. \A f \in Got(U) : f[2] < e + 1
    BY <1>1, <1>3, <1>6 DEF Address
  <2> QED
    BY <1>4, <2>1, <2>2 DEF Behind, Same
<1>8. ASSUME NEW c \in Delimiters, U.used = {c} PROVE Found(U, c, e + 1)
  <2>1. c = d /\ Found(T, d, p)
    BY <1>8 DEF Same, Sound
  <2>2. ASSUME NEW f \in FieldsOf(T, d) \ Got(U)
        PROVE  (\A g \in Got(U) : g[2] < f[1]) /\ e + 1 # Null /\ e + 1 <= f[1]
    <3>1. f \in FieldsOf(T, d) \ Got(T) /\ f # <<t, e>> /\ f[1] \in Nat
      BY <1>3, <2>2 DEF FieldsOf, Address
    <3>2. e < f[1] /\ \A g \in Got(T) : g[2] < f[1]
      BY <1>1, <2>1, <3>1 DEF Found
    <3> QED
      BY <1>1, <1>3, <1>4, <3>1, <3>2 DEF Address, Null
  <2>3. Got(T) \subseteq FieldsOf(T, d) /\ <<t, e>> \in FieldsOf(T, d)
    BY <1>1, <2>1 DEF Found
  <2>4. ~InF(T, (e + 1) - 1, d)
    BY <1>1 DEF InF, Address
  <2> QED
    BY <1>3, <2>1, <2>2, <2>3, <2>4, SameFields DEF Found
<1> QED
  BY <1>3, <1>4, <1>5, <1>7, <1>8 DEF Sound, Same

TaskShape(T) ==
  T = [str |-> T.str, was |-> T.was, used |-> T.used, tokens |-> T.tokens, over |-> T.over]

\* The task of a call with a string starts over, the other goes on.
Begun(T, str, d) ==
  /\ TaskShape(T)
  /\ str # Null => /\ T.str = str /\ T.was = mem /\ T.used = {d}
                   /\ T.tokens = <<>> /\ T.over = FALSE
  /\ str = Null => /\ T.str = task.str /\ T.was = task.was
                   /\ T.used = task.used \cup {d}
                   /\ T.tokens = task.tokens /\ T.over = task.over

\* What a call of strtok makes of the task.
LEMMA TaskIs ==
  ASSUME TypeOK, NEW str, NEW d
  PROVE  Begun(Task(str, d), str, d)
<1>1. CASE str = Null
  <2>1. Task(str, d) = [str |-> task.str, was |-> task.was, used |-> task.used \cup {d},
                        tokens |-> task.tokens, over |-> task.over]
    BY <1>1 DEF Task, TypeOK
  <2> QED
    BY <1>1, <2>1 DEF TaskShape, Begun
<1>2. CASE str # Null
  <2> DEFINE T == [str |-> str, was |-> mem, used |-> {d}, tokens |-> <<>>, over |-> FALSE]
  <2>1. Task(str, d) = T
    BY <1>2 DEF Task, NoTask
  <2>2. TaskShape(T)
    BY DEF TaskShape
  <2>3. T.str = str /\ T.was = mem /\ T.used = {d} /\ T.tokens = <<>> /\ T.over = FALSE
    OBVIOUS
  <2> HIDE DEF T
  <2>4. Begun(T, str, d)
    BY <1>2, <2>2, <2>3 DEF Begun
  <2> QED
    BY <2>1, <2>4
<1> QED
  BY <1>1, <1>2

\* One more set of delimiters makes nobody promise more.
LEMMA AskedMore ==
  ASSUME NEW T, NEW m, NEW p, Sound(T, m, p), NEW d, NEW U,
         U.str = T.str, U.was = T.was, U.tokens = T.tokens, U.used = T.used \cup {d}
  PROVE  Sound(U, m, p)
<1>1. ASSUME NEW c \in Delimiters, U.used = {c} PROVE Found(U, c, p)
  <2>1. T.used = {c}
    BY <1>1 DEF Sound
  <2>2. Same(U, T) /\ Found(T, c, p)
    BY <1>1, <2>1 DEF Same, Sound
  <2> QED
    BY <2>2, SameFields DEF Found, Got, Same
<1>2. Cut(U, m) /\ (p # Null => Behind(U, p))
  BY DEF Sound, Cut, Behind, Got
<1> QED
  BY <1>1, <1>2 DEF Sound

\* A call finds the promises of the calls before it kept so far.
LEMMA GoesOn ==
  ASSUME IInv, NEW d \in Delimiters, NEW str \in {Null} \cup Address, From(str) # Null
  PROVE  /\ Sound(Task(str, d), mem, From(str))
         /\ d \in Task(str, d).used /\ TaskShape(Task(str, d))
<1> DEFINE T == Task(str, d)
<1>0. /\ TaskShape(T)
      /\ str # Null => /\ T.str = str /\ T.was = mem /\ T.used = {d}
                       /\ T.tokens = <<>> /\ T.over = FALSE
      /\ str = Null => /\ T.str = task.str /\ T.was = task.was
                       /\ T.used = task.used \cup {d}
                       /\ T.tokens = task.tokens /\ T.over = task.over
  <2>1. Begun(T, str, d)
    BY TaskIs DEF IInv
  <2> HIDE DEF T
  <2> QED
    BY <2>1 DEF Begun
<1> HIDE DEF T
<1>1. CASE str = Null
  <2>1. save # Null /\ Sound(task, mem, save)
    BY <1>1 DEF From, IInv, TaskOK
  <2> QED
    BY <1>0, <1>1, <2>1, AskedMore DEF From, T
<1>2. CASE str # Null
  <2>1. T.str = str /\ T.was = mem /\ T.used = {d} /\ T.tokens = <<>> /\ str \in Address
    BY <1>0, <1>2
  <2>2. Got(T) = {}
    BY <2>1 DEF Got, Range
  <2>3. Cut(T, mem)
    BY <2>1, <2>2 DEF Cut
  <2>4. Behind(T, str)
    BY <2>1, <2>2 DEF Behind, Address
  <2>5. ASSUME NEW c \in Delimiters PROVE Found(T, c, str)
    <3>1. ASSUME NEW f \in FieldsOf(T, c) PROVE str <= f[1]
      <4>1. f[1] \in f[1] .. f[2] - 1 /\ \A a \in f[1] .. f[2] - 1 : InF(T, a, c)
        BY DEF FieldsOf, Address
      <4> QED
        BY <2>1, <4>1 DEF InF, In, Address
    <3> QED
      BY <1>2, <2>1, <2>2, <3>1 DEF Found
  <2>6. /\ T.tokens \in Seq(Address \X Address)
        /\ \A j, k \in DOMAIN T.tokens : j < k => T.tokens[j][2] < T.tokens[k][1]
    BY <2>1
  <2>7. Sound(T, mem, str)
    BY <2>1, <2>3, <2>4, <2>5, <2>6 DEF Sound, IInv, TypeOK
  <2> QED
    BY <1>0, <1>2, <2>1, <2>7 DEF From, T
<1> QED
  BY <1>1, <1>2

\* A string that strtok is given is an address.
LEMMA StringsGiven ==
  ASSUME IInv, NEW str \in {Null, 1} \cup {t[1] : t \in Range(task.tokens)}
  PROVE  str \in {Null} \cup Address
<1>1. 1 \in Address
  BY StringsAssumption DEF Address
<1>2. Range(task.tokens) \subseteq Address \X Address
  <2>1. CASE task.str = Null
    BY <2>1 DEF IInv, TaskOK, Range
  <2>2. CASE task.str # Null
    BY <2>2, RangeOfSeq DEF IInv, TaskOK, Sound
  <2> QED
    BY <2>1, <2>2
<1> QED
  BY <1>1, <1>2

\* There is no string left: the task is over.
LEMMA NoStringInv ==
  ASSUME IInv, move = Idle, NEW d \in Delimiters, NEW str, NoString(str, d)
  PROVE  IInv'
<1>1. /\ str = Null /\ save = Null /\ UNCHANGED <<mem, save, move>>
      /\ task' = [Task(str, d) EXCEPT !.over = TRUE]
  BY DEF NoString, Says
<1>2. /\ TaskShape(task') /\ task'.str = task.str /\ task'.was = task.was
      /\ task'.used = task.used \cup {d} /\ task'.tokens = task.tokens
  <2> DEFINE T == Task(str, d)
  <2>1. Begun(T, str, d)
    BY TaskIs DEF IInv
  <2> HIDE DEF T
  <2>2. task' = [T EXCEPT !.over = TRUE]
    BY <1>1 DEF T
  <2> QED
    BY <1>1, <2>1, <2>2 DEF TaskShape, Begun
<1>3. TypeOK'
  BY <1>1, <1>2 DEF IInv, TypeOK, TaskShape
<1>4. TaskOK'
  <2>1. CASE task.str = Null
    BY <1>1, <1>2, <2>1 DEF IInv, TaskOK
  <2>2. CASE task.str # Null
    BY <1>1, <1>2, <2>2, AskedMore DEF IInv, TaskOK
  <2> QED
    BY <2>1, <2>2
<1>5. MoveOK'
  BY <1>1 DEF MoveOK
<1> QED
  BY <1>3, <1>4, <1>5 DEF IInv

\* There are only delimiters left: the task is over.
LEMMA NoTokenInv ==
  ASSUME IInv, move = Idle, NEW d \in Delimiters, NEW str \in {Null} \cup Address,
         NoToken(str, d)
  PROVE  IInv'
<1> DEFINE T == Task(str, d)
<1>1. /\ From(str) # Null /\ mem[From(str) + Span(mem, From(str), d)] = NUL
      /\ save' = Null /\ UNCHANGED <<mem, move>>
      /\ task' = [T EXCEPT !.over = TRUE]
  BY DEF NoToken, Says
<1>2. Sound(T, mem, From(str)) /\ d \in T.used /\ TaskShape(T)
  BY <1>1, GoesOn
<1> HIDE DEF T
<1>3. TaskShape(task') /\ Same(task', T) /\ task'.tokens = T.tokens
  BY <1>1, <1>2 DEF TaskShape, Same
<1>4. Sound(task', mem, Null)
  BY <1>1, <1>2, <1>3, NoMore DEF IInv, TypeOK
<1>5. task'.str # Null
  BY <1>4 DEF Sound, Address, Null
<1> QED
  BY <1>1, <1>3, <1>4, <1>5 DEF IInv, TypeOK, TaskShape, TaskOK, MoveOK

\* A token is the next field, and the search goes on behind it.
LEMMA TokenInv ==
  ASSUME IInv, move = Idle, NEW d \in Delimiters, NEW str \in {Null} \cup Address,
         Token(str, d)
  PROVE  IInv'
<1> DEFINE T == Task(str, d)
           t == From(str) + Span(mem, From(str), d)
           e == t + CSpan(mem, t, d)
<1>1. /\ From(str) # Null /\ UNCHANGED move
      /\ Ends(mem, From(str), d, t, e)
      /\ mem[e] = NUL => save' = Null /\ UNCHANGED mem
      /\ mem[e] # NUL => save' = e + 1 /\ mem' = [mem EXCEPT ![e] = NUL]
      /\ t # Null => task' = [T EXCEPT !.tokens = Append(@, <<t, e>>)]
  BY DEF Token, Says, Ends, After
<1>2. Sound(T, mem, From(str)) /\ d \in T.used /\ TaskShape(T)
  BY <1>1, GoesOn
<1>2a. mem \in [Address -> Byte] /\ mem[Size] = NUL
  BY DEF IInv, TypeOK
<1> HIDE DEF T, t, e
<1>3. t # Null
  <2>1. NextField(T, mem, From(str), d, t, e)
    BY <1>1, <1>2, <1>2a, NextToken
  <2> QED
    BY <2>1 DEF NextField, Address, Null
<1>4. /\ TaskShape(task') /\ Same(task', T)
      /\ task'.tokens = Append(T.tokens, <<t, e>>) /\ task'.over = T.over
  BY <1>1, <1>2, <1>3 DEF TaskShape, Same
<1>5. T.str # Null /\ ~T.over
  <2>1. T.str # Null
    BY <1>2 DEF Sound, Address, Null
  <2>2. CASE str = Null
    <3>1. save # Null /\ ~task.over
      BY <1>1, <2>2 DEF From, IInv, TaskOK
    <3> QED
      BY <2>1, <2>2, <3>1, TaskIs DEF T, IInv, Begun
  <2>3. CASE str # Null
    BY <2>1, <2>3, TaskIs DEF T, IInv, Begun
  <2> QED
    BY <2>2, <2>3
<1>6. CASE mem[e] = NUL
  <2>1. Sound(task', mem, Null)
    BY <1>1, <1>2, <1>2a, <1>4, <1>6, LastToken
  <2> QED
    BY <1>1, <1>4, <1>5, <1>6, <2>1 DEF IInv, TypeOK, TaskShape, TaskOK, MoveOK, Same
<1>7. CASE mem[e] # NUL
  <2>1. /\ Sound(task', mem', e + 1) /\ e + 1 \in Address
        /\ mem' \in [Address -> Byte] /\ mem'[Size] = NUL
    BY <1>1, <1>2, <1>2a, <1>4, <1>7, InnerToken
  <2>2. TypeOK'
    BY <1>1, <1>4, <1>7, <2>1 DEF TypeOK, TaskShape
  <2>3. TaskOK' /\ MoveOK'
    BY <1>1, <1>4, <1>5, <1>7, <2>1 DEF TaskOK, MoveOK, Same
  <2> QED
    BY <2>2, <2>3 DEF IInv
<1> QED
  BY <1>6, <1>7

-----------------------------------------------------------------------------
\* No call has been made at the start.
LEMMA InitInv == Init => IInv
<1> SUFFICES ASSUME Init PROVE IInv
  OBVIOUS
<1>1. /\ task = [str |-> Null, was |-> <<>>, used |-> {}, tokens |-> <<>>, over |-> FALSE]
      /\ save = Null /\ move = Idle /\ mem \in [Address -> Byte] /\ mem[Size] = NUL
  BY DEF Init, NoTask, Byte
<1> QED
  BY <1>1 DEF IInv, TypeOK, MoveOK, TaskOK

\* Every step keeps the invariant.
LEMMA NextInv == IInv /\ [Next]_vars => IInv'
<1> SUFFICES ASSUME IInv, [Next]_vars PROVE IInv'
  OBVIOUS
<1>1. ASSUME NEW d \in Address, NEW s \in Address, NEW n \in 0 .. Size - 1, MoveCall(d, s, n)
      PROVE  IInv'
  BY <1>1, MoveCallInv
<1>2. CASE MoveUp \/ MoveDown \/ MoveReturn
  BY <1>2, MoveUpInv, MoveDownInv, MoveReturnInv
<1>3. CASE Strtok
  <2>1. PICK d \in Delimiters, str \in {Null, 1} \cup {t[1] : t \in Range(task.tokens)} :
          NoString(str, d) \/ NoToken(str, d) \/ Token(str, d)
    BY <1>3 DEF Strtok
  <2>2. move = Idle
    BY <1>3 DEF Strtok
  <2>3. str \in {Null} \cup Address
    BY <2>1, StringsGiven
  <2> QED
    BY <2>1, <2>2, <2>3, NoStringInv, NoTokenInv, TokenInv
<1>4. CASE UNCHANGED vars
  BY <1>4 DEF vars, IInv, TypeOK, MoveOK, TaskOK, Copied
<1> QED
  BY <1>1, <1>2, <1>3, <1>4 DEF Next

\* So it holds always.
LEMMA Invariance == Spec => []IInv
<1> QED
  BY InitInv, NextInv, PTL DEF Spec

-----------------------------------------------------------------------------
(* What follows from it.                                                   *)

\* memmove is exact for every overlap of any two ranges (memmove, string.c:22).
THEOREM MoveIsExactHolds == Spec => []MoveIsExact
<1>1. IInv => MoveIsExact
  <2> SUFFICES ASSUME IInv, Moved
               PROVE  mem = [a \in Address |-> IF a \in move.d .. move.d + move.n - 1
                                               THEN move.before[move.s + a - move.d]
                                               ELSE move.before[a]]
    BY DEF MoveIsExact
  <2>1. move # Idle /\ mem \in [Address -> Byte]
    BY DEF Moved, Idle, IInv, TypeOK
  <2>2. Copied(move.d .. move.d + move.n - 1)
    <3>1. move.d \in Nat /\ move.n \in Nat
      BY <2>1 DEF IInv, MoveOK, Address
    <3>2. CASE move.pc = "up"
      BY <2>1, <3>2 DEF IInv, MoveOK, Moved
    <3>3. CASE move.pc = "down"
      BY <2>1, <3>1, <3>3 DEF IInv, MoveOK, Moved
    <3> QED
      BY <3>2, <3>3 DEF Moved
  <2> QED
    BY <2>1, <2>2 DEF Copied
<1> QED
  BY <1>1, Invariance, PTL

\* strtok hands out the fields of the string it was given, all and in order, as
\* long as the delimiters stay the same, and writes only behind tokens, for
\* strings that are tokens of others too (strtok, string.c:252).
THEOREM TokensAreFieldsHolds == Spec => []TokensAreFields
<1>1. IInv => TokensAreFields
  <2> SUFFICES ASSUME IInv, task.str # Null PROVE TokensAreFields
    BY DEF TokensAreFields
  <2>1. Sound(task, mem, save) /\ (task.over => save = Null)
    BY DEF IInv, TaskOK
  <2>2. ASSUME NEW d PROVE Fields(d) = FieldsOf(task, d)
    <3>1. \A a : InString(a) <=> In(task, a)
      BY DEF InString, In
    <3>2. \A a : InField(a, d) <=> InF(task, a, d)
      BY <3>1 DEF InField, InF
    <3> QED
      BY <3>2 DEF Fields, FieldsOf
  <2>3. ASSUME NEW d \in Delimiters, task.used = {d}
        PROVE  LET got == Range(task.tokens)
               IN  /\ got \subseteq Fields(d)
                   /\ \A f \in Fields(d) \ got : \A t \in got : t[2] < f[1]
                   /\ \A j, k \in DOMAIN task.tokens :
                        j < k => task.tokens[j][2] < task.tokens[k][1]
                   /\ task.over => got = Fields(d)
    <3>1. Found(task, d, save)
      BY <2>1, <2>3 DEF Sound
    <3> QED
      BY <2>1, <2>2, <3>1 DEF Found, Got, Sound
  <2>4. \A a \in Address : mem[a] =
          IF \E t \in Range(task.tokens) : t[2] = a THEN NUL ELSE task.was[a]
    BY <2>1 DEF Sound, Cut, Got
  <2> QED
    BY <2>3, <2>4 DEF TokensAreFields, IInv, TypeOK
<1> QED
  BY <1>1, Invariance, PTL

-----------------------------------------------------------------------------
(* What the functions of Text say of strings as sequences.                  *)

\* The greatest of a bounded set of numbers is in it.
LEMMA MaxIs ==
  ASSUME NEW n \in Nat, NEW T, T \subseteq 0 .. n, T # {}
  PROVE  Max(T) \in T /\ \A y \in T : y <= Max(T)
<1> DEFINE D == {n - y : y \in T}
<1>1. D \subseteq Nat /\ D # {}
  <2>1. PICK y \in T : TRUE
    OBVIOUS
  <2>2. n - y \in D
    BY <2>1
  <2>3. \A z \in T : n - z \in Nat
    OBVIOUS
  <2> QED
    BY <2>2, <2>3
<1>2. PICK x \in D : \A y \in D : x <= y
  <2> HIDE DEF D
  <2> QED
    BY <1>1, Least
<1>3. PICK z \in T : x = n - z
  OBVIOUS
<1>4. \A y \in T : z >= y
  <2> SUFFICES ASSUME NEW y \in T PROVE z >= y
    OBVIOUS
  <2>1. x <= n - y
    BY <1>2
  <2> QED
    BY <1>3, <2>1
<1>5. Max(T) \in T /\ \A y \in T : Max(T) >= y
  BY <1>3, <1>4 DEF Max
<1> QED
  BY <1>5

\* A number of a set that none is below is its least, and so for the greatest.
LEMMA ExtremeIs ==
  ASSUME NEW T, T \subseteq Nat, NEW x \in T
  PROVE  /\ (\A y \in T : x <= y) => Min(T) = x
         /\ (\A y \in T : y <= x) => Max(T) = x
<1>1. ASSUME \A y \in T : x <= y PROVE Min(T) = x
  <2>1. Min(T) \in T /\ \A y \in T : Min(T) <= y
    BY <1>1 DEF Min
  <2>2. Min(T) <= x /\ x <= Min(T) /\ Min(T) \in Nat /\ x \in Nat
    BY <1>1, <2>1
  <2> QED
    BY <2>2
<1>2. ASSUME \A y \in T : y <= x PROVE Max(T) = x
  <2>1. Max(T) \in T /\ \A y \in T : Max(T) >= y
    BY <1>2 DEF Max
  <2>2. Max(T) <= x /\ x <= Max(T) /\ Max(T) \in Nat /\ x \in Nat
    BY <1>2, <2>1
  <2> QED
    BY <2>2
<1> QED
  BY <1>1, <1>2

\* The memory as numbers.
LEMMA MemIs ==
  ASSUME TypeOK
  PROVE  /\ mem \in Seq(Byte) /\ Len(mem) = Size /\ Size \in Nat \ {0}
         /\ \A a \in Address : mem[a] \in 0 .. 255 /\ a \in Nat
         /\ \A c \in Characters \cup {NUL} : c \in 0 .. 255 /\ UChar(c) = c
         /\ NUL = 0 /\ Null = 0
<1>1. mem \in Seq(Byte) /\ Len(mem) = Size /\ Size \in Nat \ {0}
  BY Memory DEF TypeOK
<1>2. \A c \in Characters \cup {NUL} : c \in 0 .. 255
  BY StringsAssumption DEF NUL
<1>3. \A c \in 0 .. 255 : c % 256 = c
  OBVIOUS
<1>4. \A a \in Address : mem[a] \in 0 .. 255
  BY <1>2 DEF TypeOK, Byte
<1>5. \A a \in Address : a \in Nat
  BY <1>1 DEF Address
<1> QED
  BY <1>1, <1>2, <1>3, <1>4, <1>5 DEF UChar, NUL, Null

\* A string ends at its terminator, inside the memory.
LEMMA StrlenIs ==
  ASSUME TypeOK, NEW p \in Address
  PROVE  /\ Strlen(mem, p) \in 0 .. Size - p
         /\ mem[p + Strlen(mem, p)] = NUL
         /\ \A i \in 0 .. Strlen(mem, p) - 1 : mem[p + i] # NUL
         /\ \A i \in 0 .. Strlen(mem, p) : p + i \in Address
<1> DEFINE T == {i \in Ahead(mem, p) : mem[p + i] = NUL}
<1>1. Ahead(mem, p) = 0 .. Size - p /\ p \in Nat /\ Size \in Nat /\ p <= Size /\ p >= 1
  BY MemIs DEF Ahead, Address
<1>2. Size - p \in T /\ T \subseteq Nat
  BY <1>1 DEF TypeOK
<1>3. Strlen(mem, p) \in T /\ \A y \in T : Strlen(mem, p) <= y
  BY <1>2, MinIs DEF Strlen
<1>4. Strlen(mem, p) \in 0 .. Size - p /\ mem[p + Strlen(mem, p)] = NUL
  BY <1>1, <1>3
<1>5. ASSUME NEW i \in 0 .. Strlen(mem, p) - 1 PROVE mem[p + i] # NUL
  <2>1. i \in 0 .. Size - p /\ ~(Strlen(mem, p) <= i)
    BY <1>1, <1>4
  <2> QED
    BY <1>1, <1>3, <2>1
<1>6. ASSUME NEW i \in 0 .. Strlen(mem, p) PROVE p + i \in Address
  <2>1. i \in Int /\ 0 <= i /\ i <= Size - p
    BY <1>1, <1>4
  <2> QED
    BY <1>1, <2>1 DEF Address
<1> QED
  BY <1>4, <1>5, <1>6

\* Part of the memory as a sequence.
LEMMA PartIs ==
  ASSUME TypeOK, NEW p \in Address, NEW n \in Nat, p + n - 1 <= Size
  PROVE  LET s == SubSeq(mem, p, p + n - 1)
         IN  s \in Seq(0 .. 255) /\ Len(s) = n /\ \A i \in 1 .. n : s[i] = mem[p + i - 1]
<1> DEFINE q == p + n - 1
<1>1. mem \in Seq(Byte) /\ p \in Nat /\ p >= 1 /\ q \in Int /\ p \in Int /\ q - p + 1 = n
  <2>1. p \in Nat /\ p >= 1 /\ mem \in Seq(Byte)
    BY MemIs DEF Address
  <2> QED
    BY <2>1
<1>2. ASSUME NEW i \in p .. q PROVE mem[i] \in 0 .. 255
  <2>1. i \in Int /\ 1 <= i /\ i <= Size
    BY <1>1, MemIs
  <2> QED
    BY <2>1, MemIs DEF Address
<1>3. /\ SubSeq(mem, p, q) \in Seq(0 .. 255)
      /\ Len(SubSeq(mem, p, q)) = (IF p <= q THEN q - p + 1 ELSE 0)
      /\ \A i \in 1 .. q - p + 1 : SubSeq(mem, p, q)[i] = mem[p + i - 1]
  BY <1>1, <1>2, SubSeqProperties
<1> HIDE DEF q
<1>4. Len(SubSeq(mem, p, q)) = n
  BY <1>1, <1>3
<1> QED
  BY <1>1, <1>3, <1>4 DEF q

\* A string is the bytes before its terminator, none of them zero.
LEMMA StringIs ==
  ASSUME TypeOK, NEW p \in Address
  PROVE  /\ S(p) \in Seq(0 .. 255) /\ Len(S(p)) = Strlen(mem, p)
         /\ \A i \in 1 .. Strlen(mem, p) : S(p)[i] = mem[p + i - 1] /\ S(p)[i] # 0
<1>1. Strlen(mem, p) \in Nat /\ p + Strlen(mem, p) - 1 <= Size
  BY StrlenIs, MemIs
<1>2. /\ S(p) \in Seq(0 .. 255) /\ Len(S(p)) = Strlen(mem, p)
      /\ \A i \in 1 .. Strlen(mem, p) : S(p)[i] = mem[p + i - 1]
  BY <1>1, PartIs DEF S
<1>3. ASSUME NEW i \in 1 .. Strlen(mem, p) PROVE mem[p + i - 1] # 0
  <2>1. i - 1 \in 0 .. Strlen(mem, p) - 1 /\ p + (i - 1) = p + i - 1
    BY <1>1, MemIs
  <2> QED
    BY <2>1, StrlenIs, MemIs
<1> QED
  BY <1>2, <1>3

\* The first n of a sequence, or all of them.
LEMMA PrefixIs ==
  ASSUME NEW s \in Seq(0 .. 255), NEW n \in Nat
  PROVE  /\ Prefix(s, n) \in Seq(0 .. 255)
         /\ Len(Prefix(s, n)) = (IF n < Len(s) THEN n ELSE Len(s))
         /\ \A i \in 1 .. Len(Prefix(s, n)) : Prefix(s, n)[i] = s[i]
<1> DEFINE m == IF n < Len(s) THEN n ELSE Len(s)
<1>1. m \in Int /\ m \in 0 .. Len(s) /\ 1 \in Int /\ Len(s) \in Nat
  BY LenProperties
<1>2. ASSUME NEW i \in 1 .. m PROVE s[i] \in 0 .. 255
  <2>1. i \in 1 .. Len(s)
    BY <1>1
  <2> HIDE DEF m
  <2> QED
    BY <2>1, ElementOfSeq
<1>3. /\ SubSeq(s, 1, m) \in Seq(0 .. 255)
      /\ Len(SubSeq(s, 1, m)) = (IF 1 <= m THEN m - 1 + 1 ELSE 0)
      /\ \A i \in 1 .. m - 1 + 1 : SubSeq(s, 1, m)[i] = s[1 + i - 1]
  BY <1>1, <1>2, SubSeqProperties
<1> HIDE DEF m
<1>4. Len(SubSeq(s, 1, m)) = m /\ \A i \in 1 .. m : SubSeq(s, 1, m)[i] = s[i]
  BY <1>1, <1>3
<1> QED
  BY <1>3, <1>4 DEF Prefix, m

\* Two sequences begin alike if their first bytes are the same.
LEMMA SamePrefix ==
  ASSUME NEW s \in Seq(0 .. 255), NEW t \in Seq(0 .. 255), NEW j \in Nat,
         j <= Len(s), j <= Len(t)
  PROVE  Prefix(s, j) = Prefix(t, j) <=> \A i \in 1 .. j : s[i] = t[i]
<1>1. /\ Prefix(s, j) \in Seq(0 .. 255) /\ Prefix(t, j) \in Seq(0 .. 255)
      /\ Len(Prefix(s, j)) = j /\ Len(Prefix(t, j)) = j
      /\ \A i \in 1 .. j : Prefix(s, j)[i] = s[i] /\ Prefix(t, j)[i] = t[i]
  <2>1. Len(s) \in Nat /\ Len(t) \in Nat
    BY LenProperties
  <2>2. Len(Prefix(s, j)) = j /\ Len(Prefix(t, j)) = j
    BY <2>1, PrefixIs
  <2>3. /\ Prefix(s, j) \in Seq(0 .. 255)
        /\ \A i \in 1 .. Len(Prefix(s, j)) : Prefix(s, j)[i] = s[i]
    BY PrefixIs
  <2>4. /\ Prefix(t, j) \in Seq(0 .. 255)
        /\ \A i \in 1 .. Len(Prefix(t, j)) : Prefix(t, j)[i] = t[i]
    BY PrefixIs
  <2> QED
    BY <2>2, <2>3, <2>4
<1>2. ASSUME \A i \in 1 .. j : s[i] = t[i] PROVE Prefix(s, j) = Prefix(t, j)
  <2>1. \A i \in 1 .. Len(Prefix(s, j)) : Prefix(s, j)[i] = Prefix(t, j)[i]
    BY <1>1, <1>2
  <2> QED
    BY <1>1, <2>1, SeqEqual
<1>3. ASSUME Prefix(s, j) = Prefix(t, j), NEW i \in 1 .. j PROVE s[i] = t[i]
  BY <1>1, <1>3
<1> QED
  BY <1>2, <1>3

\* Bytes are integers.
LEMMA Numbers == \A x \in 0 .. 255 : x \in Int
OBVIOUS

\* Behind k equal bytes two sequences part, or one of them ends.
Parts(s, t, k) ==
  /\ k \in Nat /\ k <= Len(s) /\ k <= Len(t)
  /\ \A i \in 1 .. k : s[i] = t[i]
  /\ k < Len(s) /\ k < Len(t) => s[k + 1] # t[k + 1]

\* Where they part decides which of two sequences is before the other.
LEMMA LessIs ==
  ASSUME NEW s \in Seq(0 .. 255), NEW t \in Seq(0 .. 255), NEW k \in Nat, Parts(s, t, k)
  PROVE  Less(s, t) <=> k < Len(t) /\ (k < Len(s) => s[k + 1] < t[k + 1])
<1>1. Len(s) \in Nat /\ Len(t) \in Nat
  BY LenProperties
<1>2. ASSUME k < Len(t), k < Len(s) => s[k + 1] < t[k + 1] PROVE Less(s, t)
  <2>1. Prefix(s, k) = Prefix(t, k)
    BY SamePrefix DEF Parts
  <2>2. k \in 0 .. Len(s)
    BY <1>1 DEF Parts
  <2> QED
    BY <1>2, <2>1, <2>2 DEF Less
<1>3. ASSUME Less(s, t) PROVE k < Len(t) /\ (k < Len(s) => s[k + 1] < t[k + 1])
  <2>1. PICK j \in 0 .. Len(s) : /\ j < Len(t) /\ Prefix(s, j) = Prefix(t, j)
                                 /\ j < Len(s) => s[j + 1] < t[j + 1]
    BY <1>3 DEF Less
  <2>2. j \in Nat /\ j <= Len(s) /\ j <= Len(t)
    BY <1>1, <2>1
  <2>3. \A i \in 1 .. j : s[i] = t[i]
    BY <2>1, <2>2, SamePrefix
  <2>4. ~(j < k)
    <3> SUFFICES ASSUME j < k PROVE FALSE
      OBVIOUS
    <3>1. j + 1 \in 1 .. k /\ j < Len(s) /\ j + 1 \in 1 .. Len(s) /\ j + 1 \in 1 .. Len(t)
      BY <1>1, <2>2 DEF Parts
    <3>2. s[j + 1] \in 0 .. 255 /\ t[j + 1] \in 0 .. 255
      BY <3>1, ElementOfSeq
    <3>3. s[j + 1] = t[j + 1]
      BY <3>1 DEF Parts
    <3>4. s[j + 1] < t[j + 1]
      BY <2>1, <3>1
    <3> DEFINE x == s[j + 1]
               y == t[j + 1]
    <3>5. x = y /\ x < y /\ x \in Int /\ y \in Int
      BY <3>2, <3>3, <3>4, Numbers, Zenon
    <3> HIDE DEF x, y
    <3> QED
      BY <3>5
  <2>5. ~(k < j)
    <3> SUFFICES ASSUME k < j PROVE FALSE
      OBVIOUS
    <3>1. k + 1 \in 1 .. j /\ k < Len(s) /\ k < Len(t)
      BY <1>1, <2>2 DEF Parts
    <3> QED
      BY <2>3, <3>1 DEF Parts
  <2>6. j = k
    BY <2>2, <2>4, <2>5 DEF Parts
  <2> QED
    BY <2>1, <2>6
<1> QED
  BY <1>2, <1>3

\* The sign of a number that says how two sequences lie.
LEMMA Signs ==
  ASSUME NEW s, NEW t, NEW r \in Int, r < 0 <=> Less(s, t), r > 0 <=> Less(t, s)
  PROVE  Orders(r, s, t)
<1>1. Less(s, t) \in BOOLEAN /\ Less(t, s) \in BOOLEAN
  BY DEF Less
<1>2. (r < 0) = Less(s, t)
  BY <1>1
<1>3. (r > 0) = Less(t, s)
  BY <1>1
<1> QED
  BY <1>2, <1>3 DEF Orders

\* A comparison orders two sequences if it looks at the byte where they part.
LEMMA OrdersIs ==
  ASSUME NEW s \in Seq(0 .. 255), NEW t \in Seq(0 .. 255), NEW k \in Nat,
         Parts(s, t, k), NEW r \in Int,
         k < Len(s) /\ k < Len(t) => r = s[k + 1] - t[k + 1],
         k < Len(s) /\ k = Len(t) => r > 0,
         k = Len(s) /\ k < Len(t) => r < 0,
         k = Len(s) /\ k = Len(t) => r = 0
  PROVE  Orders(r, s, t)
<1>1. Len(s) \in Nat /\ Len(t) \in Nat /\ k \in Nat /\ k <= Len(s) /\ k <= Len(t)
  BY LenProperties DEF Parts
<1>2. Less(s, t) <=> k < Len(t) /\ (k < Len(s) => s[k + 1] < t[k + 1])
  BY LessIs
<1>3. Less(t, s) <=> k < Len(s) /\ (k < Len(t) => t[k + 1] < s[k + 1])
  <2>1. Parts(t, s, k)
    BY DEF Parts
  <2> QED
    BY <2>1, LessIs
<1>4. CASE k < Len(s) /\ k < Len(t)
  <2>1. k + 1 \in 1 .. Len(s) /\ k + 1 \in 1 .. Len(t)
    BY <1>1, <1>4
  <2>2. s[k + 1] \in 0 .. 255 /\ t[k + 1] \in 0 .. 255
    BY <2>1, ElementOfSeq
  <2> DEFINE x == s[k + 1]
             y == t[k + 1]
  <2>3. x \in Int /\ y \in Int
    BY <2>2, Numbers, Zenon
  <2>4. r = x - y
    BY <1>4, <2>3
  <2>5. (r < 0 <=> x < y) /\ (r > 0 <=> y < x)
    <3> HIDE DEF x, y
    <3> QED
      BY <2>3, <2>4
  <2>6. (r < 0 <=> Less(s, t)) /\ (r > 0 <=> Less(t, s))
    BY <1>2, <1>3, <1>4, <2>3, <2>5
  <2> QED
    BY <2>6, Signs
<1>5. CASE k = Len(s) \/ k = Len(t)
  <2>1. (r < 0 <=> k < Len(t)) /\ (r > 0 <=> k < Len(s))
    BY <1>1, <1>5
  <2>2. (r < 0 <=> Less(s, t)) /\ (r > 0 <=> Less(t, s))
    BY <1>1, <1>2, <1>3, <1>5, <2>1
  <2> QED
    BY <2>2, Signs
<1> QED
  BY <1>1, <1>4, <1>5

\* Cut off at n, a string is as long as n or itself.
LEMMA CutString ==
  ASSUME TypeOK, NEW p \in Address, NEW n \in Nat
  PROVE  LET s == Prefix(S(p), n)
         IN  /\ s \in Seq(0 .. 255)
             /\ Len(s) = (IF n < Strlen(mem, p) THEN n ELSE Strlen(mem, p))
             /\ \A i \in 1 .. Len(s) : s[i] = mem[p + i - 1] /\ s[i] # 0
<1>1. /\ S(p) \in Seq(0 .. 255) /\ Len(S(p)) = Strlen(mem, p)
      /\ \A i \in 1 .. Strlen(mem, p) : S(p)[i] = mem[p + i - 1] /\ S(p)[i] # 0
  BY StringIs
<1>2. Strlen(mem, p) \in Nat
  BY StrlenIs, MemIs
<1> DEFINE s == Prefix(S(p), n)
<1>3. /\ s \in Seq(0 .. 255)
      /\ Len(s) = (IF n < Strlen(mem, p) THEN n ELSE Strlen(mem, p))
      /\ \A i \in 1 .. Len(s) : s[i] = S(p)[i]
  BY <1>1, PrefixIs
<1> HIDE DEF s
<1>4. ASSUME NEW i \in 1 .. Len(s) PROVE s[i] = mem[p + i - 1] /\ s[i] # 0
  <2>1. i \in 1 .. Strlen(mem, p)
    BY <1>2, <1>3
  <2> QED
    BY <1>1, <1>3, <2>1
<1>5. /\ s \in Seq(0 .. 255)
      /\ Len(s) = (IF n < Strlen(mem, p) THEN n ELSE Strlen(mem, p))
      /\ \A i \in 1 .. Len(s) : s[i] = mem[p + i - 1] /\ s[i] # 0
  BY <1>3, <1>4
<1> QED
  BY <1>5 DEF s

\* Cut off behind its end it is whole.
LEMMA WholeString ==
  ASSUME TypeOK, NEW p \in Address
  PROVE  Prefix(S(p), Size) = S(p)
<1>1. S(p) \in Seq(0 .. 255) /\ Len(S(p)) = Strlen(mem, p) /\ Size \in Nat
  BY StringIs, MemIs
<1>2. Strlen(mem, p) \in Nat /\ Strlen(mem, p) <= Size
  BY <1>1, StrlenIs, MemIs
<1>3. /\ Prefix(S(p), Size) \in Seq(0 .. 255)
      /\ Len(Prefix(S(p), Size)) = (IF Size < Len(S(p)) THEN Size ELSE Len(S(p)))
      /\ \A i \in 1 .. Len(Prefix(S(p), Size)) : Prefix(S(p), Size)[i] = S(p)[i]
  BY <1>1, PrefixIs
<1>4. Len(Prefix(S(p), Size)) = Len(S(p))
  BY <1>1, <1>2, <1>3
<1> QED
  BY <1>1, <1>3, <1>4, SeqEqual

\* The offsets below n where a comparison of strings may stop.
StopsAt(a, b, n) ==
  {i \in Both(mem, a, b) : i < n /\ (mem[a + i] = NUL \/ mem[a + i] # mem[b + i])}

\* The loop is through within both strings, or at n.
LEMMA StopIs ==
  ASSUME TypeOK, NEW a \in Address, NEW b \in Address, NEW n \in Nat
  PROVE  /\ StopsAt(a, b, n) \subseteq Nat
         /\ StopsAt(a, b, n) = {} =>
              /\ n <= Strlen(mem, a) /\ n <= Strlen(mem, b)
              /\ \A i \in 0 .. n - 1 : mem[a + i] = mem[b + i]
         /\ StopsAt(a, b, n) # {} =>
              LET k == Min(StopsAt(a, b, n))
              IN  /\ k \in Nat /\ k < n /\ k <= Strlen(mem, a) /\ k <= Strlen(mem, b)
                  /\ mem[a + k] = NUL \/ mem[a + k] # mem[b + k]
                  /\ \A i \in 0 .. k - 1 : mem[a + i] = mem[b + i]
<1> DEFINE T == StopsAt(a, b, n)
           la == Strlen(mem, a)
           lb == Strlen(mem, b)
<1>1. a \in Nat /\ b \in Nat /\ a <= Size /\ b <= Size /\ Size \in Nat
  BY MemIs DEF Address
<1>2. Both(mem, a, b) = (0 .. Size - a) \cap (0 .. Size - b)
  BY MemIs DEF Both, Ahead
<1>3. /\ la \in 0 .. Size - a /\ mem[a + la] = NUL /\ \A i \in 0 .. la - 1 : mem[a + i] # NUL
      /\ lb \in 0 .. Size - b /\ mem[b + lb] = NUL /\ \A i \in 0 .. lb - 1 : mem[b + i] # NUL
  BY StrlenIs
<1>4. \A i : i \in T <=> /\ i \in (0 .. Size - a) \cap (0 .. Size - b) /\ i < n
                         /\ mem[a + i] = NUL \/ mem[a + i] # mem[b + i]
  BY <1>2 DEF StopsAt
<1> HIDE DEF T, la, lb
<1>5. T \subseteq Nat
  BY <1>1, <1>4
<1>6. ASSUME NEW k \in Nat, k <= n, \A i \in T : k <= i
      PROVE  /\ k <= la /\ k <= lb
             /\ \A i \in 0 .. k - 1 : mem[a + i] = mem[b + i]
  <2>1. ~(la < k /\ la <= lb)
    <3> SUFFICES ASSUME la < k, la <= lb PROVE FALSE
      OBVIOUS
    <3>1. la \in T
      BY <1>1, <1>3, <1>4, <1>6
    <3> QED
      BY <1>1, <1>3, <1>6, <3>1
  <2>2. ~(lb < k /\ lb < la)
    <3> SUFFICES ASSUME lb < k, lb < la PROVE FALSE
      OBVIOUS
    <3>1. lb \in 0 .. la - 1
      BY <1>1, <1>3
    <3>2. mem[a + lb] # mem[b + lb]
      BY <1>3, <3>1
    <3>3. lb \in T
      BY <1>1, <1>3, <1>4, <1>6, <3>2
    <3> QED
      BY <1>1, <1>3, <1>6, <3>3
  <2>3. k <= la /\ k <= lb
    BY <1>1, <1>3, <2>1, <2>2
  <2>4. ASSUME NEW i \in 0 .. k - 1 PROVE mem[a + i] = mem[b + i]
    <3>1. i \in (0 .. Size - a) \cap (0 .. Size - b) /\ i < n /\ ~(k <= i)
      BY <1>1, <1>3, <1>6, <2>3
    <3> QED
      BY <1>4, <1>6, <3>1
  <2> QED
    BY <2>3, <2>4
<1>7. ASSUME T = {}
      PROVE  n <= la /\ n <= lb /\ \A i \in 0 .. n - 1 : mem[a + i] = mem[b + i]
  BY <1>6, <1>7
<1>8. ASSUME T # {}
      PROVE  /\ Min(T) \in Nat /\ Min(T) < n /\ Min(T) <= la /\ Min(T) <= lb
             /\ mem[a + Min(T)] = NUL \/ mem[a + Min(T)] # mem[b + Min(T)]
             /\ \A i \in 0 .. Min(T) - 1 : mem[a + i] = mem[b + i]
  <2>1. Min(T) \in T /\ \A y \in T : Min(T) <= y
    BY <1>5, <1>8, MinIs
  <2>2. /\ Min(T) \in Nat /\ Min(T) < n
        /\ mem[a + Min(T)] = NUL \/ mem[a + Min(T)] # mem[b + Min(T)]
    BY <1>4, <1>5, <2>1
  <2> DEFINE k == Min(T)
  <2>3. k \in Nat /\ k <= n /\ \A i \in T : k <= i
    BY <2>1, <2>2
  <2> HIDE DEF k
  <2>4. k <= la /\ k <= lb /\ \A i \in 0 .. k - 1 : mem[a + i] = mem[b + i]
    BY <1>6, <2>3
  <2> QED
    BY <2>2, <2>4 DEF k
<1> QED
  BY <1>5, <1>7, <1>8 DEF T, la, lb

\* The first k bytes at a and b are the bytes of s and t, and those agree.
LEMMA AlikeTo ==
  ASSUME NEW a \in Nat, NEW b \in Nat, NEW s, NEW t, NEW k \in Nat,
         \A i \in 1 .. k : s[i] = mem[a + i - 1] /\ t[i] = mem[b + i - 1],
         \A i \in 0 .. k - 1 : mem[a + i] = mem[b + i]
  PROVE  \A i \in 1 .. k : s[i] = t[i]
<1> SUFFICES ASSUME NEW i \in 1 .. k PROVE s[i] = t[i]
  OBVIOUS
<1>1. i - 1 \in 0 .. k - 1 /\ a + (i - 1) = a + i - 1 /\ b + (i - 1) = b + i - 1
  OBVIOUS
<1> QED
  BY <1>1

\* strncmp looks at that byte of the strings cut off at n.
LEMMA StrncmpOrders ==
  ASSUME TypeOK, NEW a \in Address, NEW b \in Address, NEW n \in Nat
  PROVE  Orders(Strncmp(mem, a, b, n), Prefix(S(a), n), Prefix(S(b), n))
<1> DEFINE s == Prefix(S(a), n)
           t == Prefix(S(b), n)
           T == StopsAt(a, b, n)
           r == Strncmp(mem, a, b, n)
           la == Strlen(mem, a)
           lb == Strlen(mem, b)
<1>1. /\ s \in Seq(0 .. 255) /\ Len(s) = (IF n < la THEN n ELSE la)
      /\ \A i \in 1 .. Len(s) : s[i] = mem[a + i - 1] /\ s[i] # 0
      /\ t \in Seq(0 .. 255) /\ Len(t) = (IF n < lb THEN n ELSE lb)
      /\ \A i \in 1 .. Len(t) : t[i] = mem[b + i - 1] /\ t[i] # 0
  BY CutString
<1>2. a \in Nat /\ b \in Nat /\ la \in Nat /\ lb \in Nat /\ Size \in Nat
  BY StrlenIs, MemIs
<1>3. /\ mem[a + la] = 0 /\ \A i \in 0 .. la - 1 : mem[a + i] # 0
      /\ mem[b + lb] = 0 /\ \A i \in 0 .. lb - 1 : mem[b + i] # 0
      /\ \A i \in 0 .. la : mem[a + i] \in 0 .. 255
      /\ \A i \in 0 .. lb : mem[b + i] \in 0 .. 255
  BY StrlenIs, MemIs
<1>4. r = IF T = {} THEN 0 ELSE mem[a + Min(T)] - mem[b + Min(T)]
  BY DEF Strncmp, Difference, StopsAt
<1>5. /\ T = {} =>
           /\ n <= la /\ n <= lb
           /\ \A i \in 0 .. n - 1 : mem[a + i] = mem[b + i]
      /\ T # {} =>
           /\ Min(T) \in Nat /\ Min(T) < n /\ Min(T) <= la /\ Min(T) <= lb
           /\ mem[a + Min(T)] = NUL \/ mem[a + Min(T)] # mem[b + Min(T)]
           /\ \A i \in 0 .. Min(T) - 1 : mem[a + i] = mem[b + i]
  BY StopIs
<1> HIDE DEF s, t, T, r, la, lb
<1>6. CASE T = {}
  <2>1. n <= Len(s) /\ n <= Len(t) /\ Len(s) = n /\ Len(t) = n /\ r = 0
    BY <1>1, <1>2, <1>4, <1>5, <1>6
  <2>2. \A i \in 1 .. n : s[i] = t[i]
    <3>1. \A i \in 1 .. n : s[i] = mem[a + i - 1] /\ t[i] = mem[b + i - 1]
      BY <1>1, <2>1
    <3>2. \A i \in 0 .. n - 1 : mem[a + i] = mem[b + i]
      BY <1>5, <1>6
    <3> QED
      BY <1>2, <3>1, <3>2, AlikeTo
  <2>3. Parts(s, t, n)
    BY <2>1, <2>2 DEF Parts
  <2>4. Orders(r, s, t)
    BY <1>1, <2>1, <2>3, OrdersIs
  <2> QED
    BY <2>4 DEF r, s, t
<1>7. CASE T # {}
  <2> DEFINE k == Min(T)
  <2>1. /\ k \in Nat /\ k < n /\ k <= la /\ k <= lb
        /\ mem[a + k] = 0 \/ mem[a + k] # mem[b + k]
        /\ \A i \in 0 .. k - 1 : mem[a + i] = mem[b + i]
        /\ r = mem[a + k] - mem[b + k]
    BY <1>4, <1>5, <1>7 DEF NUL
  <2> HIDE DEF k
  <2>2. k <= Len(s) /\ k <= Len(t) /\ (k < Len(s) <=> k < la) /\ (k < Len(t) <=> k < lb)
    BY <1>1, <1>2, <2>1
  <2>3. Len(s) \in Nat /\ Len(t) \in Nat
    BY <1>1, LenProperties
  <2>4. \A i \in 1 .. k : s[i] = mem[a + i - 1] /\ t[i] = mem[b + i - 1]
    BY <1>1, <2>1, <2>2, <2>3
  <2>5. \A i \in 1 .. k : s[i] = t[i]
    BY <1>2, <2>1, <2>4, AlikeTo
  <2>6. k < Len(s) => s[k + 1] = mem[a + k] /\ mem[a + k] # 0
    <3> SUFFICES ASSUME k < Len(s) PROVE s[k + 1] = mem[a + k] /\ mem[a + k] # 0
      OBVIOUS
    <3>1. k + 1 \in 1 .. Len(s) /\ a + (k + 1) - 1 = a + k
      BY <1>2, <2>1, <2>3
    <3> QED
      BY <1>1, <3>1
  <2>7. k < Len(t) => t[k + 1] = mem[b + k] /\ mem[b + k] # 0
    <3> SUFFICES ASSUME k < Len(t) PROVE t[k + 1] = mem[b + k] /\ mem[b + k] # 0
      OBVIOUS
    <3>1. k + 1 \in 1 .. Len(t) /\ b + (k + 1) - 1 = b + k
      BY <1>2, <2>1, <2>3
    <3> QED
      BY <1>1, <3>1
  <2>8. k = Len(s) => mem[a + k] = 0
    BY <1>2, <1>3, <2>1, <2>2, <2>3
  <2>9. k = Len(t) => mem[b + k] = 0
    <3>1. k = Len(t) => k = lb
      BY <1>2, <2>1, <2>2, <2>3
    <3> QED
      BY <1>3, <3>1
  <2>10. mem[a + k] \in 0 .. 255 /\ mem[b + k] \in 0 .. 255
    BY <1>2, <1>3, <2>1
  <2>11. k < Len(s) /\ k < Len(t) => s[k + 1] # t[k + 1]
    BY <2>1, <2>6, <2>7
  <2>12. Parts(s, t, k)
    BY <2>1, <2>2, <2>5, <2>11 DEF Parts
  <2>13. r \in Int
    BY <2>1, <2>10
  <2>14. k < Len(s) /\ k < Len(t) => r = s[k + 1] - t[k + 1]
    BY <2>1, <2>6, <2>7
  <2> DEFINE x == mem[a + k]
             y == mem[b + k]
  <2>15. /\ x \in 0 .. 255 /\ y \in 0 .. 255 /\ r = x - y
         /\ k < Len(s) => x # 0
         /\ k = Len(s) => x = 0
         /\ k < Len(t) => y # 0
         /\ k = Len(t) => y = 0
    BY <2>1, <2>6, <2>7, <2>8, <2>9, <2>10
  <2>16. k < Len(s) /\ k = Len(t) => r > 0
    <3> HIDE DEF x, y
    <3> QED
      BY <2>15
  <2>17. k = Len(s) /\ k < Len(t) => r < 0
    <3> HIDE DEF x, y
    <3> QED
      BY <2>15
  <2>18. k = Len(s) /\ k = Len(t) => r = 0
    BY <2>1, <2>8, <2>9
  <2>19. Orders(r, s, t)
    BY <1>1, <2>1, <2>12, <2>13, <2>14, <2>16, <2>17, <2>18, OrdersIs
  <2> QED
    BY <2>19 DEF r, s, t
<1> QED
  BY <1>6, <1>7

\* strcmp is strncmp with room for every string.
LEMMA StrcmpOrders ==
  ASSUME TypeOK, NEW a \in Address, NEW b \in Address
  PROVE  Orders(Strcmp(mem, a, b), S(a), S(b))
<1>1. Size \in Nat /\ a \in Nat /\ a >= 1 /\ Len(mem) = Size
  BY MemIs DEF Address
<1>2. \A i \in Both(mem, a, b) : i < Size
  BY <1>1 DEF Both, Ahead
<1>3. Strcmp(mem, a, b) = Strncmp(mem, a, b, Size)
  BY <1>2 DEF Strcmp, Strncmp
<1>4. Orders(Strncmp(mem, a, b, Size), Prefix(S(a), Size), Prefix(S(b), Size))
  BY <1>1, StrncmpOrders
<1> QED
  BY <1>3, <1>4, WholeString

\* memcmp looks at that byte of two arrays.
LEMMA MemcmpOrders ==
  ASSUME TypeOK, NEW a \in Address, NEW b \in Address, NEW n \in Nat, Fits(a, n), Fits(b, n)
  PROVE  Orders(Memcmp(mem, a, b, n), Bytes(a, n), Bytes(b, n))
<1> DEFINE s == Bytes(a, n)
           t == Bytes(b, n)
           T == {i \in 0 .. n - 1 : mem[a + i] # mem[b + i]}
           r == Memcmp(mem, a, b, n)
<1>1. a \in Nat /\ b \in Nat /\ Size \in Nat /\ a + n - 1 <= Size /\ b + n - 1 <= Size
      /\ a >= 1 /\ b >= 1
  BY MemIs DEF Fits, Address
<1>2. /\ s \in Seq(0 .. 255) /\ Len(s) = n /\ \A i \in 1 .. n : s[i] = mem[a + i - 1]
      /\ t \in Seq(0 .. 255) /\ Len(t) = n /\ \A i \in 1 .. n : t[i] = mem[b + i - 1]
  BY <1>1, PartIs DEF Bytes
<1>3. r = IF T = {} THEN 0 ELSE mem[a + Min(T)] - mem[b + Min(T)]
  BY DEF Memcmp, Difference
<1>4. T \subseteq Nat
  OBVIOUS
<1>5. \A i : i \in T <=> i \in 0 .. n - 1 /\ mem[a + i] # mem[b + i]
  OBVIOUS
<1> HIDE DEF s, t, T, r
<1>6. CASE T = {}
  <2>1. \A i \in 0 .. n - 1 : mem[a + i] = mem[b + i]
    BY <1>5, <1>6
  <2>2. \A i \in 1 .. n : s[i] = t[i]
    <3> SUFFICES ASSUME NEW i \in 1 .. n PROVE s[i] = t[i]
      OBVIOUS
    <3>1. i - 1 \in 0 .. n - 1 /\ a + (i - 1) = a + i - 1 /\ b + (i - 1) = b + i - 1
      BY <1>1
    <3>2. mem[a + (i - 1)] = mem[b + (i - 1)]
      BY <2>1, <3>1
    <3> QED
      BY <1>2, <3>1, <3>2
  <2>3. Parts(s, t, n) /\ r = 0
    BY <1>2, <1>3, <1>6, <2>2 DEF Parts
  <2>4. Orders(r, s, t)
    BY <1>2, <2>3, OrdersIs
  <2> QED
    BY <2>4 DEF r, s, t
<1>7. CASE T # {}
  <2> DEFINE k == Min(T)
  <2>1. k \in T /\ (\A y \in T : k <= y) /\ r = mem[a + k] - mem[b + k]
    BY <1>3, <1>4, <1>7, MinIs
  <2> HIDE DEF k
  <2>2. k \in 0 .. n - 1 /\ mem[a + k] # mem[b + k]
    BY <1>5, <2>1
  <2>3. ASSUME NEW i \in 0 .. k - 1 PROVE mem[a + i] = mem[b + i]
    BY <1>5, <2>1, <2>2, <2>3
  <2>4. \A i \in 1 .. k : s[i] = t[i]
    <3>1. \A i \in 1 .. k : s[i] = mem[a + i - 1] /\ t[i] = mem[b + i - 1]
      BY <1>2, <2>2
    <3>2. k \in Nat
      BY <2>2
    <3> QED
      BY <1>1, <2>3, <3>1, <3>2, AlikeTo
  <2>5. k + 1 \in 1 .. n /\ a + (k + 1) - 1 = a + k /\ b + (k + 1) - 1 = b + k
    BY <1>1, <2>2
  <2>6. s[k + 1] = mem[a + k] /\ t[k + 1] = mem[b + k]
    BY <1>2, <2>5
  <2>7. a + k \in Address /\ b + k \in Address
    BY <1>1, <2>2 DEF Address
  <2>8. mem[a + k] \in 0 .. 255 /\ mem[b + k] \in 0 .. 255
    BY <2>7, MemIs
  <2>9. Parts(s, t, k) /\ k \in Nat /\ k < Len(s) /\ k < Len(t)
    BY <1>2, <2>2, <2>4, <2>6 DEF Parts
  <2>10. r \in Int /\ r = s[k + 1] - t[k + 1]
    BY <2>1, <2>6, <2>8
  <2>11. ~(k = Len(s)) /\ ~(k = Len(t))
    BY <1>2, <2>2
  <2>12. Orders(r, s, t)
    BY <1>2, <2>9, <2>10, <2>11, OrdersIs
  <2> QED
    BY <2>12 DEF r, s, t
<1> QED
  BY <1>6, <1>7

\* Offsets H from a stand for the addresses P.
LEMMA Places ==
  ASSUME NEW a \in Nat, NEW n \in Nat, NEW H, H \subseteq 0 .. n, NEW P, P \subseteq Nat,
         \A i \in H : a + i \in P, \A q \in P : q - a \in H
  PROVE  /\ P = {} <=> H = {}
         /\ H # {} => FirstOf(P) = a + Min(H) /\ LastOf(P) = a + Max(H)
<1>1. P = {} <=> H = {}
  OBVIOUS
<1>2. ASSUME H # {} PROVE FirstOf(P) = a + Min(H) /\ LastOf(P) = a + Max(H)
  <2>1. Min(H) \in H /\ \A y \in H : Min(H) <= y
    <3>1. H \subseteq Nat
      OBVIOUS
    <3> QED
      BY <1>2, <3>1, MinIs
  <2>2. Max(H) \in H /\ \A y \in H : y <= Max(H)
    BY <1>2, MaxIs
  <2>3. Min(H) \in Nat /\ Max(H) \in Nat /\ a + Min(H) \in P /\ a + Max(H) \in P
    <3>1. \A i \in H : i \in Nat
      OBVIOUS
    <3> QED
      BY <2>1, <2>2, <3>1
  <2>4. ASSUME NEW q \in P PROVE a + Min(H) <= q /\ q <= a + Max(H)
    <3>1. q - a \in H /\ q \in Nat
      OBVIOUS
    <3>2. Min(H) <= q - a /\ q - a <= Max(H)
      BY <2>1, <2>2, <3>1
    <3> QED
      BY <2>3, <3>1, <3>2
  <2>5. Min(P) = a + Min(H) /\ Max(P) = a + Max(H)
    BY <2>3, <2>4, ExtremeIs
  <2> QED
    BY <1>1, <1>2, <2>5 DEF FirstOf, LastOf
<1> QED
  BY <1>1, <1>2

\* One place only.
LEMMA OnePlace ==
  ASSUME NEW p \in Nat
  PROVE  FirstOf({p}) = p /\ LastOf({p}) = p
<1>1. Min({p}) = p /\ Max({p}) = p
  <2>1. {p} \subseteq Nat /\ p \in {p} /\ (\A y \in {p} : p <= y) /\ (\A y \in {p} : y <= p)
    OBVIOUS
  <2> QED
    BY <2>1, ExtremeIs
<1> QED
  BY <1>1 DEF FirstOf, LastOf

\* None at all.
LEMMA NoPlace == FirstOf({}) = Null /\ LastOf({}) = Null
BY DEF FirstOf, LastOf

\* strchr, strrchr and memchr look among the same bytes.
LEMMA FindsByte ==
  ASSUME TypeOK, NEW a \in Address, NEW c \in Characters \cup {NUL}
  PROVE  /\ Strchr(mem, a, c) = FirstOf(Where(a, c))
         /\ Strrchr(mem, a, c) = LastOf(Where(a, c))
         /\ Memchr(mem, a, c, Strlen(mem, a) + 1) = Strchr(mem, a, c)
<1> DEFINE l == Strlen(mem, a)
           P == Where(a, c)
           H == Hits(mem, a, c)
           M == {i \in 0 .. (l + 1) - 1 : mem[a + i] = UChar(c)}
<1>1. a \in Nat /\ l \in Nat /\ UChar(c) = c /\ NUL = 0
  BY StrlenIs, MemIs
<1>2. /\ \A q : q \in P <=> q \in a .. a + l /\ mem[q] = c
      /\ \A i : i \in H <=> i \in 0 .. l - 1 /\ mem[a + i] = c
      /\ \A i : i \in M <=> i \in 0 .. l /\ mem[a + i] = c
  BY <1>1 DEF Where, Hits
<1>3. mem[a + l] = NUL /\ \A i \in 0 .. l - 1 : mem[a + i] # NUL
  BY StrlenIs
<1>4. /\ Strchr(mem, a, c) = IF H # {} THEN a + Min(H) ELSE IF c = 0 THEN a + l ELSE Null
      /\ Strrchr(mem, a, c) = IF c = 0 THEN a + l ELSE IF H # {} THEN a + Max(H) ELSE Null
      /\ Memchr(mem, a, c, l + 1) = IF M = {} THEN Null ELSE a + Min(M)
  BY DEF Strchr, Strrchr, Memchr
<1> HIDE DEF l, P, H, M
<1>5. H \subseteq 0 .. l /\ M \subseteq 0 .. l /\ P \subseteq Nat
  BY <1>1, <1>2
<1>6. /\ \A i \in M : a + i \in P
      /\ \A q \in P : q - a \in M
  <2>1. ASSUME NEW i \in M PROVE a + i \in P
    BY <1>1, <1>2
  <2>2. ASSUME NEW q \in P PROVE q - a \in M
    <3>1. q \in a .. a + l /\ mem[q] = c
      BY <1>2
    <3>2. q - a \in 0 .. l /\ a + (q - a) = q
      BY <1>1, <3>1
    <3> QED
      BY <1>2, <3>1, <3>2
  <2> QED
    BY <2>1, <2>2
<1>7. CASE c = NUL
  <2>1. H = {}
    BY <1>2, <1>3, <1>7
  <2>2. P = {a + l} /\ M = {l}
    <3>1. \A i : i \in M <=> i = l
      BY <1>1, <1>2, <1>3, <1>7
    <3>2. M = {l}
      BY <3>1
    <3>3. ASSUME NEW q PROVE q \in P <=> q = a + l
      <4>1. q \in P => q - a = l /\ q \in Nat
        BY <1>5, <1>6, <3>1
      <4>2. q \in P => q = a + l
        BY <1>1, <4>1
      <4>3. a + l \in P
        BY <1>6, <3>2
      <4> QED
        BY <4>2, <4>3
    <3> QED
      BY <3>2, <3>3
  <2>3. a + l \in Nat /\ Min(M) = l
    <3>1. {l} \subseteq Nat /\ l \in {l} /\ \A y \in {l} : l <= y
      BY <1>1
    <3> QED
      BY <1>1, <2>2, <3>1, ExtremeIs
  <2>4. FirstOf(P) = a + l /\ LastOf(P) = a + l
    BY <2>2, <2>3, OnePlace
  <2>5. /\ Strchr(mem, a, c) = a + l /\ Strrchr(mem, a, c) = a + l
        /\ Memchr(mem, a, c, l + 1) = a + l
    BY <1>1, <1>4, <1>7, <2>1, <2>2, <2>3
  <2> QED
    BY <2>4, <2>5 DEF P, l
<1>8. CASE c # NUL
  <2>1. H = M
    <3>1. \A i : i \in M => i # l
      BY <1>2, <1>3, <1>8
    <3>2. \A i : i \in 0 .. l /\ i # l <=> i \in 0 .. l - 1
      BY <1>1
    <3>3. \A i : i \in M <=> i \in H
      BY <1>2, <3>1, <3>2
    <3> QED
      BY <3>3
  <2>2. /\ P = {} <=> M = {}
        /\ M # {} => FirstOf(P) = a + Min(M) /\ LastOf(P) = a + Max(M)
    BY <1>1, <1>5, <1>6, Places
  <2>3. /\ Strchr(mem, a, c) = FirstOf(P) /\ Strrchr(mem, a, c) = LastOf(P)
        /\ Memchr(mem, a, c, l + 1) = Strchr(mem, a, c)
    BY <1>1, <1>4, <1>8, <2>1, <2>2, NoPlace
  <2> QED
    BY <2>3 DEF P, l
<1> QED
  BY <1>7, <1>8

\* strchr finds a character that is in the string, and no other.
LEMMA FindsMember ==
  ASSUME TypeOK, NEW b \in Address, NEW c \in Characters
  PROVE  Strchr(mem, b, c) # Null <=> c \in Chars(mem, b)
<1> DEFINE l == Strlen(mem, b)
           H == Hits(mem, b, c)
<1>1. b \in Nat /\ b > 0 /\ l \in Nat /\ UChar(c) = c /\ NUL = 0 /\ Null = 0 /\ c # 0
  <2>1. b \in Nat /\ b > 0
    BY MemIs DEF Address
  <2> QED
    BY <2>1, StrlenIs, MemIs, BytesAre
<1>2. \A i : i \in H <=> i \in 0 .. l - 1 /\ mem[b + i] = c
  BY <1>1 DEF Hits
<1>3. H # {} <=> c \in Chars(mem, b)
  BY <1>2 DEF Chars
<1>4. Strchr(mem, b, c) = IF H # {} THEN b + Min(H) ELSE Null
  BY <1>1 DEF Strchr
<1> HIDE DEF H, l
<1>5. ASSUME H # {} PROVE b + Min(H) # 0
  <2>1. H \subseteq Nat
    BY <1>1, <1>2
  <2>2. Min(H) \in Nat
    BY <1>5, <2>1, MinIs
  <2> QED
    BY <1>1, <2>2
<1> QED
  BY <1>1, <1>3, <1>4, <1>5

\* A byte of a string, and what is at its end.
LEMMA ByteOf ==
  ASSUME TypeOK, NEW a \in Address
  PROVE  /\ \A i \in 0 .. Strlen(mem, a) - 1 : mem[a + i] \in Characters
         /\ \A i \in 0 .. Strlen(mem, a) : mem[a + i] \in Characters \cup {NUL}
<1>1. \A i \in 0 .. Strlen(mem, a) : mem[a + i] \in Characters \cup {NUL}
  BY StrlenIs DEF TypeOK, Byte
<1>2. \A i \in 0 .. Strlen(mem, a) - 1 : mem[a + i] # NUL
  BY StrlenIs
<1>3. \A i \in 0 .. Strlen(mem, a) - 1 : i \in 0 .. Strlen(mem, a)
  BY StrlenIs, MemIs
<1> QED
  BY <1>1, <1>2, <1>3

\* Where strspn and strcspn stop.
LEMMA SpanIs ==
  ASSUME TypeOK, NEW a \in Address, NEW X
  PROVE  LET k == Span(mem, a, X)
             e == CSpan(mem, a, X)
         IN  /\ k \in 0 .. Strlen(mem, a) /\ mem[a + k] \notin X \ {NUL}
             /\ \A i \in 0 .. k - 1 : mem[a + i] \in X \ {NUL}
             /\ e \in 0 .. Strlen(mem, a) /\ mem[a + e] \in X \cup {NUL}
             /\ \A i \in 0 .. e - 1 : mem[a + i] \notin X \cup {NUL}
<1> DEFINE l == Strlen(mem, a)
           K == {i \in Ahead(mem, a) : mem[a + i] \notin X \ {NUL}}
           E == {i \in Ahead(mem, a) : mem[a + i] \in X \cup {NUL}}
           k == Span(mem, a, X)
           e == CSpan(mem, a, X)
<1>1. Ahead(mem, a) = 0 .. Size - a /\ a \in Nat /\ Size \in Nat
  BY MemIs DEF Ahead
<1>2. l \in 0 .. Size - a /\ mem[a + l] = NUL
  BY StrlenIs
<1>3. /\ \A i : i \in K <=> i \in 0 .. Size - a /\ mem[a + i] \notin X \ {NUL}
      /\ \A i : i \in E <=> i \in 0 .. Size - a /\ mem[a + i] \in X \cup {NUL}
      /\ k = Min(K) /\ e = Min(E)
  BY <1>1 DEF Span, CSpan
<1> HIDE DEF l, K, E, k, e
<1>4. K \subseteq Nat /\ E \subseteq Nat /\ l \in K /\ l \in E
  BY <1>1, <1>2, <1>3
<1>5. /\ k \in K /\ \A y \in K : k <= y
      /\ e \in E /\ \A y \in E : e <= y
  BY <1>3, <1>4, MinIs
<1>6. k \in 0 .. l /\ e \in 0 .. l
  BY <1>1, <1>2, <1>4, <1>5
<1>7. ASSUME NEW i \in 0 .. k - 1 PROVE mem[a + i] \in X \ {NUL}
  <2>1. i \in 0 .. Size - a /\ ~(k <= i)
    BY <1>1, <1>2, <1>6
  <2> QED
    BY <1>3, <1>5, <2>1
<1>8. ASSUME NEW i \in 0 .. e - 1 PROVE mem[a + i] \notin X \cup {NUL}
  <2>1. i \in 0 .. Size - a /\ ~(e <= i)
    BY <1>1, <1>2, <1>6
  <2> QED
    BY <1>3, <1>5, <2>1
<1>9. /\ k \in 0 .. l /\ mem[a + k] \notin X \ {NUL}
      /\ \A i \in 0 .. k - 1 : mem[a + i] \in X \ {NUL}
      /\ e \in 0 .. l /\ mem[a + e] \in X \cup {NUL}
      /\ \A i \in 0 .. e - 1 : mem[a + i] \notin X \cup {NUL}
  BY <1>3, <1>5, <1>6, <1>7, <1>8
<1> QED
  BY <1>9 DEF k, e, l

\* The needle is there, by strstr's inner loop, if the string begins with it.
LEMMA BeginsIs ==
  ASSUME TypeOK, NEW h \in Address, NEW b \in Address
  PROVE  Begins(mem, h, b) <=> Prefix(S(h), Len(S(b))) = S(b)
<1> DEFINE T == {i \in Both(mem, h, b) :
                   mem[h + i] = NUL \/ mem[b + i] = NUL \/ mem[h + i] # mem[b + i]}
           k == Min(T)
           lh == Strlen(mem, h)
           lb == Strlen(mem, b)
           s == S(h)
           t == S(b)
           u == Prefix(s, lb)
<1>1. h \in Nat /\ b \in Nat /\ Size \in Nat /\ lh \in Nat /\ lb \in Nat
  BY StrlenIs, MemIs
<1>2. /\ lh \in 0 .. Size - h /\ mem[h + lh] = NUL /\ \A i \in 0 .. lh - 1 : mem[h + i] # NUL
      /\ lb \in 0 .. Size - b /\ mem[b + lb] = NUL /\ \A i \in 0 .. lb - 1 : mem[b + i] # NUL
  BY StrlenIs
<1>3. Both(mem, h, b) = (0 .. Size - h) \cap (0 .. Size - b)
  BY MemIs DEF Both, Ahead
<1>4. /\ \A i : i \in T <=>
           /\ i \in (0 .. Size - h) \cap (0 .. Size - b)
           /\ mem[h + i] = NUL \/ mem[b + i] = NUL \/ mem[h + i] # mem[b + i]
      /\ Begins(mem, h, b) <=> mem[b + k] = NUL
  BY <1>3 DEF Begins
<1>5. /\ s \in Seq(0 .. 255) /\ Len(s) = lh /\ \A i \in 1 .. lh : s[i] = mem[h + i - 1]
      /\ t \in Seq(0 .. 255) /\ Len(t) = lb /\ \A i \in 1 .. lb : t[i] = mem[b + i - 1]
  BY StringIs
<1>6. /\ u \in Seq(0 .. 255) /\ Len(u) = (IF lb < lh THEN lb ELSE lh)
      /\ \A i \in 1 .. Len(u) : u[i] = s[i]
  BY <1>1, <1>5, PrefixIs
<1> HIDE DEF T, k, lh, lb, s, t, u
<1>7. T \subseteq Nat /\ T # {}
  <2>1. CASE lh <= lb
    <3>1. lh \in T
      BY <1>1, <1>2, <1>4, <2>1
    <3> QED
      BY <1>1, <1>4, <3>1
  <2>2. CASE lb < lh
    <3>1. lb \in T
      BY <1>1, <1>2, <1>4, <2>2
    <3> QED
      BY <1>1, <1>4, <3>1
  <2> QED
    BY <1>1, <2>1, <2>2
<1>8. k \in T /\ k \in Nat /\ \A y \in T : k <= y
  BY <1>7, MinIs DEF k
<1>9. k <= lh /\ k <= lb
  <2>1. ~(lh < k)
    <3> SUFFICES ASSUME lh < k PROVE FALSE
      OBVIOUS
    <3>1. lh \in T
      BY <1>1, <1>2, <1>4, <1>8
    <3> QED
      BY <1>1, <1>8, <3>1
  <2>2. ~(lb < k)
    <3> SUFFICES ASSUME lb < k PROVE FALSE
      OBVIOUS
    <3>1. lb \in T
      BY <1>1, <1>2, <1>4, <1>8
    <3> QED
      BY <1>1, <1>8, <3>1
  <2> QED
    BY <1>1, <1>8, <2>1, <2>2
<1>10. mem[b + k] = NUL <=> k = lb
  <2>1. k < lb => mem[b + k] # NUL
    BY <1>1, <1>2, <1>8
  <2> QED
    BY <1>1, <1>2, <1>8, <1>9, <2>1
<1>11. ASSUME k = lb PROVE u = t
  <2>1. Len(u) = Len(t)
    BY <1>1, <1>5, <1>6, <1>9, <1>11
  <2>2. ASSUME NEW i \in 1 .. Len(u) PROVE u[i] = t[i]
    <3>1. i - 1 \in 0 .. k - 1 /\ h + (i - 1) = h + i - 1 /\ b + (i - 1) = b + i - 1
      BY <1>1, <1>5, <1>11, <2>1
    <3>2. i - 1 \in (0 .. Size - h) \cap (0 .. Size - b) /\ i - 1 \notin T
      BY <1>1, <1>2, <1>8, <1>9, <3>1
    <3>3. mem[h + (i - 1)] = mem[b + (i - 1)]
      BY <1>4, <3>2
    <3>4. i \in 1 .. lh /\ i \in 1 .. lb
      BY <1>1, <1>5, <1>9, <1>11, <2>1
    <3> QED
      BY <1>5, <1>6, <3>1, <3>3, <3>4
  <2> QED
    BY <1>5, <1>6, <2>1, <2>2, SeqEqual
<1>12. ASSUME u = t PROVE k = lb
  <2>1. lb <= lh /\ Len(u) = lb
    BY <1>1, <1>5, <1>6, <1>12
  <2> SUFFICES ASSUME k < lb PROVE FALSE
    BY <1>1, <1>8, <1>9
  <2>2. k + 1 \in 1 .. lb /\ k + 1 \in 1 .. lh /\ k + 1 \in 1 .. Len(u)
        /\ h + (k + 1) - 1 = h + k /\ b + (k + 1) - 1 = b + k
    BY <1>1, <1>8, <2>1
  <2>3. mem[h + k] = mem[b + k]
    BY <1>5, <1>6, <1>12, <2>2
  <2>4. k \in 0 .. lb - 1 /\ k \in 0 .. lh - 1
    BY <1>1, <1>8, <2>1
  <2>5. mem[h + k] # NUL /\ mem[b + k] # NUL
    BY <1>2, <2>4
  <2> QED
    BY <1>4, <1>8, <2>3, <2>5
<1>13. Begins(mem, h, b) <=> u = t
  BY <1>4, <1>10, <1>11, <1>12
<1> QED
  BY <1>5, <1>13 DEF u, s, t, lb

\* strstr finds the first place where the needle begins.
LEMMA FindsString ==
  ASSUME TypeOK, NEW a \in Address, NEW b \in Address
  PROVE  Strstr(mem, a, b) =
           FirstOf({p \in a .. a + Len(S(a)) : Prefix(S(p), Len(S(b))) = S(b)})
<1> DEFINE la == Strlen(mem, a)
           lb == Strlen(mem, b)
           P == {p \in a .. a + la : Prefix(S(p), lb) = S(b)}
           H == {i \in 0 .. la - 1 : Begins(mem, a + i, b)}
<1>1. a \in Nat /\ b \in Nat /\ la \in Nat /\ lb \in Nat /\ Len(S(a)) = la /\ Len(S(b)) = lb
  BY StrlenIs, StringIs, MemIs
<1>2. \A i \in 0 .. la : a + i \in Address
  BY StrlenIs
<1>3. ASSUME NEW p \in a .. a + la PROVE p \in Address /\ p - a \in 0 .. la /\ a + (p - a) = p
  <2>1. p - a \in 0 .. la /\ a + (p - a) = p
    BY <1>1
  <2> QED
    BY <1>2, <2>1
<1>4. Strstr(mem, a, b) = IF mem[b] = NUL THEN a ELSE IF H = {} THEN Null ELSE a + Min(H)
  BY DEF Strstr
<1>5. /\ \A p : p \in P <=> p \in a .. a + la /\ Begins(mem, p, b)
      /\ \A i : i \in H <=> i \in 0 .. la - 1 /\ Begins(mem, a + i, b)
  BY <1>1, <1>3, BeginsIs
<1>6. \A p \in P : Prefix(S(p), lb) = S(b)
  OBVIOUS
<1>7. mem[b] = NUL <=> lb = 0
  <2>1. b + 0 = b /\ mem[b + lb] = NUL
    BY <1>1, StrlenIs
  <2>2. lb # 0 => 0 \in 0 .. lb - 1
    BY <1>1
  <2>3. lb # 0 => mem[b + 0] # NUL
    BY <2>2, StrlenIs
  <2> QED
    BY <2>1, <2>3
<1> HIDE DEF la, lb, P, H
<1>8. P \subseteq Nat /\ H \subseteq 0 .. la
  BY <1>1, <1>5
<1>9. CASE lb = 0
  <2>1. a \in P
    <3>1. a \in a .. a + la /\ S(b) \in Seq(0 .. 255) /\ Len(S(b)) = 0
      BY <1>1, <1>9, StringIs
    <3>2. S(a) \in Seq(0 .. 255)
      BY StringIs
    <3>3. Prefix(S(a), 0) \in Seq(0 .. 255) /\ Len(Prefix(S(a), 0)) = 0
      BY <1>1, <1>9, <3>2, PrefixIs
    <3>4. Prefix(S(a), 0) = S(b)
      BY <3>1, <3>3, SeqEqual
    <3> QED
      BY <1>9, <3>1, <3>4 DEF P
  <2>2. \A p \in P : a <= p
    BY <1>1, <1>5
  <2>3. Min(P) = a
    BY <1>8, <2>1, <2>2, ExtremeIs
  <2>4. Strstr(mem, a, b) = FirstOf(P)
    BY <1>4, <1>7, <1>9, <2>1, <2>3 DEF FirstOf
  <2> QED
    BY <1>1, <2>4 DEF P
<1>10. CASE lb # 0
  <2>1. a + la \notin P
    <3> SUFFICES ASSUME a + la \in P PROVE FALSE
      OBVIOUS
    <3>1. la \in 0 .. la
      BY <1>1
    <3>2. a + la \in Address
      BY <1>2, <3>1
    <3>3. mem[a + la] = NUL
      BY StrlenIs DEF la
    <3>4. Strlen(mem, a + la) = 0
      <4>1. Strlen(mem, a + la) \in Nat
        BY <3>2, StrlenIs, MemIs
      <4>2. ASSUME Strlen(mem, a + la) # 0 PROVE FALSE
        <5>1. 0 \in 0 .. Strlen(mem, a + la) - 1
          BY <4>1, <4>2
        <5>2. mem[a + la + 0] # NUL
          BY <3>2, <5>1, StrlenIs
        <5> QED
          BY <1>1, <3>3, <5>2
      <4> QED
        BY <4>2
    <3>5. S(a + la) \in Seq(0 .. 255) /\ Len(S(a + la)) = 0
      BY <3>2, <3>4, StringIs
    <3>6. Len(Prefix(S(a + la), lb)) = 0
      BY <1>1, <3>5, PrefixIs
    <3> QED
      BY <1>1, <1>6, <1>10, <3>6
  <2>2. \A i \in H : a + i \in P
    BY <1>1, <1>5
  <2>3. ASSUME NEW q \in P PROVE q - a \in H
    <3>1. q \in a .. a + la /\ q # a + la /\ Begins(mem, q, b)
      BY <1>5, <2>1
    <3>2. q - a \in 0 .. la - 1 /\ a + (q - a) = q
      BY <1>1, <3>1
    <3> QED
      BY <1>5, <3>1, <3>2
  <2>4. /\ P = {} <=> H = {}
        /\ H # {} => FirstOf(P) = a + Min(H)
    BY <1>1, <1>8, <2>2, <2>3, Places
  <2>5. Strstr(mem, a, b) = FirstOf(P)
    BY <1>4, <1>7, <1>10, <2>4, NoPlace
  <2> QED
    BY <1>1, <2>5 DEF P
<1> QED
  BY <1>9, <1>10

\* strpbrk, strcspn and strspn go by what the second string holds.
LEMMA FindsSet ==
  ASSUME TypeOK, NEW a \in Address, NEW b \in Address
  PROVE  /\ Strpbrk(mem, a, b) =
              FirstOf({p \in a .. a + Len(S(a)) - 1 : Strchr(mem, b, mem[p]) # Null})
         /\ Strcspn(mem, a, b) = IF Strpbrk(mem, a, b) = Null THEN Len(S(a))
                                 ELSE Strpbrk(mem, a, b) - a
         /\ \A i \in 0 .. Strspn(mem, a, b) - 1 : Strchr(mem, b, mem[a + i]) # Null
         /\ LET next == mem[a + Strspn(mem, a, b)]
            IN  next = NUL \/ Strchr(mem, b, next) = Null
<1> DEFINE X == Chars(mem, b)
           la == Strlen(mem, a)
           k == Span(mem, a, X)
           e == CSpan(mem, a, X)
           P == {p \in a .. a + la - 1 : Strchr(mem, b, mem[p]) # Null}
<1>1. a \in Nat /\ a > 0 /\ la \in Nat /\ Len(S(a)) = la
  <2>1. a \in Nat /\ a > 0
    BY MemIs DEF Address
  <2> QED
    BY <2>1, StrlenIs, StringIs, MemIs
<1>2. /\ k \in 0 .. la /\ mem[a + k] \notin X \ {NUL}
      /\ \A i \in 0 .. k - 1 : mem[a + i] \in X \ {NUL}
      /\ e \in 0 .. la /\ mem[a + e] \in X \cup {NUL}
      /\ \A i \in 0 .. e - 1 : mem[a + i] \notin X \cup {NUL}
  BY SpanIs
<1>3. /\ mem[a + la] = NUL /\ \A i \in 0 .. la - 1 : mem[a + i] # NUL
      /\ \A i \in 0 .. la - 1 : mem[a + i] \in Characters
      /\ \A i \in 0 .. la : mem[a + i] \in Characters \cup {NUL}
  BY StrlenIs, ByteOf
<1>4. \A c \in Characters : Strchr(mem, b, c) # Null <=> c \in X
  BY FindsMember
<1>5. /\ Strspn(mem, a, b) = k /\ Strcspn(mem, a, b) = e
      /\ Strpbrk(mem, a, b) = IF mem[a + e] = NUL THEN Null ELSE a + e
  BY DEF Strspn, Strcspn, Strpbrk
<1>6. \A p : p \in P <=> p \in a .. a + la - 1 /\ Strchr(mem, b, mem[p]) # Null
  OBVIOUS
<1> HIDE DEF X, la, k, e, P
<1>7. ASSUME NEW p PROVE p \in P <=> p \in a .. a + la - 1 /\ mem[p] \in X
  <2>1. p \in a .. a + la - 1 => mem[p] \in Characters
    <3> SUFFICES ASSUME p \in a .. a + la - 1 PROVE mem[p] \in Characters
      OBVIOUS
    <3>1. p - a \in 0 .. la - 1 /\ a + (p - a) = p
      BY <1>1
    <3> QED
      BY <1>3, <3>1
  <2> QED
    BY <1>4, <1>6, <2>1
<1>8. P \subseteq Nat
  BY <1>1, <1>6
<1>9. \A p \in P : a + e <= p
  <2> SUFFICES ASSUME NEW p \in P, ~(a + e <= p) PROVE FALSE
    OBVIOUS
  <2>1. p \in a .. a + la - 1 /\ mem[p] \in X
    BY <1>7
  <2>2. p - a \in 0 .. e - 1 /\ a + (p - a) = p
    BY <1>1, <1>2, <2>1
  <2> QED
    BY <1>2, <2>1, <2>2
<1>10. ASSUME mem[a + e] = NUL
      PROVE  /\ Strpbrk(mem, a, b) = FirstOf(P)
             /\ Strcspn(mem, a, b) = (IF Strpbrk(mem, a, b) = Null THEN la
                                      ELSE Strpbrk(mem, a, b) - a)
  <2>1. e = la
    <3>1. e \in 0 .. la - 1 => mem[a + e] # NUL
      BY <1>3
    <3> QED
      BY <1>1, <1>2, <1>10, <3>1
  <2>2. P = {}
    <3> SUFFICES ASSUME NEW p \in P PROVE FALSE
      OBVIOUS
    <3>1. p \in a .. a + la - 1 /\ a + e <= p
      BY <1>6, <1>9
    <3> QED
      BY <1>1, <2>1, <3>1
  <2> QED
    BY <1>5, <1>10, <2>1, <2>2, NoPlace
<1>11. ASSUME mem[a + e] # NUL
       PROVE  /\ Strpbrk(mem, a, b) = FirstOf(P)
              /\ Strcspn(mem, a, b) = (IF Strpbrk(mem, a, b) = Null THEN la
                                       ELSE Strpbrk(mem, a, b) - a)
  <2>1. e \in 0 .. la - 1 /\ mem[a + e] \in X
    BY <1>1, <1>2, <1>3, <1>11
  <2>2. a + e \in P
    BY <1>1, <1>7, <2>1
  <2>3. Min(P) = a + e
    BY <1>8, <1>9, <2>2, ExtremeIs
  <2>4. Strpbrk(mem, a, b) = FirstOf(P)
    BY <1>5, <1>11, <2>2, <2>3 DEF FirstOf
  <2>5. Strpbrk(mem, a, b) = a + e /\ a + e # Null /\ (a + e) - a = e
    BY <1>1, <1>5, <1>11, <2>1 DEF Null
  <2> QED
    BY <1>5, <2>4, <2>5
<1>12. ASSUME NEW i \in 0 .. k - 1 PROVE Strchr(mem, b, mem[a + i]) # Null
  <2>1. i \in 0 .. la /\ mem[a + i] \in X \ {NUL}
    BY <1>1, <1>2
  <2> QED
    BY <1>3, <1>4, <2>1
<1>13. mem[a + k] = NUL \/ Strchr(mem, b, mem[a + k]) = Null
  BY <1>2, <1>3, <1>4
<1>14. /\ Strpbrk(mem, a, b) = FirstOf(P)
       /\ Strcspn(mem, a, b) = (IF Strpbrk(mem, a, b) = Null THEN la
                                ELSE Strpbrk(mem, a, b) - a)
  BY <1>10, <1>11
<1> QED
  BY <1>1, <1>5, <1>12, <1>13, <1>14 DEF P

(* ScansAgree (string.c): comparisons and searches say of the strings what *)
(* there is to say of them as sequences, for a memory of any size.         *)
THEOREM ScansAgreeHolds == Spec => []ScansAgree
<1>1. IInv => ScansAgree
  <2> SUFFICES ASSUME TypeOK, NEW a \in Address, NEW b \in Address
               PROVE  /\ Orders(Strcmp(mem, a, b), S(a), S(b))
                      /\ \A n \in 0 .. Size :
                           /\ Orders(Strncmp(mem, a, b, n), Prefix(S(a), n), Prefix(S(b), n))
                           /\ Fits(a, n) /\ Fits(b, n) =>
                                Orders(Memcmp(mem, a, b, n), Bytes(a, n), Bytes(b, n))
                      /\ \A c \in Characters \cup {NUL} :
                           /\ Strchr(mem, a, c) = FirstOf(Where(a, c))
                           /\ Strrchr(mem, a, c) = LastOf(Where(a, c))
                           /\ Memchr(mem, a, c, Len(S(a)) + 1) = Strchr(mem, a, c)
    BY FindsString, FindsSet DEF IInv, ScansAgree
  <2>1. \A n \in 0 .. Size : n \in Nat
    BY MemIs
  <2>2. Len(S(a)) = Strlen(mem, a)
    BY StringIs
  <2> QED
    BY <2>1, <2>2, StrcmpOrders, StrncmpOrders, MemcmpOrders, FindsByte
<1> QED
  BY <1>1, Invariance, PTL

-----------------------------------------------------------------------------
(* The stores.                                                             *)

\* What memcpy's loop, a step at a time, has copied after i steps.
Steps(m, d, s, n, f) ==
  f = [i \in 0 .. n |-> IF i = 0 THEN m
                        ELSE [f[i - 1] EXCEPT ![d + i - 1] = f[i - 1][s + i - 1]]]

\* Memcpy is such a function, if there is one.
LEMMA Copies ==
  ASSUME NEW m, NEW d, NEW s, NEW n, NEW g, Steps(m, d, s, n, g)
  PROVE  \E f : Steps(m, d, s, n, f) /\ Memcpy(m, d, s, n) = f[n]
<1> DEFINE copied[i \in 0 .. n] ==
             IF i = 0 THEN m
             ELSE [copied[i - 1] EXCEPT ![d + i - 1] = copied[i - 1][s + i - 1]]
<1>1. copied = [i \in 0 .. n |-> IF i = 0 THEN m
                                 ELSE [copied[i - 1] EXCEPT ![d + i - 1] = copied[i - 1][s + i - 1]]]
  BY Zenon DEF Steps
<1>2. Memcpy(m, d, s, n) = copied[n]
  BY Zenon DEF Memcpy
<1> HIDE DEF copied
<1>3. Steps(m, d, s, n, copied)
  BY <1>1 DEF Steps
<1> QED
  BY <1>2, <1>3

\* There is only one: the first step where two differ follows one where they do not.
LEMMA StepsAlike ==
  ASSUME NEW m, NEW d, NEW s, NEW n \in Nat, NEW f, NEW g,
         Steps(m, d, s, n, f), Steps(m, d, s, n, g)
  PROVE  f[n] = g[n]
<1> DEFINE D == {i \in 0 .. n : f[i] # g[i]}
<1>1. \A i \in D : i \in 0 .. n /\ f[i] # g[i]
  OBVIOUS
<1>2. \A i \in 0 .. n : f[i] # g[i] => i \in D
  OBVIOUS
<1>3. D \subseteq Nat
  OBVIOUS
<1> HIDE DEF D
<1>4. ASSUME D # {} PROVE FALSE
  <2>1. PICK i \in D : \A y \in D : i <= y
    BY <1>3, <1>4, Least
  <2>2. i \in 0 .. n /\ f[i] # g[i]
    BY <1>1
  <2>3. f[i] = IF i = 0 THEN m ELSE [f[i - 1] EXCEPT ![d + i - 1] = f[i - 1][s + i - 1]]
    BY <2>2 DEF Steps
  <2>4. g[i] = IF i = 0 THEN m ELSE [g[i - 1] EXCEPT ![d + i - 1] = g[i - 1][s + i - 1]]
    BY <2>2 DEF Steps
  <2>5. i # 0
    BY <2>2, <2>3, <2>4
  <2>6. i - 1 \in 0 .. n /\ ~(i <= i - 1)
    BY <2>2, <2>5
  <2>7. f[i - 1] = g[i - 1]
    BY <1>2, <2>1, <2>6
  <2> QED
    BY <2>2, <2>3, <2>4, <2>5, <2>7
<1> QED
  BY <1>2, <1>4

\* The bytes from d on are those from s on once memcpy is through, when none of
\* them is both source and destination.
LEMMA MemcpyIs ==
  ASSUME TypeOK, NEW d \in Address, NEW s \in Address, NEW n \in Nat,
         d + n - 1 <= Size, s + n - 1 <= Size,
         \A i, j \in 0 .. n - 1 : d + i # s + j
  PROVE  Memcpy(mem, d, s, n) =
           [a \in Address |-> IF a \in d .. d + n - 1 THEN mem[s + (a - d)] ELSE mem[a]]
<1> DEFINE Done(i) ==
             [a \in Address |-> IF a \in d .. d + i - 1 THEN mem[s + (a - d)] ELSE mem[a]]
           g == [i \in 0 .. n |-> Done(i)]
<1>1. d \in Nat /\ s \in Nat /\ d >= 1 /\ s >= 1 /\ Size \in Nat /\ mem \in [Address -> Byte]
  BY MemIs DEF Address, TypeOK
<1>2. ASSUME NEW i \in 0 .. n, i = 0 PROVE Done(i) = mem
  <2>1. \A a \in Address : a \notin d .. d + i - 1
    BY <1>1, <1>2
  <2> QED
    BY <1>1, <2>1
<1>3. ASSUME NEW i \in 0 .. n, i # 0
      PROVE  Done(i) = [Done(i - 1) EXCEPT ![d + i - 1] = Done(i - 1)[s + i - 1]]
  <2>1. i \in Nat /\ i >= 1 /\ i <= n /\ i - 1 \in 0 .. n - 1
    BY <1>3
  <2>2. s + i - 1 \in Address /\ d + i - 1 \in Address
    BY <1>1, <2>1 DEF Address
  <2>3. s + i - 1 \notin d .. d + (i - 1) - 1
    <3> SUFFICES ASSUME s + i - 1 \in d .. d + (i - 1) - 1 PROVE FALSE
      OBVIOUS
    <3>1. (s + i - 1) - d \in 0 .. n - 1 /\ d + ((s + i - 1) - d) = s + (i - 1)
      BY <1>1, <2>1
    <3> QED
      BY <2>1, <3>1
  <2>4. Done(i - 1)[s + i - 1] = mem[s + i - 1]
    BY <2>2, <2>3
  <2>5. ASSUME NEW a \in Address
        PROVE  Done(i)[a] = IF a = d + i - 1 THEN mem[s + i - 1] ELSE Done(i - 1)[a]
    <3>1. a \in Nat
      BY MemIs
    <3>2. CASE a = d + i - 1
      <4>1. a \in d .. d + i - 1 /\ s + (a - d) = s + i - 1
        BY <1>1, <2>1, <3>2
      <4> QED
        BY <3>2, <4>1
    <3>3. CASE a # d + i - 1
      <4>1. a \in d .. d + i - 1 <=> a \in d .. d + (i - 1) - 1
        BY <1>1, <2>1, <3>1, <3>3
      <4> QED
        BY <3>3, <4>1
    <3> QED
      BY <3>2, <3>3
  <2>6. [Done(i - 1) EXCEPT ![d + i - 1] = mem[s + i - 1]]
          = [a \in Address |-> IF a = d + i - 1 THEN mem[s + i - 1] ELSE Done(i - 1)[a]]
    BY <2>2
  <2>7. Done(i) = [a \in Address |-> IF a = d + i - 1 THEN mem[s + i - 1] ELSE Done(i - 1)[a]]
    BY <2>5
  <2> QED
    BY <2>4, <2>6, <2>7
<1>4. \A i \in 0 .. n : g[i] = Done(i)
  OBVIOUS
<1>5. \A i \in 0 .. n : i # 0 => i - 1 \in 0 .. n
  OBVIOUS
<1> HIDE DEF Done
<1>6. Steps(mem, d, s, n, g)
  <2>1. ASSUME NEW i \in 0 .. n
        PROVE  Done(i) = IF i = 0 THEN mem
                           ELSE [g[i - 1] EXCEPT ![d + i - 1] = g[i - 1][s + i - 1]]
    BY <1>2, <1>3, <1>4, <1>5
  <2> QED
    BY <2>1 DEF Steps
<1> HIDE DEF g
<1>7. PICK f : Steps(mem, d, s, n, f) /\ Memcpy(mem, d, s, n) = f[n]
  BY <1>6, Copies
<1>8. f[n] = g[n]
  BY <1>6, <1>7, StepsAlike
<1>9. n \in 0 .. n
  OBVIOUS
<1> QED
  BY <1>4, <1>7, <1>8, <1>9 DEF Done

\* A copy from p writes what is there.
LEMMA CopyWrites ==
  ASSUME TypeOK, NEW d \in Address, NEW p \in Address, NEW x, NEW n \in Nat, Len(x) = n,
         \A i \in 1 .. n : x[i] = mem[p + i - 1],
         p + n - 1 <= Size, Allowed(d, x, p, n)
  PROVE  Wrote(Memcpy(mem, d, p, n), d, x)
<1>1. d \in Nat /\ p \in Nat /\ Size \in Nat
  BY MemIs
<1>2. d + n - 1 <= Size /\ (d .. d + n - 1) \cap (p .. p + n - 1) = {}
  <2>1. d + n - 1 \in Address \cup {d - 1} /\ (d .. d + n - 1) \cap (p .. p + n - 1) = {}
    BY DEF Allowed, Fits
  <2>2. d <= Size
    BY <1>1 DEF Address
  <2>3. d + n - 1 \in Address => d + n - 1 <= Size
    BY <1>1 DEF Address
  <2>4. d + n - 1 = d - 1 => d + n - 1 <= Size
    BY <1>1, <2>2
  <2> QED
    BY <2>1, <2>3, <2>4
<1>3. \A i, j \in 0 .. n - 1 : d + i # p + j
  <2> SUFFICES ASSUME NEW i \in 0 .. n - 1, NEW j \in 0 .. n - 1, d + i = p + j PROVE FALSE
    OBVIOUS
  <2>1. d + i \in d .. d + n - 1 /\ d + i \in p .. p + n - 1
    BY <1>1
  <2> QED
    BY <1>2, <2>1
<1>4. Memcpy(mem, d, p, n) =
        [a \in Address |-> IF a \in d .. d + n - 1 THEN mem[p + (a - d)] ELSE mem[a]]
  BY <1>2, <1>3, MemcpyIs
<1>5. ASSUME NEW a \in d .. d + n - 1 PROVE mem[p + (a - d)] = x[a - d + 1]
  <2>1. a - d + 1 \in 1 .. n /\ p + (a - d + 1) - 1 = p + (a - d)
    BY <1>1
  <2> QED
    BY <2>1
<1>6. [a \in Address |-> IF a \in d .. d + n - 1 THEN mem[p + (a - d)] ELSE mem[a]]
        = [a \in Address |-> IF a \in d .. d + n - 1 THEN x[a - d + 1] ELSE mem[a]]
  BY <1>5
<1> QED
  BY <1>4, <1>6 DEF Wrote

\* A string with its terminator behind it.
LEMMA EndedIs ==
  ASSUME NEW x \in Seq(0 .. 255)
  PROVE  /\ Len(Ended(x)) = Len(x) + 1 /\ Len(x) \in Nat
         /\ \A i \in 1 .. Len(x) : Ended(x)[i] = x[i]
         /\ Ended(x)[Len(x) + 1] = NUL
<1>1. NUL \in 0 .. 255
  BY DEF NUL
<1>2. /\ Append(x, NUL) \in Seq(0 .. 255)
      /\ Len(Append(x, NUL)) = Len(x) + 1
      /\ \A i \in 1 .. Len(x) : Append(x, NUL)[i] = x[i]
      /\ Append(x, NUL)[Len(x) + 1] = NUL
  BY <1>1, AppendProperties
<1> QED
  BY <1>2, LenProperties DEF Ended

\* With its terminator a string is what is in the memory.
LEMMA EndedString ==
  ASSUME TypeOK, NEW p \in Address
  PROVE  LET n == Strlen(mem, p) + 1
         IN  /\ n \in Nat /\ p + n - 1 <= Size /\ Len(Ended(S(p))) = n
             /\ \A i \in 1 .. n : Ended(S(p))[i] = mem[p + i - 1]
<1> DEFINE l == Strlen(mem, p)
           x == Ended(S(p))
<1>1. l \in Nat /\ p \in Nat /\ p + l <= Size /\ mem[p + l] = NUL
  BY StrlenIs, MemIs
<1>2. S(p) \in Seq(0 .. 255) /\ Len(S(p)) = l /\ \A i \in 1 .. l : S(p)[i] = mem[p + i - 1]
  BY StringIs
<1>3. Len(x) = l + 1 /\ (\A i \in 1 .. l : x[i] = S(p)[i]) /\ x[l + 1] = NUL
  BY <1>2, EndedIs
<1> HIDE DEF l, x
<1>4. ASSUME NEW i \in 1 .. l + 1 PROVE x[i] = mem[p + i - 1]
  <2>1. CASE i = l + 1
    <3>1. p + i - 1 = p + l
      BY <1>1, <2>1
    <3> QED
      BY <1>1, <1>3, <2>1, <3>1
  <2>2. CASE i # l + 1
    <3>1. i \in 1 .. l
      BY <1>1, <2>2
    <3> QED
      BY <1>2, <1>3, <3>1
  <2> QED
    BY <2>1, <2>2
<1>5. l + 1 \in Nat /\ p + (l + 1) - 1 <= Size
  BY <1>1
<1> QED
  BY <1>3, <1>4, <1>5 DEF l, x

\* Zeros behind a string are what strncpy pads with.
LEMMA Padded ==
  ASSUME TypeOK, NEW p \in Address, NEW n \in Nat
  PROVE  LET x == Prefix(S(p) \o Zeros(n), n)
         IN  /\ Len(x) = n
             /\ \A i \in 1 .. n : x[i] = IF i <= Strlen(mem, p) THEN mem[p + i - 1] ELSE NUL
<1> DEFINE l == Strlen(mem, p)
           t == S(p)
           z == Zeros(n)
           y == t \o z
           x == Prefix(y, n)
<1>1. l \in Nat /\ t \in Seq(0 .. 255) /\ Len(t) = l /\ \A i \in 1 .. l : t[i] = mem[p + i - 1]
  BY StrlenIs, StringIs, MemIs
<1>2. z \in Seq(0 .. 255) /\ Len(z) = n /\ \A i \in 1 .. n : z[i] = NUL
  BY DEF Zeros, NUL
<1> HIDE DEF l, t, z
<1>3. /\ y \in Seq(0 .. 255) /\ Len(y) = l + n
      /\ \A i \in 1 .. l + n : y[i] = IF i <= l THEN t[i] ELSE z[i - l]
  <2>1. /\ t \o z \in Seq(0 .. 255) /\ Len(t \o z) = Len(t) + Len(z)
        /\ \A i \in 1 .. Len(t) + Len(z) :
             (t \o z)[i] = IF i <= Len(t) THEN t[i] ELSE z[i - Len(t)]
    <3>1. t \in Seq(0 .. 255) /\ z \in Seq(0 .. 255)
      BY <1>1, <1>2
    <3> QED
      BY <3>1, ConcatProperties, Zenon
  <2> QED
    BY <1>1, <1>2, <2>1
<1> HIDE DEF y
<1>4. /\ Len(x) = (IF n < Len(y) THEN n ELSE Len(y))
      /\ \A i \in 1 .. Len(x) : x[i] = y[i]
  BY <1>3, PrefixIs
<1> HIDE DEF x
<1>5. Len(x) = n
  BY <1>1, <1>3, <1>4
<1>6. ASSUME NEW i \in 1 .. n PROVE x[i] = IF i <= l THEN mem[p + i - 1] ELSE NUL
  <2>1. x[i] = IF i <= l THEN t[i] ELSE z[i - l]
    <3>1. i \in 1 .. Len(x) /\ i \in 1 .. l + n
      BY <1>1, <1>5
    <3>2. x[i] = y[i]
      BY <1>4, <3>1
    <3> QED
      BY <1>3, <3>1, <3>2
  <2>2. i <= l => i \in 1 .. l
    BY <1>1
  <2>3. ~(i <= l) => i - l \in 1 .. n
    BY <1>1
  <2> QED
    BY <1>1, <1>2, <2>1, <2>2, <2>3
<1> QED
  BY <1>5, <1>6 DEF x, y, t, z, l

\* The lesser of two numbers.
LEMMA LesserIs ==
  ASSUME NEW n \in Nat, NEW l \in Nat
  PROVE  Min({n, l}) = IF n < l THEN n ELSE l
<1>1. Min({n, l}) \in {n, l} /\ \A y \in {n, l} : Min({n, l}) <= y
  <2>1. {n, l} \subseteq Nat /\ {n, l} # {}
    OBVIOUS
  <2> QED
    BY <2>1, MinIs
<1> QED
  BY <1>1

\* strncpy's two loops write the string, cut off at n or padded up to it.
LEMMA StrncpyWrites ==
  ASSUME TypeOK, NEW d \in Address, NEW p \in Address, NEW n \in Nat,
         Allowed(d, Zeros(n), p, Strlen(mem, p) + 1)
  PROVE  Wrote(Strncpy(mem, d, p, n), d, Prefix(S(p) \o Zeros(n), n))
<1> DEFINE l == Strlen(mem, p)
           k == Min({n, l})
           x == Prefix(S(p) \o Zeros(n), n)
           m == Memcpy(mem, d, p, k)
<1>1. d \in Nat /\ p \in Nat /\ Size \in Nat /\ l \in Nat /\ p + l <= Size
  BY StrlenIs, MemIs
<1>2. Len(Zeros(n)) = n
  BY DEF Zeros
<1>3. d + n - 1 <= Size /\ (d .. d + n - 1) \cap (p .. p + (l + 1) - 1) = {}
  BY <1>1, <1>2, MemIs DEF Allowed, Fits, Address
<1>4. k = IF n < l THEN n ELSE l
  BY <1>1, LesserIs
<1>5. Len(x) = n /\ \A i \in 1 .. n : x[i] = IF i <= l THEN mem[p + i - 1] ELSE NUL
  BY Padded
<1>6. Strncpy(mem, d, p, n) =
        [a \in DOMAIN m |-> IF a \in d + k .. d + k + (n - k) - 1 THEN UChar(NUL) ELSE m[a]]
  BY DEF Strncpy, Memset
<1> HIDE DEF l, k, x
<1>7. k \in Nat /\ k <= n /\ k <= l /\ d + k + (n - k) - 1 = d + n - 1
  BY <1>1, <1>4
<1>8. m = [a \in Address |-> IF a \in d .. d + k - 1 THEN mem[p + (a - d)] ELSE mem[a]]
  <2>1. d + k - 1 <= Size /\ p + k - 1 <= Size
    BY <1>1, <1>3, <1>7
  <2>2. \A i, j \in 0 .. k - 1 : d + i # p + j
    <3> SUFFICES ASSUME NEW i \in 0 .. k - 1, NEW j \in 0 .. k - 1, d + i = p + j PROVE FALSE
      OBVIOUS
    <3>1. d + i \in d .. d + n - 1 /\ d + i \in p .. p + (l + 1) - 1
      BY <1>1, <1>7
    <3> QED
      BY <1>3, <3>1
  <2> QED
    BY <1>7, <2>1, <2>2, MemcpyIs
<1> HIDE DEF m
<1>9. UChar(NUL) = NUL
  BY DEF UChar, NUL
<1>10. DOMAIN m = Address
  BY <1>8
<1>11. ASSUME NEW a \in Address
       PROVE  (IF a \in d + k .. d + k + (n - k) - 1 THEN UChar(NUL) ELSE m[a])
                = IF a \in d .. d + n - 1 THEN x[a - d + 1] ELSE mem[a]
  <2>1. a \in Nat
    BY MemIs
  <2>2. CASE a \notin d .. d + n - 1
    <3>1. a \notin d + k .. d + k + (n - k) - 1 /\ a \notin d .. d + k - 1
      BY <1>1, <1>7, <2>1, <2>2
    <3> QED
      BY <1>8, <2>2, <3>1
  <2>3. CASE a \in d .. d + n - 1 /\ a < d + k
    <3>1. /\ a \notin d + k .. d + k + (n - k) - 1 /\ a \in d .. d + k - 1
          /\ a - d + 1 \in 1 .. n /\ a - d + 1 <= l /\ p + (a - d + 1) - 1 = p + (a - d)
      BY <1>1, <1>7, <2>1, <2>3
    <3> QED
      BY <1>5, <1>8, <2>3, <3>1
  <2>4. CASE a \in d .. d + n - 1 /\ ~(a < d + k)
    <3>1. /\ a \in d + k .. d + k + (n - k) - 1 /\ a - d + 1 \in 1 .. n /\ ~(a - d + 1 <= l)
      BY <1>1, <1>4, <1>7, <2>1, <2>4
    <3> QED
      BY <1>5, <1>9, <2>4, <3>1
  <2> QED
    BY <2>2, <2>3, <2>4
<1>12. Strncpy(mem, d, p, n) =
         [a \in Address |-> IF a \in d .. d + n - 1 THEN x[a - d + 1] ELSE mem[a]]
  BY <1>6, <1>10, <1>11
<1>13. Wrote(Strncpy(mem, d, p, n), d, x)
  BY <1>5, <1>12 DEF Wrote
<1> QED
  BY <1>13 DEF x

\* strncat writes the string, cut off at n, and a terminator in any case.
LEMMA StrncatWrites ==
  ASSUME TypeOK, NEW d \in Address, NEW p \in Address, NEW n \in Nat,
         Allowed(d + Strlen(mem, d), Ended(Prefix(S(p), n)), p, Strlen(mem, p) + 1)
  PROVE  Wrote(Strncat(mem, d, p, n), d + Strlen(mem, d), Ended(Prefix(S(p), n)))
<1> DEFINE l == Strlen(mem, p)
           k == Min({n, l})
           e == d + Strlen(mem, d)
           y == Prefix(S(p), n)
           x == Ended(y)
           m == Memcpy(mem, e, p, k)
<1>1. e \in Address
  <2>1. Strlen(mem, d) \in 0 .. Strlen(mem, d)
    BY StrlenIs, MemIs
  <2> QED
    BY <2>1, StrlenIs
<1>2. e \in Nat /\ p \in Nat /\ Size \in Nat /\ l \in Nat /\ p + l <= Size
  BY <1>1, StrlenIs, MemIs
<1>3. k = IF n < l THEN n ELSE l
  BY <1>2, LesserIs
<1>4. /\ y \in Seq(0 .. 255) /\ Len(y) = (IF n < l THEN n ELSE l)
      /\ \A i \in 1 .. Len(y) : y[i] = mem[p + i - 1]
  BY CutString
<1>5. Strncat(mem, d, p, n) = [m EXCEPT ![e + k] = NUL]
  BY DEF Strncat
<1>6. Fits(e, Len(x)) /\ (e .. e + Len(x) - 1) \cap (p .. p + (l + 1) - 1) = {}
  BY DEF Allowed
<1> HIDE DEF l, k, e, y
<1>7. k \in Nat /\ k <= l /\ Len(y) = k
  BY <1>2, <1>3, <1>4
<1>8. Len(x) = k + 1 /\ (\A i \in 1 .. k : x[i] = mem[p + i - 1]) /\ x[k + 1] = NUL
  BY <1>4, <1>7, EndedIs
<1> HIDE DEF x
<1>9. e + k <= Size /\ (e .. e + k) \cap (p .. p + l) = {}
  <2>1. e + Len(x) - 1 = e + k /\ p + (l + 1) - 1 = p + l
    BY <1>2, <1>7, <1>8
  <2>2. e + k \in Address \cup {e - 1} /\ e + k # e - 1
    BY <1>2, <1>6, <1>7, <2>1 DEF Fits
  <2> QED
    BY <1>2, <1>6, <2>1, <2>2 DEF Address
<1>10. m = [a \in Address |-> IF a \in e .. e + k - 1 THEN mem[p + (a - e)] ELSE mem[a]]
  <2>1. e + k - 1 <= Size /\ p + k - 1 <= Size
    BY <1>2, <1>7, <1>9
  <2>2. \A i, j \in 0 .. k - 1 : e + i # p + j
    <3> SUFFICES ASSUME NEW i \in 0 .. k - 1, NEW j \in 0 .. k - 1, e + i = p + j PROVE FALSE
      OBVIOUS
    <3>1. e + i \in e .. e + k /\ e + i \in p .. p + l
      BY <1>2, <1>7
    <3> QED
      BY <1>9, <3>1
  <2> QED
    BY <1>1, <1>7, <2>1, <2>2, MemcpyIs
<1> HIDE DEF m
<1>11. e + k \in Address
  BY <1>1, <1>2, <1>7, <1>9 DEF Address
<1>12. [m EXCEPT ![e + k] = NUL] = [a \in Address |-> IF a = e + k THEN NUL ELSE m[a]]
  BY <1>10, <1>11
<1>13. ASSUME NEW a \in Address
       PROVE  (IF a = e + k THEN NUL ELSE m[a])
                = IF a \in e .. e + (k + 1) - 1 THEN x[a - e + 1] ELSE mem[a]
  <2>1. a \in Nat
    BY MemIs
  <2>2. CASE a \notin e .. e + (k + 1) - 1
    <3>1. a # e + k /\ a \notin e .. e + k - 1
      BY <1>2, <1>7, <2>1, <2>2
    <3> QED
      BY <1>10, <2>2, <3>1
  <2>3. CASE a \in e .. e + (k + 1) - 1 /\ a # e + k
    <3>1. a \in e .. e + k - 1 /\ a - e + 1 \in 1 .. k /\ p + (a - e + 1) - 1 = p + (a - e)
      BY <1>2, <1>7, <2>1, <2>3
    <3> QED
      BY <1>8, <1>10, <2>3, <3>1
  <2>4. CASE a = e + k
    <3>1. a \in e .. e + (k + 1) - 1 /\ a - e + 1 = k + 1
      BY <1>2, <1>7, <2>4
    <3> QED
      BY <1>8, <2>4, <3>1
  <2> QED
    BY <2>2, <2>3, <2>4
<1>14. Strncat(mem, d, p, n) =
         [a \in Address |-> IF a \in e .. e + (k + 1) - 1 THEN x[a - e + 1] ELSE mem[a]]
  BY <1>5, <1>12, <1>13
<1>15. Wrote(Strncat(mem, d, p, n), e, x)
  BY <1>8, <1>14 DEF Wrote
<1> QED
  BY <1>15 DEF x, y, e

(* StoresAgree (string.c): every copy and fill writes its string and its   *)
(* terminator where they belong and nothing besides, for a memory of any   *)
(* size.                                                                   *)
THEOREM StoresAgreeHolds == Spec => []StoresAgree
<1>1. IInv => StoresAgree
  <2> SUFFICES ASSUME TypeOK PROVE StoresAgree
    BY DEF IInv
  <2> SUFFICES ASSUME NEW d \in Address, NEW s \in Address
               PROVE  LET len == Len(S(s))
                          end == d + Len(S(d))
                      IN  /\ Allowed(d, Ended(S(s)), s, len + 1) =>
                               /\ Wrote(Strcpy(mem, d, s), d, Ended(S(s)))
                               /\ Wrote(Strdup(mem, s, d), d, Ended(S(s)))
                          /\ Allowed(end, Ended(S(s)), s, len + 1) =>
                               Wrote(Strcat(mem, d, s), end, Ended(S(s)))
                          /\ \A n \in 0 .. Size :
                               /\ Allowed(d, Zeros(n), s, len + 1) =>
                                    Wrote(Strncpy(mem, d, s, n), d, Prefix(S(s) \o Zeros(n), n))
                               /\ Allowed(end, Ended(Prefix(S(s), n)), s, len + 1) =>
                                    Wrote(Strncat(mem, d, s, n), end, Ended(Prefix(S(s), n)))
                               /\ Fits(s, n) /\ Allowed(d, Zeros(n), s, n) =>
                                    Wrote(Memcpy(mem, d, s, n), d, Bytes(s, n))
                               /\ Fits(d, n) => \A c \in Characters :
                                    Wrote(Memset(mem, d, c + 256, n), d, [k \in 1 .. n |-> c])
    BY DEF StoresAgree
  <2> DEFINE ls == Strlen(mem, s)
             end == d + Strlen(mem, d)
             x == Ended(S(s))
  <2>1. /\ Len(S(s)) = ls /\ Len(S(d)) = Strlen(mem, d)
        /\ d \in Nat /\ s \in Nat /\ Size \in Nat /\ d # Null /\ s # Null
    <3>1. d \in Nat /\ s \in Nat /\ d >= 1 /\ s >= 1
      BY MemIs DEF Address
    <3> QED
      BY <3>1, StringIs, MemIs DEF Null
  <2>2. end \in Address
    <3>1. Strlen(mem, d) \in 0 .. Strlen(mem, d)
      BY StrlenIs, MemIs
    <3> QED
      BY <3>1, StrlenIs
  <2>3. /\ ls + 1 \in Nat /\ s + (ls + 1) - 1 <= Size /\ Len(x) = ls + 1
        /\ \A i \in 1 .. ls + 1 : x[i] = mem[s + i - 1]
    BY EndedString
  <2>4. \A e \in Address : Allowed(e, x, s, ls + 1) => Wrote(Memcpy(mem, e, s, ls + 1), e, x)
    <3> HIDE DEF ls, x
    <3> QED
      BY <2>3, CopyWrites
  <2>5. /\ Strcpy(mem, d, s) = Memcpy(mem, d, s, ls + 1)
        /\ Strdup(mem, s, d) = Memcpy(mem, d, s, ls + 1)
        /\ Strcat(mem, d, s) = Memcpy(mem, end, s, ls + 1)
    BY <2>1 DEF Strcpy, Strdup, Strcat
  <2>6. ASSUME NEW n \in 0 .. Size, Fits(s, n), Allowed(d, Zeros(n), s, n)
        PROVE  Wrote(Memcpy(mem, d, s, n), d, Bytes(s, n))
    <3>1. n \in Nat
      BY <2>1
    <3>2. s + n - 1 <= Size
      <4>1. s <= Size
        BY <2>1 DEF Address
      <4>2. s + n - 1 \in Address => s + n - 1 <= Size
        BY <2>1 DEF Address
      <4>3. s + n - 1 = s - 1 => s + n - 1 <= Size
        BY <2>1, <4>1
      <4> QED
        BY <2>6, <4>2, <4>3 DEF Fits
    <3>3. Len(Bytes(s, n)) = n /\ \A i \in 1 .. n : Bytes(s, n)[i] = mem[s + i - 1]
      BY <3>1, <3>2, PartIs DEF Bytes
    <3>4. Allowed(d, Bytes(s, n), s, n)
      <4>1. Len(Zeros(n)) = n
        BY <3>1 DEF Zeros
      <4> QED
        BY <2>6, <3>3, <4>1 DEF Allowed
    <3> QED
      BY <3>1, <3>2, <3>3, <3>4, CopyWrites
  <2>7. ASSUME NEW n \in 0 .. Size, NEW c \in Characters
        PROVE  Wrote(Memset(mem, d, c + 256, n), d, [k \in 1 .. n |-> c])
    <3> DEFINE y == [k \in 1 .. n |-> c]
    <3>1. UChar(c + 256) = c
      <4>1. c \in 0 .. 255
        BY MemIs
      <4>2. \A b \in 0 .. 255 : (b + 256) % 256 = b
        OBVIOUS
      <4> QED
        BY <4>1, <4>2 DEF UChar
    <3>2. n \in Nat /\ Len(y) = n
      BY <2>1
    <3>3. ASSUME NEW a \in d .. d + n - 1 PROVE y[a - d + 1] = c
      BY <2>1, <3>2
    <3>4. Memset(mem, d, c + 256, n)
            = [a \in Address |-> IF a \in d .. d + n - 1 THEN c ELSE mem[a]]
      BY <3>1 DEF Memset, TypeOK
    <3> HIDE DEF y
    <3>5. Memset(mem, d, c + 256, n)
            = [a \in Address |-> IF a \in d .. d + n - 1 THEN y[a - d + 1] ELSE mem[a]]
      BY <3>3, <3>4
    <3>6. Wrote(Memset(mem, d, c + 256, n), d, y)
      BY <3>2, <3>5 DEF Wrote
    <3> QED
      BY <3>6 DEF y
  <2>8. ASSUME NEW n \in 0 .. Size
        PROVE  /\ Allowed(d, Zeros(n), s, ls + 1) =>
                    Wrote(Strncpy(mem, d, s, n), d, Prefix(S(s) \o Zeros(n), n))
               /\ Allowed(end, Ended(Prefix(S(s), n)), s, ls + 1) =>
                    Wrote(Strncat(mem, d, s, n), end, Ended(Prefix(S(s), n)))
    <3>1. n \in Nat
      BY <2>1
    <3> QED
      BY <3>1, StrncpyWrites, StrncatWrites
  <2> QED
    BY <2>1, <2>2, <2>4, <2>5, <2>6, <2>7, <2>8
<1> QED
  BY <1>1, Invariance, PTL
=============================================================================
