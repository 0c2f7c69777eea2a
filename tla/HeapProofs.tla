----------------------------- MODULE HeapProofs -----------------------------
(***************************************************************************)
(* The safety of the allocator for every arena size, every size_t width    *)
(* and every set of requests that ALIGN16 does not wrap; and that it       *)
(* implements its contract: each step of a walk, a split or a merge is a   *)
(* step of HeapContract or none.                                           *)
(*                                                                         *)
(* Then fopen and fclose over it, for any sizeof(FILE) and any descriptors *)
(* besides: no FILE is leaked or given back twice, and what the calls do   *)
(* is what Streams says of them.                                           *)
(***************************************************************************)
EXTENDS FilesHeap, FiniteSetTheorems, TLAPS

-----------------------------------------------------------------------------
(* The list as a value: what a function from addresses to headers must be. *)

Shape(h) ==
  /\ DOMAIN h \subseteq 0 .. HeapSize - BLOCK_SIZE
  /\ h \in [DOMAIN h -> [size : Nat, free : BOOLEAN,
                         next : DOMAIN h \cup {Null}]]

Ends(h, b) == b + BLOCK_SIZE + h[b].size

Tiled(h) ==
  /\ 0 \in DOMAIN h
  /\ \A b \in DOMAIN h :
       Ends(h, b) = IF h[b].next = Null THEN HeapSize ELSE h[b].next
  /\ \A b, c \in DOMAIN h : b < c => Ends(h, b) <= c

Even8(h) == \A b \in DOMAIN h : b % 8 = 0 /\ h[b].size % 8 = 0

\* Block b is not free together with its successor.
Single(h, b) == h[b].free /\ h[b].next # Null => ~h[h[b].next].free

-----------------------------------------------------------------------------
\* NULL is no offset into the arena.
LEMMA NullIsNoAddress == Null \in Int /\ Null \notin Nat /\ Null < 0
BY DEF Null

\* ALIGN16 rounds up to a multiple of 16 and loses nothing unless it wraps.
LEMMA AlignUp ==
  ASSUME NEW n \in Nat, n <= SizeMax - 15
  PROVE  /\ ALIGN16(n) \in Nat
         /\ ALIGN16(n) % 8 = 0
         /\ n <= ALIGN16(n)
         /\ ALIGN16(n) = n + 15 - ((n + 15) % 16)
<1>1. SizeMax \in Nat
  BY HeapAssumption
<1>2. (n + 15) % (SizeMax + 1) = n + 15
  BY <1>1
<1>3. ALIGN16(n) = n + 15 - ((n + 15) % 16)
  BY <1>2 DEF ALIGN16
<1> QED
  BY <1>3

\* A header is made of three parts.
LEMMA HeaderIn ==
  ASSUME NEW A, NEW x \in Nat, NEW v \in BOOLEAN, NEW y \in A
  PROVE  [size |-> x, free |-> v, next |-> y] \in [size : Nat, free : BOOLEAN, next : A]
OBVIOUS

\* What Shape says of one header.
LEMMA ShapeFacts ==
  ASSUME NEW h, Shape(h), NEW a \in DOMAIN h
  PROVE  /\ a \in Nat /\ a <= HeapSize - 24
         /\ h[a].size \in Nat /\ h[a].free \in BOOLEAN
         /\ h[a].next \in DOMAIN h \cup {Null}
         /\ h[a] \in [size : Nat, free : BOOLEAN, next : DOMAIN h \cup {Null}]
BY HeapAssumption DEF Shape, BLOCK_SIZE

\* A list that differs from a sound one only in free fields is sound.
LEMMA MarkKeepsTheList ==
  ASSUME NEW h, Shape(h), Tiled(h), Even8(h),
         NEW g, g \in [DOMAIN h -> [size : Nat, free : BOOLEAN,
                                    next : DOMAIN h \cup {Null}]],
         \A a \in DOMAIN h : g[a].size = h[a].size /\ g[a].next = h[a].next
  PROVE  Shape(g) /\ Tiled(g) /\ Even8(g) /\ DOMAIN g = DOMAIN h
<1>1. DOMAIN g = DOMAIN h
  OBVIOUS
<1>2. Shape(g)
  BY <1>1 DEF Shape
<1>3. \A a \in DOMAIN h : Ends(g, a) = Ends(h, a)
  BY DEF Ends
<1>4. Tiled(g)
  BY <1>1, <1>3 DEF Tiled
<1>5. Even8(g)
  BY <1>1 DEF Even8
<1> QED
  BY <1>1, <1>2, <1>4, <1>5

Taken(h, b) == [h EXCEPT ![b].free = FALSE]
Freed(h, b) == [h EXCEPT ![b].free = TRUE]

\* Marking a block used or free is such a difference.
LEMMA TakenList ==
  ASSUME NEW h, Shape(h), Tiled(h), Even8(h), NEW b \in DOMAIN h,
         NEW g, g = Taken(h, b)
  PROVE  /\ Shape(g) /\ Tiled(g) /\ Even8(g) /\ DOMAIN g = DOMAIN h
         /\ \A a \in DOMAIN h : a # b => g[a] = h[a]
         /\ ~g[b].free /\ g[b].size = h[b].size
<1>1. g \in [DOMAIN h -> [size : Nat, free : BOOLEAN, next : DOMAIN h \cup {Null}]]
  BY DEF Shape, Taken
<1>2. \A a \in DOMAIN h : g[a].size = h[a].size /\ g[a].next = h[a].next
  BY DEF Shape, Taken
<1>3. \A a \in DOMAIN h : a # b => g[a] = h[a]
  BY DEF Taken
<1>4. ~g[b].free
  BY DEF Shape, Taken
<1>5. Shape(g) /\ Tiled(g) /\ Even8(g) /\ DOMAIN g = DOMAIN h
  BY <1>1, <1>2, MarkKeepsTheList
<1> QED
  BY <1>2, <1>3, <1>4, <1>5

\* Marking a block free is one too.
LEMMA FreedList ==
  ASSUME NEW h, Shape(h), Tiled(h), Even8(h), NEW b \in DOMAIN h,
         NEW g, g = Freed(h, b)
  PROVE  /\ Shape(g) /\ Tiled(g) /\ Even8(g) /\ DOMAIN g = DOMAIN h
         /\ \A a \in DOMAIN h : a # b => g[a] = h[a]
         /\ g[b].free /\ g[b].size = h[b].size
<1>1. g \in [DOMAIN h -> [size : Nat, free : BOOLEAN, next : DOMAIN h \cup {Null}]]
  BY DEF Shape, Freed
<1>2. \A a \in DOMAIN h : g[a].size = h[a].size /\ g[a].next = h[a].next
  BY DEF Shape, Freed
<1>3. \A a \in DOMAIN h : a # b => g[a] = h[a]
  BY DEF Freed
<1>4. g[b].free
  BY DEF Shape, Freed
<1>5. Shape(g) /\ Tiled(g) /\ Even8(g) /\ DOMAIN g = DOMAIN h
  BY <1>1, <1>2, MarkKeepsTheList
<1> QED
  BY <1>2, <1>3, <1>4, <1>5

Multiple8(x) == x % 8 = 0

Cut(h, b, s) ==
  LET c == b + 24 + s
  IN  [a \in DOMAIN h \cup {c} |->
         IF a = c
         THEN [size |-> h[b].size - s - 24, free |-> TRUE, next |-> h[b].next]
         ELSE IF a = b THEN [size |-> s, free |-> FALSE, next |-> c]
         ELSE h[a]]

\* Cutting the tail off a free block and marking the rest used, as malloc
\* does, leaves a list that tiles the arena and changes no other block.
LEMMA CutKeepsTheList ==
  ASSUME NEW h, NEW b \in DOMAIN h, NEW s \in Nat,
         Shape(h), Tiled(h), Even8(h),
         Multiple8(s), h[b].size >= s + 40,
         NEW g, g = Cut(h, b, s)
  PROVE  /\ Shape(g) /\ Tiled(g) /\ Even8(g)
         /\ b + 24 + s \notin DOMAIN h
         /\ DOMAIN g = DOMAIN h \cup {b + 24 + s}
         /\ \A a \in DOMAIN h : a # b => g[a] = h[a]
         /\ ~g[b].free /\ g[b].size = s
         /\ g[b + 24 + s].free /\ g[b + 24 + s].next = h[b].next
<1> DEFINE c == b + 24 + s
           t == h[b].size - s - 24
<1>0. b \in Nat /\ b <= HeapSize - 24 /\ h[b].size \in Nat
      /\ h[b].next \in DOMAIN h \cup {Null}
  BY ShapeFacts
<1>1. c \in Nat /\ b < c /\ c < Ends(h, b) /\ t \in Nat /\ Ends(h, b) = c + 24 + t
  BY <1>0 DEF Ends, BLOCK_SIZE
<1>2. Ends(h, b) <= HeapSize
  BY <1>0, ShapeFacts, HeapAssumption DEF Tiled
<1>3. c \notin DOMAIN h
  BY <1>1 DEF Tiled
<1>4. c \in 0 .. HeapSize - BLOCK_SIZE
  BY <1>1, <1>2, HeapAssumption DEF BLOCK_SIZE
<1>5. DOMAIN g = DOMAIN h \cup {c} /\ g = [a \in DOMAIN g |-> g[a]]
  BY DEF Cut
<1>6. \A a \in DOMAIN h : a # b => g[a] = h[a]
  BY <1>3 DEF Cut
<1>7. g[b] = [size |-> s, free |-> FALSE, next |-> c]
  BY <1>3 DEF Cut
<1>8. g[c] = [size |-> t, free |-> TRUE, next |-> h[b].next]
  BY DEF Cut
<1> HIDE DEF c, t
<1>9. Shape(g)
  <2>1. ASSUME NEW a \in DOMAIN g
        PROVE  g[a] \in [size : Nat, free : BOOLEAN, next : DOMAIN g \cup {Null}]
    <3>1. CASE a = b
      <4> DEFINE N == DOMAIN g \cup {Null}
      <4>1. c \in N
        BY <1>5
      <4> HIDE DEF N
      <4>2. [size |-> s, free |-> FALSE, next |-> c] \in [size : Nat, free : BOOLEAN, next : N]
        BY <4>1, HeaderIn
      <4> QED
        BY <1>7, <3>1, <4>2 DEF N
    <3>2. CASE a = c
      <4> DEFINE N == DOMAIN g \cup {Null}
      <4>1. h[b].next \in N
        BY <1>0, <1>5
      <4> HIDE DEF N
      <4>2. [size |-> t, free |-> TRUE, next |-> h[b].next] \in [size : Nat, free : BOOLEAN, next : N]
        BY <1>1, <4>1, HeaderIn
      <4> QED
        BY <1>8, <3>2, <4>2 DEF N
    <3>3. CASE a # b /\ a # c
      BY <1>5, <1>6, <3>3, ShapeFacts
    <3> QED
      BY <3>1, <3>2, <3>3
  <2>2. DOMAIN g \subseteq 0 .. HeapSize - BLOCK_SIZE
    BY <1>4, <1>5 DEF Shape
  <2> QED
    BY <1>5, <2>1, <2>2 DEF Shape
<1>10. Ends(g, b) = c /\ Ends(g, c) = Ends(h, b)
  BY <1>0, <1>1, <1>7, <1>8 DEF Ends, BLOCK_SIZE, c
<1>11. \A a \in DOMAIN h : a # b => Ends(g, a) = Ends(h, a)
  BY <1>6 DEF Ends
<1>12. Tiled(g)
  <2>1. ASSUME NEW a \in DOMAIN g
        PROVE  Ends(g, a) = IF g[a].next = Null THEN HeapSize ELSE g[a].next
    <3>1. CASE a = b
      BY <1>1, <1>7, <1>10, <3>1, NullIsNoAddress
    <3>2. CASE a = c
      BY <1>8, <1>10, <3>2 DEF Tiled
    <3>3. CASE a # b /\ a # c
      BY <1>5, <1>6, <1>11, <3>3 DEF Tiled
    <3> QED
      BY <3>1, <3>2, <3>3
  <2>2. ASSUME NEW x \in DOMAIN g, NEW y \in DOMAIN g, x < y
        PROVE  Ends(g, x) <= y
    <3>0. \A a \in DOMAIN h : a \in Nat /\ Ends(h, a) \in Nat /\ a < Ends(h, a)
      BY ShapeFacts DEF Ends, BLOCK_SIZE
    <3>1. CASE x = b
      BY <1>0, <1>1, <1>5, <1>10, <2>2, <3>0, <3>1 DEF Tiled
    <3>2. CASE x = c
      BY <1>0, <1>1, <1>5, <1>10, <2>2, <3>0, <3>2 DEF Tiled
    <3>3. CASE x # b /\ x # c
      <4>1. x \in DOMAIN h /\ Ends(g, x) = Ends(h, x)
        BY <1>5, <1>11, <3>3
      <4>2. CASE y = c
        <5>1. x < b
          BY <1>0, <1>1, <2>2, <3>0, <3>3, <4>1, <4>2 DEF Tiled
        <5> QED
          BY <1>0, <1>1, <3>0, <4>1, <4>2, <5>1 DEF Tiled
      <4>3. CASE y # c
        BY <1>5, <2>2, <4>1, <4>3 DEF Tiled
      <4> QED
        BY <4>2, <4>3
    <3> QED
      BY <3>1, <3>2, <3>3
  <2>3. 0 \in DOMAIN g
    BY <1>5 DEF Tiled
  <2> QED
    BY <2>1, <2>2, <2>3 DEF Tiled
<1>13. Even8(g)
  <2>1. b % 8 = 0 /\ h[b].size % 8 = 0 /\ s % 8 = 0
    BY DEF Even8, Multiple8
  <2>2. c % 8 = 0 /\ t % 8 = 0
    BY <1>0, <2>1 DEF c, t, Multiple8
  <2> QED
    BY <1>5, <1>6, <1>7, <1>8, <2>1, <2>2 DEF Even8
<1>14. ~g[b].free /\ g[b].size = s /\ g[c].free /\ g[c].next = h[b].next
  BY <1>7, <1>8
<1> QED
  BY <1>14, <1>3, <1>5, <1>6, <1>7, <1>8, <1>9, <1>12, <1>13 DEF c

Unused(h, b) == h[b].free

\* Swallowing the next block, as the merge pass of free does, leaves a list
\* that tiles the arena: no other block had the swallowed one as its next.
LEMMA AbsorbKeepsTheList ==
  ASSUME NEW h, NEW b \in DOMAIN h, NEW c, c = h[b].next, c # Null,
         Shape(h), Tiled(h), Even8(h),
         NEW g, g = Absorb(h, b)
  PROVE  /\ Shape(g) /\ Tiled(g) /\ Even8(g)
         /\ c \in DOMAIN h /\ b < c /\ DOMAIN g = DOMAIN h \ {c}
         /\ \A a \in DOMAIN h : a # b /\ a # c => g[a] = h[a] /\ h[a].next # c
         /\ Unused(h, b) => Unused(g, b)
         /\ g[b].next = h[c].next
         /\ \A a \in DOMAIN h : a <= b \/ c <= a
<1> DEFINE t == h[b].size + 24 + h[c].size
<1>0. /\ b \in Nat /\ b <= HeapSize - 24 /\ h[b].size \in Nat /\ c \in DOMAIN h
      /\ c \in Nat /\ h[c].size \in Nat /\ h[c].next \in DOMAIN h \cup {Null}
      /\ h[b].free \in BOOLEAN
  BY ShapeFacts
<1>1. Ends(h, b) = c /\ b < c /\ Ends(h, b) = b + 24 + h[b].size
  BY <1>0 DEF Tiled, Ends, BLOCK_SIZE
<1>2. \A a \in DOMAIN h : a \in Nat /\ Ends(h, a) \in Nat /\ a < Ends(h, a)
  BY ShapeFacts DEF Ends, BLOCK_SIZE
<1>3. \A a \in DOMAIN h : a # b => Ends(h, a) # c
  BY <1>0, <1>1, <1>2 DEF Tiled
<1>4. \A a \in DOMAIN h : a # b => h[a].next # c
  BY <1>3, <1>0 DEF Tiled
<1>5. DOMAIN g = DOMAIN h \ {c} /\ g = [a \in DOMAIN g |-> g[a]]
  BY DEF Absorb, Drop
<1>6. \A a \in DOMAIN h : a # b /\ a # c => g[a] = h[a]
  BY DEF Absorb, Drop
<1>7. g[b] = [size |-> t, free |-> h[b].free, next |-> h[c].next]
  <2> DEFINE k == [h EXCEPT ![b].size = @ + BLOCK_SIZE + h[c].size,
                            ![b].next = h[c].next]
  <2>1. h[b] = [size |-> h[b].size, free |-> h[b].free, next |-> h[b].next]
    BY DEF Shape
  <2>2. k[b] = [size |-> t, free |-> h[b].free, next |-> h[c].next]
    BY <1>0, <2>1 DEF BLOCK_SIZE
  <2>3. g = Drop(k, c) /\ b \in DOMAIN k \ {c}
    BY <1>1, <1>0 DEF Absorb
  <2> HIDE DEF k
  <2> QED
    BY <2>2, <2>3 DEF Drop
<1>8. \A a \in DOMAIN h : a <= b \/ c <= a
  BY <1>0, <1>1, <1>2 DEF Tiled
<1>9. h[c].next # c /\ h[c].next # b /\ t \in Nat
  BY <1>0, <1>1, <1>2, NullIsNoAddress DEF Tiled
<1>10. Ends(g, b) = Ends(h, c) /\ \A a \in DOMAIN h : a # b /\ a # c => Ends(g, a) = Ends(h, a)
  <2>1. g[b].size = t
    BY <1>7
  <2>2. Ends(g, b) = Ends(h, c)
    BY <1>0, <1>1, <2>1 DEF Ends, BLOCK_SIZE
  <2> QED
    BY <1>6, <2>2 DEF Ends
<1>11. Shape(g)
  <2> DEFINE N == DOMAIN g \cup {Null}
  <2>1. ASSUME NEW a \in DOMAIN g
        PROVE  g[a] \in [size : Nat, free : BOOLEAN, next : N]
    <3>1. CASE a = b
      <4>1. h[c].next \in N
        BY <1>0, <1>5, <1>9
      <4> HIDE DEF N, t
      <4>2. [size |-> t, free |-> h[b].free, next |-> h[c].next]
              \in [size : Nat, free : BOOLEAN, next : N]
        BY <1>0, <1>9, <4>1, HeaderIn
      <4> QED
        BY <1>7, <3>1, <4>2
    <3>2. CASE a # b
      <4>1. a \in DOMAIN h /\ a # b /\ a # c /\ g[a] = h[a]
        BY <1>5, <1>6, <3>2
      <4>2. h[a] = [size |-> h[a].size, free |-> h[a].free, next |-> h[a].next]
            /\ h[a].size \in Nat /\ h[a].free \in BOOLEAN
        BY <4>1 DEF Shape
      <4>3. h[a].next \in N
        BY <1>4, <1>5, <4>1, ShapeFacts
      <4> HIDE DEF N
      <4>4. [size |-> h[a].size, free |-> h[a].free, next |-> h[a].next]
              \in [size : Nat, free : BOOLEAN, next : N]
        BY <4>2, <4>3, HeaderIn
      <4> QED
        BY <4>1, <4>2, <4>4
    <3> QED
      BY <3>1, <3>2
  <2> QED
    BY <1>5, <2>1 DEF Shape
<1>12. Tiled(g)
  <2>1. ASSUME NEW a \in DOMAIN g
        PROVE  Ends(g, a) = IF g[a].next = Null THEN HeapSize ELSE g[a].next
    <3>1. CASE a = b
      <4>1. g[b].next = h[c].next
        BY <1>7
      <4> QED
        BY <1>0, <1>10, <3>1, <4>1 DEF Tiled
    <3>2. CASE a # b
      BY <1>5, <1>6, <1>10, <3>2 DEF Tiled
    <3> QED
      BY <3>1, <3>2
  <2>2. ASSUME NEW x \in DOMAIN g, NEW y \in DOMAIN g, x < y
        PROVE  Ends(g, x) <= y
    <3>1. CASE x = b
      <4>1. y \in DOMAIN h /\ c < y
        BY <1>0, <1>2, <1>5, <1>8, <2>2, <3>1
      <4> QED
        BY <1>0, <1>10, <3>1, <4>1 DEF Tiled
    <3>2. CASE x # b
      BY <1>5, <1>10, <2>2, <3>2 DEF Tiled
    <3> QED
      BY <3>1, <3>2
  <2>3. 0 \in DOMAIN g
    BY <1>0, <1>1, <1>5 DEF Tiled
  <2> QED
    BY <2>1, <2>2, <2>3 DEF Tiled
<1>13. Even8(g)
  <2>1. h[b].size % 8 = 0 /\ h[c].size % 8 = 0
    BY <1>0 DEF Even8
  <2>2. g[b].size = t
    BY <1>7
  <2>3. t % 8 = 0
    BY <1>0, <2>1
  <2> HIDE DEF t
  <2> QED
    BY <1>5, <1>6, <2>2, <2>3 DEF Even8
<1>14. (Unused(h, b) => Unused(g, b)) /\ g[b].next = h[c].next
  BY <1>7 DEF Unused
<1> QED
  BY <1>0, <1>1, <1>4, <1>5, <1>6, <1>8, <1>11, <1>12, <1>13, <1>14

\* A block that was taken has no free successor to be merged with, and the
\* free tail cut off it has none either, because the whole block had none.
LEMMA TakeLeavesSingles ==
  ASSUME NEW h, Shape(h), Tiled(h), \A a \in DOMAIN h : Single(h, a),
         NEW b \in DOMAIN h, NEW c, c # b, NEW g,
         DOMAIN g = DOMAIN h \/ (c \notin DOMAIN h /\ DOMAIN g = DOMAIN h \cup {c}),
         \A a \in DOMAIN h : a # b => g[a] = h[a],
         ~g[b].free,
         c \in DOMAIN g => c \notin DOMAIN h /\ g[c].next = h[b].next /\ h[b].free
  PROVE  \A a \in DOMAIN g : Single(g, a)
<1> SUFFICES ASSUME NEW a \in DOMAIN g, g[a].free, g[a].next # Null
             PROVE  ~g[g[a].next].free
  BY DEF Single
<1>1. a # b
  OBVIOUS
<1>2. CASE a \in DOMAIN h
  <2>1. g[a] = h[a] /\ h[a].next \in DOMAIN h /\ ~h[h[a].next].free
    BY <1>1, <1>2, ShapeFacts DEF Single
  <2> QED
    BY <2>1
<1>3. CASE a = c /\ a \notin DOMAIN h
  <2>1. h[b].next \in DOMAIN h /\ ~h[h[b].next].free /\ g[a].next = h[b].next
    BY <1>3, ShapeFacts DEF Single
  <2> QED
    BY <2>1
<1> QED
  BY <1>2, <1>3

\* A split that happens, followed by marking the block, is a cut.
LEMMA SplitIsCut ==
  ASSUME NEW h, Shape(h), Tiled(h), NEW b \in DOMAIN h, NEW s \in Nat,
         h[b].size >= s + 40
  PROVE  Taken(SplitBlock(h, b, s), b) = Cut(h, b, s)
<1> DEFINE c == b + 24 + s
           t == h[b].size - s - 24
           k == SplitBlock(h, b, s)
<1>0. h[b] = [size |-> h[b].size, free |-> h[b].free, next |-> h[b].next]
      /\ h[b].size \in Nat /\ b \in Nat
  BY ShapeFacts DEF Shape
<1>1. c \notin DOMAIN h
  <2>1. b < c /\ c < Ends(h, b)
    BY <1>0 DEF Ends, BLOCK_SIZE
  <2>2. \A x \in DOMAIN h : b < x => Ends(h, b) <= x
    BY DEF Tiled
  <2>3. \A x \in DOMAIN h : x \in Nat /\ Ends(h, x) \in Nat
    BY ShapeFacts DEF Ends, BLOCK_SIZE
  <2> QED
    BY <1>0, <2>1, <2>2, <2>3
<1>2. k = Put([h EXCEPT ![b].size = s, ![b].next = c], c,
              [size |-> t, free |-> TRUE, next |-> h[b].next])
  BY DEF SplitBlock, BLOCK_SIZE
<1>3. DOMAIN k = DOMAIN h \cup {c}
  BY <1>2 DEF Put
<1>4. k[c] = [size |-> t, free |-> TRUE, next |-> h[b].next]
  BY <1>2 DEF Put
<1>5. \A a \in DOMAIN h : a # b => k[a] = h[a]
  BY <1>1, <1>2 DEF Put
<1>6. k[b] = [size |-> s, free |-> h[b].free, next |-> c]
  <2>1. k[b] = [h EXCEPT ![b].size = s, ![b].next = c][b]
    BY <1>1, <1>2 DEF Put
  <2> HIDE DEF c, k
  <2> QED
    BY <1>0, <2>1
<1>7. b # c
  BY <1>1
<1> HIDE DEF k, t, c
<1> DEFINE g == Taken(k, b)
<1>8. DOMAIN g = DOMAIN h \cup {c} /\ g = [a \in DOMAIN g |-> g[a]]
  BY <1>3 DEF Taken
<1>9. g[b] = [size |-> s, free |-> FALSE, next |-> c]
  <2>1. g[b] = [k[b] EXCEPT !.free = FALSE]
    BY <1>3 DEF Taken
  <2>2. ASSUME NEW r \in [size : Int, free : BOOLEAN, next : Int],
               NEW q, q = [r EXCEPT !.free = FALSE]
        PROVE  q = [size |-> r.size, free |-> FALSE, next |-> r.next]
    <3>1. q \in [size : Int, free : BOOLEAN, next : Int]
      BY <2>2
    <3>2. q.size = r.size /\ q.next = r.next
      BY <2>2
    <3>3. q.free = FALSE
      BY <2>2
    <3>4. q = [size |-> q.size, free |-> q.free, next |-> q.next]
      BY <3>1
    <3> QED
      BY <3>2, <3>3, <3>4
  <2>3. k[b] \in [size : Int, free : BOOLEAN, next : Int]
    <3>1. h[b].free \in BOOLEAN /\ c \in Int
      BY <1>0, ShapeFacts DEF c
    <3> QED
      BY <1>6, <3>1
  <2>4. k[b].size = s /\ k[b].next = c
    BY <1>6
  <2> QED
    BY <2>1, <2>2, <2>3, <2>4
<1>10. \A a \in DOMAIN h \cup {c} : a # b => g[a] = k[a]
  BY <1>3 DEF Taken
<1> HIDE DEF g
<1>13. g = [a \in DOMAIN h \cup {c} |->
              IF a = c THEN [size |-> t, free |-> TRUE, next |-> h[b].next]
              ELSE IF a = b THEN [size |-> s, free |-> FALSE, next |-> c]
              ELSE h[a]]
  BY <1>4, <1>5, <1>7, <1>8, <1>9, <1>10
<1> QED
  BY <1>13 DEF Cut, g, k, t, c

\* What malloc does to the block it takes: both outcomes of split_block.
LEMMA TakeKeepsTheList ==
  ASSUME NEW h, NEW b \in DOMAIN h, NEW s \in Nat,
         Shape(h), Tiled(h), Even8(h), \A a \in DOMAIN h : Single(h, a),
         Multiple8(s), h[b].free, h[b].size >= s
  PROVE  LET g == Taken(SplitBlock(h, b, s), b)
         IN  /\ Shape(g) /\ Tiled(g) /\ Even8(g)
             /\ \A a \in DOMAIN g : Single(g, a)
             /\ DOMAIN h \subseteq DOMAIN g
             /\ \A a \in DOMAIN h : a # b => g[a] = h[a]
             /\ \A a \in DOMAIN g : a \notin DOMAIN h => g[a].free
             /\ ~g[b].free /\ g[b].size >= s
<1> DEFINE g == Taken(SplitBlock(h, b, s), b)
           c == b + 24 + s
<1>0. h[b].size \in Nat /\ b \in Nat
  BY ShapeFacts
<1>1. CASE ~(h[b].size >= s + 40)
  <2>1. g = Taken(h, b)
    BY <1>1 DEF SplitBlock, BLOCK_SIZE
  <2> HIDE DEF g, c
  <2>2. Shape(g) /\ Tiled(g) /\ Even8(g) /\ DOMAIN g = DOMAIN h /\ ~g[b].free
        /\ g[b].size = h[b].size
    BY <2>1, TakenList
  <2>3. \A a \in DOMAIN h : a # b => g[a] = h[a]
    BY <2>1, TakenList
  <2>4. Null \notin DOMAIN g /\ Null # b
    BY <2>2, ShapeFacts, NullIsNoAddress
  <2>5. \A a \in DOMAIN g : Single(g, a)
    BY <2>2, <2>3, <2>4, TakeLeavesSingles
  <2> QED
    BY <1>0, <2>2, <2>3, <2>5 DEF g
<1>2. CASE h[b].size >= s + 40
  <2>1. g = Cut(h, b, s)
    BY <1>2, SplitIsCut
  <2> HIDE DEF g
  <2>2. Shape(g) /\ Tiled(g) /\ Even8(g) /\ c \notin DOMAIN h /\ DOMAIN g = DOMAIN h \cup {c}
    BY <1>2, <2>1, CutKeepsTheList
  <2>3. \A a \in DOMAIN h : a # b => g[a] = h[a]
    BY <2>1, <2>2 DEF Cut
  <2>4. ~g[b].free /\ g[b].size = s /\ g[c].free /\ g[c].next = h[b].next
    BY <2>1, <2>2 DEF Cut
  <2>5. c # b
    BY <2>2
  <2> HIDE DEF c
  <2>6. \A a \in DOMAIN g : Single(g, a)
    BY <2>2, <2>3, <2>4, <2>5, TakeLeavesSingles
  <2> QED
    BY <1>0, <2>2, <2>3, <2>4, <2>6 DEF g
<1> QED
  BY <1>1, <1>2

-----------------------------------------------------------------------------
(* The inductive invariant.  Tiling and Capacity are not inductive alone:  *)
(* a step inside a call is safe only because of what the earlier steps of  *)
(* the same call established, which CallOK says per value of pc.           *)

ListOK ==
  /\ heap_init \in BOOLEAN /\ Shape(hdr) /\ Even8(hdr)
  /\ IF heap_init
     THEN free_list = 0 /\ Tiled(hdr)
     ELSE free_list = Null /\ DOMAIN hdr = {} /\ pc = "idle" /\ DOMAIN live = {}

\* Pointer p belongs to a block in use with room for n bytes.
Region(h, p, n) ==
  /\ p \in Int /\ p - BLOCK_SIZE \in DOMAIN h
  /\ ~h[p - BLOCK_SIZE].free /\ n <= h[p - BLOCK_SIZE].size

OwnOK ==
  /\ DOMAIN live \subseteq Nat /\ live \in [DOMAIN live -> Nat]
  /\ \A p \in DOMAIN live : Region(hdr, p, live[p])
  /\ got # Null => Region(hdr, got, call.n) /\ got \notin DOMAIN live
  /\ \A b \in DOMAIN hdr :
       ~hdr[b].free => b + BLOCK_SIZE \in DOMAIN live \/ b + BLOCK_SIZE = got

\* What a call that got as far as pc may rely on.
CallOK ==
  /\ pc \in {"idle", "walk", "copy", "merge"}
  /\ call \in [n : Nat, old : Int] /\ got \in Int
  /\ pc = "idle" => call = NoCall /\ curr = Null
  /\ pc \in {"idle", "walk"} => got = Null
  /\ pc = "walk" => curr \in DOMAIN hdr \cup {Null} /\ call.n <= SizeMax - 15
  /\ pc = "walk" => call.old = Null \/ call.old \in DOMAIN live
  /\ pc = "copy" => curr = Null /\ got # Null /\ call.old \in DOMAIN live
  /\ pc = "merge" => curr \in DOMAIN hdr

\* The merge pass has dealt with the blocks before curr.
MergedOK == \A b \in DOMAIN hdr : pc # "merge" \/ b < curr => Single(hdr, b)

IInv == ListOK /\ OwnOK /\ CallOK /\ MergedOK

-----------------------------------------------------------------------------
(* Each part of a call preserves it.                                       *)

\* Before the first call there is no list, and nothing to be wrong in it.
LEMMA InitInv == Init => IInv
<1> SUFFICES ASSUME Init PROVE IInv
  OBVIOUS
<1>1. DOMAIN hdr = {} /\ DOMAIN live = {} /\ pc = "idle" /\ heap_init = FALSE
      /\ free_list = Null /\ call = NoCall /\ curr = Null /\ got = Null
  BY DEF Init
<1>2. ListOK
  <2>1. hdr = [a \in DOMAIN hdr |-> hdr[a]]
    BY DEF Init
  <2> QED
    BY <1>1, <2>1 DEF ListOK, Shape, Even8
<1>3. OwnOK
  <2>1. live \in [DOMAIN live -> Nat]
    BY DEF Init
  <2> QED
    BY <1>1, <2>1 DEF OwnOK
<1>4. CallOK
  BY <1>1, NullIsNoAddress DEF CallOK, NoCall
<1>5. MergedOK
  BY <1>1 DEF MergedOK
<1> QED
  BY <1>2, <1>3, <1>4, <1>5 DEF IInv

\* The list init_heap makes.
LEMMA FirstBlock ==
  ASSUME NEW h, h = [a \in {0} |-> InitialBlock]
  PROVE  Shape(h) /\ Tiled(h) /\ Even8(h) /\ DOMAIN h = {0} /\ h[0].free
         /\ \A b \in DOMAIN h : Single(h, b)
<1>1. DOMAIN h = {0} /\ h[0] = [size |-> HeapSize - 24, free |-> TRUE, next |-> Null]
  BY DEF InitialBlock, BLOCK_SIZE
<1>2. HeapSize - 24 \in Nat /\ (HeapSize - 24) % 8 = 0
  BY HeapAssumption
<1>3. Shape(h)
  <2> DEFINE N == DOMAIN h \cup {Null}
  <2>1. [size |-> HeapSize - 24, free |-> TRUE, next |-> Null]
          \in [size : Nat, free : BOOLEAN, next : N]
    BY <1>2
  <2>2. h \in [DOMAIN h -> [size : Nat, free : BOOLEAN, next : N]]
    BY <1>1, <2>1
  <2> QED
    BY <1>1, <1>2, <2>2 DEF Shape, BLOCK_SIZE
<1>4. Tiled(h)
  BY <1>1, <1>2, HeapAssumption DEF Tiled, Ends, BLOCK_SIZE
<1>5. Even8(h)
  BY <1>1, <1>2 DEF Even8
<1> QED
  BY <1>1, <1>3, <1>4, <1>5 DEF Single

\* malloc up to its loop.
LEMMA EnterMallocInv ==
  ASSUME IInv, pc = "idle", NEW n \in Nat, n <= SizeMax - 15,
         NEW old, old = Null \/ old \in DOMAIN live, EnterMalloc(n, old)
  PROVE  IInv'
<1>1. /\ heap_init' = TRUE /\ pc' = "walk" /\ curr' = free_list' /\ n # 0
      /\ call' = [n |-> n, old |-> old]
      /\ errno' = errno /\ got' = got /\ live' = live /\ got = Null
  BY DEF EnterMalloc, IInv, CallOK
<1>2. ListOK' /\ (\A b \in DOMAIN hdr' : Single(hdr', b)) /\ DOMAIN hdr \subseteq DOMAIN hdr'
      /\ (\A b \in DOMAIN hdr : hdr'[b] = hdr[b])
      /\ (\A b \in DOMAIN hdr' \ DOMAIN hdr : hdr'[b].free)
  <2>1. CASE heap_init
    <3>1. hdr' = hdr /\ free_list' = free_list
      BY <2>1 DEF EnterMalloc
    <3> QED
      BY <1>1, <2>1, <3>1 DEF IInv, ListOK, MergedOK, Single
  <2>2. CASE ~heap_init
    <3>1. hdr' = [a \in {0} |-> InitialBlock] /\ free_list' = 0
      BY <2>2 DEF EnterMalloc
    <3>2. DOMAIN hdr = {}
      BY <2>2 DEF IInv, ListOK
    <3> QED
      BY <1>1, <3>1, <3>2, FirstBlock DEF ListOK
  <2> QED
    BY <2>1, <2>2 DEF IInv, ListOK
<1>3. OwnOK'
  BY <1>1, <1>2 DEF IInv, OwnOK, Region
<1>4. CallOK'
  <2>1. free_list' \in DOMAIN hdr'
    BY <1>1, <1>2 DEF ListOK, Tiled
  <2>2. old \in Int
    BY NullIsNoAddress DEF IInv, OwnOK
  <2>3. call' \in [n : Nat, old : Int] /\ call'.n = n /\ call'.old = old
    BY <1>1, <2>2
  <2> QED
    BY <1>1, <2>1, <2>3, NullIsNoAddress DEF IInv, CallOK
<1>5. MergedOK'
  BY <1>2 DEF MergedOK
<1> QED
  BY <1>2, <1>3, <1>4, <1>5 DEF IInv

\* free up to its merge pass.
LEMMA EnterFreeInv ==
  ASSUME IInv, NEW p \in DOMAIN live, pc = "idle" \/ pc = "copy", EnterFree(p)
  PROVE  IInv'
<1> DEFINE b == p - BLOCK_SIZE
<1>0. p \in Nat /\ Region(hdr, p, live[p])
  BY DEF IInv, OwnOK
<1>1. b \in DOMAIN hdr /\ ~hdr[b].free
  BY <1>0 DEF Region
<1>2. heap_init = TRUE /\ free_list = 0 /\ Tiled(hdr) /\ Shape(hdr) /\ Even8(hdr)
  BY DEF IInv, ListOK
<1>3. /\ hdr' = [hdr EXCEPT ![b].free = TRUE]
      /\ live' = Drop(live, p)
      /\ pc' = "merge" /\ curr' = free_list
      /\ heap_init' = heap_init /\ free_list' = free_list /\ errno' = errno
      /\ call' = call /\ got' = got
  BY DEF EnterFree
<1> HIDE DEF b
<1>4. /\ Shape(hdr') /\ Tiled(hdr') /\ Even8(hdr') /\ DOMAIN hdr' = DOMAIN hdr
      /\ \A a \in DOMAIN hdr : a # b => hdr'[a] = hdr[a]
      /\ hdr'[b].free
  BY <1>1, <1>2, <1>3, FreedList DEF Freed
<1>5. ListOK'
  BY <1>2, <1>3, <1>4 DEF ListOK
<1>6. DOMAIN live' = DOMAIN live \ {p} /\ (\A q \in DOMAIN live' : live'[q] = live[q])
      /\ live' \in [DOMAIN live' -> Nat]
  BY <1>3 DEF Drop, IInv, OwnOK
<1>7. OwnOK'
  <2>1. ASSUME NEW q, NEW m, Region(hdr, q, m), q # p
        PROVE  Region(hdr', q, m)
    <3>1. q - BLOCK_SIZE \in DOMAIN hdr /\ q - BLOCK_SIZE # b
      BY <1>0, <2>1 DEF Region, b, BLOCK_SIZE
    <3> QED
      BY <1>4, <2>1, <3>1 DEF Region
  <2>2. got' # Null => Region(hdr', got', call'.n) /\ got' \notin DOMAIN live'
    <3>1. got # Null => got # p /\ Region(hdr, got, call.n) /\ got \notin DOMAIN live
      BY DEF IInv, OwnOK
    <3> QED
      BY <1>3, <1>6, <2>1, <3>1
  <2>3. \A q \in DOMAIN live' : Region(hdr', q, live'[q])
    BY <1>6, <2>1 DEF IInv, OwnOK
  <2>4. ASSUME NEW a \in DOMAIN hdr', ~hdr'[a].free
        PROVE  a + BLOCK_SIZE \in DOMAIN live' \/ a + BLOCK_SIZE = got'
    <3>1. a \in DOMAIN hdr /\ a # b /\ ~hdr[a].free /\ a \in Nat
      BY <1>2, <1>4, <2>4, ShapeFacts
    <3>2. a + BLOCK_SIZE # p
      BY <1>0, <3>1 DEF b, BLOCK_SIZE
    <3> QED
      BY <1>3, <1>6, <3>1, <3>2 DEF IInv, OwnOK
  <2>5. DOMAIN live' \subseteq Nat
    BY <1>6 DEF IInv, OwnOK
  <2> QED
    BY <1>6, <2>2, <2>3, <2>4, <2>5 DEF OwnOK
<1>8. CallOK'
  <2>1. 0 \in DOMAIN hdr'
    BY <1>4 DEF Tiled
  <2> QED
    BY <1>2, <1>3, <2>1 DEF IInv, CallOK
<1>9. MergedOK'
  <2>1. \A a \in DOMAIN hdr' : ~(a < 0)
    BY <1>4, ShapeFacts
  <2> QED
    BY <1>2, <1>3, <2>1 DEF MergedOK
<1> QED
  BY <1>5, <1>7, <1>8, <1>9 DEF IInv

\* Giving up changes nothing but errno.
LEMMA FailInv ==
  ASSUME IInv, pc = "idle" \/ (pc = "walk" /\ curr = Null), Fail
  PROVE  IInv'
<1>1. /\ errno' = ENOMEM /\ pc' = "idle" /\ call' = NoCall /\ got = Null /\ curr = Null
      /\ heap_init' = heap_init /\ free_list' = free_list /\ hdr' = hdr
      /\ curr' = curr /\ got' = got /\ live' = live
  BY DEF Fail, IInv, CallOK
<1>2. ListOK'
  BY <1>1 DEF IInv, ListOK
<1>3. OwnOK'
  BY <1>1 DEF IInv, OwnOK, Region
<1>4. CallOK'
  BY <1>1, NullIsNoAddress DEF CallOK, NoCall
<1>5. MergedOK'
  BY <1>1 DEF IInv, MergedOK, Single
<1> QED
  BY <1>2, <1>3, <1>4, <1>5 DEF IInv

\* The walk takes the block it stands on.
LEMMA TakeBlockInv ==
  ASSUME IInv, TakeBlock
  PROVE  IInv'
<1> DEFINE s == ALIGN16(call.n)
           p == curr + BLOCK_SIZE
<1>0. /\ pc = "walk" /\ curr \in DOMAIN hdr /\ call.n \in Nat /\ call.n <= SizeMax - 15
      /\ call \in [n : Nat, old : Int] /\ got = Null /\ heap_init = TRUE
      /\ call.old = Null \/ call.old \in DOMAIN live
  BY DEF TakeBlock, IInv, CallOK, ListOK
<1>1. Shape(hdr) /\ Tiled(hdr) /\ Even8(hdr) /\ \A a \in DOMAIN hdr : Single(hdr, a)
  BY <1>0 DEF IInv, ListOK, MergedOK
<1>2. s \in Nat /\ Multiple8(s) /\ call.n <= s
  BY <1>0, AlignUp DEF Multiple8
<1>3. curr \in Nat /\ hdr[curr].free /\ hdr[curr].size >= s
  BY <1>0, <1>1, ShapeFacts DEF TakeBlock, Fits
<1>4. /\ hdr' = Taken(SplitBlock(hdr, curr, s), curr)
      /\ curr' = Null /\ heap_init' = heap_init /\ free_list' = free_list /\ errno' = errno
  BY DEF TakeBlock, Taken
<1> HIDE DEF s
<1>5. /\ Shape(hdr') /\ Tiled(hdr') /\ Even8(hdr')
      /\ \A a \in DOMAIN hdr' : Single(hdr', a)
      /\ DOMAIN hdr \subseteq DOMAIN hdr'
      /\ \A a \in DOMAIN hdr : a # curr => hdr'[a] = hdr[a]
      /\ \A a \in DOMAIN hdr' : a \notin DOMAIN hdr => hdr'[a].free
      /\ ~hdr'[curr].free /\ hdr'[curr].size >= s
  BY <1>0, <1>1, <1>2, <1>3, <1>4, TakeKeepsTheList
<1>6. Region(hdr', p, call.n)
  <2>1. hdr'[curr].size \in Nat /\ p \in Int /\ p - BLOCK_SIZE = curr
    BY <1>0, <1>3, <1>5, ShapeFacts DEF BLOCK_SIZE
  <2> QED
    BY <1>0, <1>2, <1>5, <2>1 DEF Region
<1>7. p \notin DOMAIN live /\ p \in Nat /\ p # Null
  <2>1. p - BLOCK_SIZE = curr /\ p \in Nat
    BY <1>3 DEF BLOCK_SIZE
  <2> QED
    BY <1>3, <2>1, NullIsNoAddress DEF IInv, OwnOK, Region
<1>8. ASSUME NEW q \in DOMAIN live
      PROVE  Region(hdr', q, live[q])
  <2>1. Region(hdr, q, live[q])
    BY DEF IInv, OwnOK
  <2>2. q - BLOCK_SIZE # curr
    BY <1>3, <2>1 DEF Region
  <2> QED
    BY <1>5, <2>1, <2>2 DEF Region
<1>9. ASSUME NEW b \in DOMAIN hdr', ~hdr'[b].free
      PROVE  b + BLOCK_SIZE \in DOMAIN live \/ b + BLOCK_SIZE = p
  <2>1. CASE b = curr
    BY <2>1
  <2>2. CASE b # curr
    <3>1. b \in DOMAIN hdr /\ hdr[b] = hdr'[b]
      BY <1>5, <1>9, <2>2
    <3>2. b + BLOCK_SIZE # Null
      <4>1. b \in Nat
        BY <1>1, <3>1, ShapeFacts
      <4> QED
        BY <4>1 DEF BLOCK_SIZE, Null
    <3> QED
      BY <1>0, <1>9, <3>1, <3>2 DEF IInv, OwnOK
  <2> QED
    BY <2>1, <2>2
<1>10. ListOK'
  BY <1>0, <1>4, <1>5 DEF IInv, ListOK
<1>11. MergedOK'
  BY <1>5 DEF MergedOK
<1> HIDE DEF p
<1>12. CASE call.old = Null
  <2>1. live' = Put(live, p, call.n) /\ pc' = "idle" /\ call' = NoCall /\ got' = got
    BY <1>12 DEF TakeBlock, p
  <2>2. /\ DOMAIN live' = DOMAIN live \cup {p} /\ live'[p] = call.n
        /\ live' = [q \in DOMAIN live' |-> live'[q]]
        /\ \A q \in DOMAIN live : live'[q] = live[q]
    BY <1>7, <2>1 DEF Put
  <2>3. live' \in [DOMAIN live' -> Nat] /\ DOMAIN live' \subseteq Nat
    BY <1>0, <1>7, <2>2 DEF IInv, OwnOK
  <2>4. OwnOK'
    BY <1>0, <1>6, <1>8, <1>9, <2>1, <2>2, <2>3 DEF OwnOK
  <2>5. CallOK'
    BY <1>0, <1>4, <2>1, NullIsNoAddress DEF CallOK, NoCall
  <2> QED
    BY <1>10, <1>11, <2>4, <2>5 DEF IInv
<1>13. CASE call.old # Null
  <2>1. got' = p /\ pc' = "copy" /\ live' = live /\ call' = call
    BY <1>13 DEF TakeBlock, p
  <2>2. OwnOK'
    BY <1>6, <1>7, <1>8, <1>9, <2>1 DEF IInv, OwnOK
  <2>3. CallOK'
    BY <1>0, <1>4, <1>7, <1>13, <2>1 DEF CallOK
  <2> QED
    BY <1>10, <1>11, <2>2, <2>3 DEF IInv
<1> QED
  BY <1>12, <1>13

\* Going on to the next block changes the loop variable alone.
LEMMA WalkOnInv ==
  ASSUME IInv, WalkOn
  PROVE  IInv'
<1>1. /\ pc = "walk" /\ curr \in DOMAIN hdr /\ curr' = hdr[curr].next
      /\ hdr' = hdr /\ heap_init' = heap_init /\ free_list' = free_list
      /\ errno' = errno /\ pc' = pc /\ call' = call /\ got' = got /\ live' = live
  BY DEF WalkOn, IInv, CallOK
<1>2. curr' \in DOMAIN hdr \cup {Null}
  BY <1>1, ShapeFacts DEF IInv, ListOK
<1>3. ListOK' /\ OwnOK'
  BY <1>1 DEF IInv, ListOK, OwnOK
<1>4. CallOK'
  BY <1>1, <1>2 DEF IInv, CallOK
<1>5. MergedOK'
  BY <1>1 DEF IInv, MergedOK
<1> QED
  BY <1>3, <1>4, <1>5 DEF IInv

\* One iteration of the merge pass.
LEMMA MergeStepInv ==
  ASSUME IInv, MergeStep
  PROVE  IInv'
<1> DEFINE c == hdr[curr].next
<1>0. /\ pc = "merge" /\ curr \in DOMAIN hdr /\ c # Null
      /\ heap_init' = heap_init /\ free_list' = free_list
      /\ errno' = errno /\ pc' = pc /\ call' = call /\ got' = got /\ live' = live
  BY DEF MergeStep, IInv, CallOK
<1>1. heap_init = TRUE /\ free_list = 0 /\ Shape(hdr) /\ Tiled(hdr) /\ Even8(hdr)
  BY <1>0 DEF IInv, ListOK
<1>2. /\ \A a \in DOMAIN hdr : a \in Nat /\ hdr[a].next \in DOMAIN hdr \cup {Null}
      /\ c \in DOMAIN hdr
  BY <1>0, <1>1, ShapeFacts
<1>3. \A b \in DOMAIN hdr : b < curr => Single(hdr, b)
  BY DEF IInv, MergedOK
<1>4. CASE Mergeable(curr)
  <2>1. hdr' = Absorb(hdr, curr) /\ curr' = curr
    BY <1>4 DEF MergeStep
  <2>2. hdr[curr].free /\ hdr[c].free
    BY <1>4 DEF Mergeable
  <2> HIDE DEF c
  <2>3. c = hdr[curr].next
    BY DEF c
  <2>4. /\ Shape(hdr') /\ Tiled(hdr') /\ Even8(hdr')
        /\ curr < c /\ DOMAIN hdr' = DOMAIN hdr \ {c}
        /\ \A a \in DOMAIN hdr : a # curr /\ a # c => hdr'[a] = hdr[a] /\ hdr[a].next # c
    BY <1>0, <1>1, <2>1, <2>3, AbsorbKeepsTheList
  <2>5. hdr'[curr].free
    <3>1. Unused(hdr, curr) => Unused(hdr', curr)
      BY <1>0, <1>1, <2>1, <2>3, AbsorbKeepsTheList
    <3> QED
      BY <2>2, <3>1 DEF Unused
  <2>6. ListOK'
    BY <1>0, <1>1, <2>4 DEF ListOK
  <2>7. ASSUME NEW q, NEW m, Region(hdr, q, m)
        PROVE  Region(hdr', q, m)
    <3>1. q - BLOCK_SIZE # curr /\ q - BLOCK_SIZE # c
      BY <2>2, <2>7 DEF Region
    <3> QED
      BY <2>4, <2>7, <3>1 DEF Region
  <2>8. OwnOK'
    <3>1. \A b \in DOMAIN hdr' : ~hdr'[b].free => b \in DOMAIN hdr /\ ~hdr[b].free
      BY <2>4, <2>5
    <3> QED
      BY <1>0, <2>7, <3>1 DEF IInv, OwnOK
  <2>9. CallOK'
    BY <1>0, <1>2, <2>1, <2>4 DEF IInv, CallOK
  <2>10. MergedOK'
    <3>1. ASSUME NEW b \in DOMAIN hdr', b < curr, hdr'[b].free, hdr'[b].next # Null
          PROVE  ~hdr'[hdr'[b].next].free
      <4>1. b \in DOMAIN hdr /\ b # curr /\ b # c /\ hdr'[b] = hdr[b]
        BY <1>0, <1>2, <2>4, <3>1
      <4>2. hdr[b].next \in DOMAIN hdr /\ hdr[b].next # c /\ ~hdr[hdr[b].next].free
        BY <1>2, <1>3, <2>4, <3>1, <4>1 DEF Single
      <4>3. hdr[b].next # curr
        BY <2>2, <4>2
      <4> QED
        BY <2>4, <4>1, <4>2, <4>3
    <3> QED
      BY <1>0, <2>1, <3>1 DEF MergedOK, Single
  <2> QED
    BY <2>6, <2>8, <2>9, <2>10 DEF IInv
<1>5. CASE ~Mergeable(curr)
  <2>1. hdr' = hdr /\ curr' = c
    BY <1>5 DEF MergeStep
  <2>2. Single(hdr, curr)
    BY <1>5 DEF Mergeable, Single
  <2>3. \A b \in DOMAIN hdr : b < c => b <= curr
    <3>1. Ends(hdr, curr) = c
      BY <1>0, <1>1 DEF Tiled
    <3>2. \A b \in DOMAIN hdr : curr < b => c <= b
      BY <1>0, <1>1, <3>1 DEF Tiled
    <3> HIDE DEF c
    <3> QED
      BY <1>0, <1>2, <3>2
  <2>4. ListOK' /\ OwnOK'
    BY <1>0, <2>1 DEF IInv, ListOK, OwnOK
  <2>5. CallOK'
    BY <1>0, <1>2, <2>1 DEF IInv, CallOK
  <2>6. MergedOK'
    <3>1. ASSUME NEW b \in DOMAIN hdr, b < c
          PROVE  Single(hdr, b)
      <4>1. b = curr \/ b < curr
        BY <1>0, <1>2, <2>3, <3>1
      <4> QED
        BY <1>3, <2>2, <4>1
    <3> QED
      BY <1>0, <2>1, <3>1 DEF MergedOK
  <2> QED
    BY <2>4, <2>5, <2>6 DEF IInv
<1> QED
  BY <1>4, <1>5

\* At the end of the pass the last block was reached, so no pair is left.
LEMMA MergeEndInv ==
  ASSUME IInv, MergeEnd
  PROVE  IInv'
<1>0. /\ pc = "merge" /\ curr \in DOMAIN hdr /\ hdr[curr].next = Null
      /\ live' = IF got = Null THEN live ELSE Put(live, got, call.n)
      /\ pc' = "idle" /\ call' = NoCall /\ curr' = Null /\ got' = Null
      /\ heap_init' = heap_init /\ free_list' = free_list /\ hdr' = hdr /\ errno' = errno
  BY NullIsNoAddress, ShapeFacts DEF MergeEnd, IInv, CallOK, ListOK
<1>1. heap_init = TRUE /\ Shape(hdr) /\ Tiled(hdr)
  BY <1>0 DEF IInv, ListOK
<1>2. \A b \in DOMAIN hdr : b <= curr
  <2>1. \A b \in DOMAIN hdr : curr < b => HeapSize <= b
    BY <1>0, <1>1 DEF Tiled
  <2>2. \A b \in DOMAIN hdr : b \in Nat /\ b <= HeapSize - 24
    BY <1>1, ShapeFacts
  <2> QED
    BY <1>0, <2>1, <2>2, HeapAssumption
<1>3. MergedOK'
  <2>1. ASSUME NEW b \in DOMAIN hdr PROVE Single(hdr, b)
    <3>1. CASE b = curr
      BY <1>0, <3>1 DEF Single
    <3>2. CASE b # curr
      <4>1. b < curr
        BY <1>0, <1>1, <1>2, <3>2, ShapeFacts
      <4> QED
        BY <4>1 DEF IInv, MergedOK
    <3> QED
      BY <3>1, <3>2
  <2> QED
    BY <1>0, <2>1 DEF MergedOK
<1>4. ListOK'
  BY <1>0, <1>1 DEF IInv, ListOK
<1>5. CallOK'
  BY <1>0, NullIsNoAddress DEF IInv, CallOK, NoCall
<1>6. OwnOK'
  <2>1. CASE got = Null
    BY <1>0, <2>1 DEF IInv, OwnOK
  <2>2. CASE got # Null
    <3>1. Region(hdr, got, call.n) /\ got \notin DOMAIN live /\ call.n \in Nat
      BY <2>2 DEF IInv, OwnOK, CallOK
    <3>2. got \in Nat
      <4>1. got - 24 \in Nat /\ got \in Int
        BY <1>1, <3>1, ShapeFacts DEF Region, BLOCK_SIZE
      <4> QED
        BY <4>1
    <3>3. /\ DOMAIN live' = DOMAIN live \cup {got} /\ live'[got] = call.n
          /\ live' = [q \in DOMAIN live' |-> live'[q]]
          /\ \A q \in DOMAIN live : live'[q] = live[q]
      BY <1>0, <2>2, <3>1 DEF Put
    <3>4. live' \in [DOMAIN live' -> Nat] /\ DOMAIN live' \subseteq Nat
      BY <3>1, <3>2, <3>3 DEF IInv, OwnOK
    <3>5. \A q \in DOMAIN live' : Region(hdr', q, live'[q])
      BY <1>0, <3>1, <3>3 DEF IInv, OwnOK
    <3>6. \A b \in DOMAIN hdr' : ~hdr'[b].free => b + BLOCK_SIZE \in DOMAIN live'
      BY <1>0, <3>3 DEF IInv, OwnOK
    <3> QED
      BY <1>0, <3>4, <3>5, <3>6 DEF OwnOK
  <2> QED
    BY <2>1, <2>2
<1> QED
  BY <1>3, <1>4, <1>5, <1>6 DEF IInv

\* The sizes the program passes do not wrap ALIGN16.
LEMMA RequestsFit ==
  ASSUME NoWrap
  PROVE  /\ \A n \in Requests : n \in Nat /\ n <= SizeMax - 15
         /\ \A c \in Counts, s \in Requests :
              s # 0 /\ c <= SizeMax \div s => c * s \in Nat /\ c * s <= SizeMax - 15
<1>1. \A n \in Requests : n \in Nat /\ n <= SizeMax - 15
  BY HeapAssumption DEF NoWrap, Sizes
<1>2. ASSUME NEW c \in Counts, NEW s \in Requests, s # 0, c <= SizeMax \div s
      PROVE  c * s \in Nat /\ c * s <= SizeMax - 15
  <2>1. c \in Nat /\ s \in Nat /\ s > 0 /\ SizeMax \in Nat
    BY <1>2, HeapAssumption
  <2>2. s * (SizeMax \div s) <= SizeMax
    BY <2>1
  <2>3. c * s <= (SizeMax \div s) * s /\ SizeMax \div s \in Int
    BY <1>2, <2>1
  <2>4. c * s \in Nat /\ c * s <= SizeMax
    BY <2>1, <2>2, <2>3
  <2>5. c * s \in Sizes
    BY DEF Sizes
  <2> QED
    BY <2>4, <2>5 DEF NoWrap
<1> QED
  BY <1>1, <1>2

\* realloc in place.
LEMMA ResizeInv ==
  ASSUME IInv, pc = "idle", NEW p \in DOMAIN live, NEW n \in Nat,
         hdr[p - BLOCK_SIZE].size >= n, live' = [live EXCEPT ![p] = n],
         UNCHANGED <<heap_init, free_list, hdr, errno, pc, call, curr, got>>
  PROVE  IInv'
<1>0. hdr[p - BLOCK_SIZE].size \in Nat /\ Region(hdr, p, live[p])
  <2>1. Region(hdr, p, live[p])
    BY DEF IInv, OwnOK
  <2> QED
    BY <2>1, ShapeFacts DEF IInv, ListOK, Region
<1>1. DOMAIN live' = DOMAIN live /\ live' \in [DOMAIN live' -> Nat]
  BY DEF IInv, OwnOK
<1>2. Region(hdr, p, n)
  BY <1>0 DEF Region
<1>3. OwnOK'
  BY <1>1, <1>2 DEF IInv, OwnOK
<1>4. ListOK'
  BY <1>1 DEF IInv, ListOK
<1>5. CallOK'
  BY <1>1 DEF IInv, CallOK
<1>6. MergedOK'
  BY DEF IInv, MergedOK
<1> QED
  BY <1>3, <1>4, <1>5, <1>6 DEF IInv

\* The invariant does not speak of errno, which is not the allocator's alone.
LEMMA ErrnoInv ==
  ASSUME IInv,
         UNCHANGED <<heap_init, free_list, hdr, pc, call, curr, got, live>>
  PROVE  IInv'
<1>1. ListOK' /\ OwnOK'
  BY DEF IInv, ListOK, OwnOK
<1>2. CallOK' /\ MergedOK'
  BY DEF IInv, CallOK, MergedOK
<1> QED
  BY <1>1, <1>2 DEF IInv

\* A stuttering step changes nothing at all.
LEMMA StutterInv ==
  ASSUME IInv, UNCHANGED vars
  PROVE  IInv'
<1>1. ListOK' /\ OwnOK'
  BY DEF IInv, ListOK, OwnOK, vars
<1>2. CallOK' /\ MergedOK'
  BY DEF IInv, CallOK, MergedOK, vars
<1> QED
  BY <1>1, <1>2 DEF IInv

\* Every step of the program and of the library preserves the invariant.
LEMMA NextInv ==
  ASSUME NoWrap, IInv, [Next]_vars
  PROVE  IInv'
<1>1. CASE Malloc
  <2>1. PICK n \in Requests : EnterMalloc(n, Null)
    BY <1>1 DEF Malloc
  <2>2. pc = "idle" /\ n \in Nat /\ n <= SizeMax - 15
    BY <1>1, RequestsFit DEF Malloc
  <2> QED
    BY <2>1, <2>2, EnterMallocInv
<1>2. CASE Free
  BY <1>2, EnterFreeInv DEF Free
<1>3. CASE Calloc
  <2>1. PICK c \in Counts \ {0}, s \in Requests \ {0} :
          IF c > SizeMax \div s THEN Fail ELSE EnterMalloc(c * s, Null)
    BY <1>3 DEF Calloc
  <2>2. pc = "idle"
    BY <1>3 DEF Calloc
  <2>3. CASE c > SizeMax \div s
    BY <2>1, <2>2, <2>3, FailInv
  <2>4. CASE ~(c > SizeMax \div s)
    <3>1. c <= SizeMax \div s
      <4>1. c \in Nat /\ s \in Nat /\ s > 0 /\ SizeMax \in Nat
        BY HeapAssumption
      <4>2. SizeMax \div s \in Int
        BY <4>1
      <4> QED
        BY <2>4, <4>1, <4>2
    <3>2. c * s \in Nat /\ c * s <= SizeMax - 15
      BY <3>1, RequestsFit
    <3> DEFINE n == c * s
    <3>3. EnterMalloc(n, Null)
      BY <2>1, <2>4
    <3>4. n \in Nat /\ n <= SizeMax - 15
      BY <3>2
    <3> HIDE DEF n
    <3> QED
      BY <2>2, <3>3, <3>4, EnterMallocInv
  <2> QED
    BY <2>3, <2>4
<1>4. CASE Realloc
  <2>1. PICK p \in DOMAIN live, n \in Requests :
          \/ n = 0 /\ EnterFree(p)
          \/ /\ n # 0 /\ hdr[p - BLOCK_SIZE].size >= n
             /\ live' = [live EXCEPT ![p] = n]
             /\ UNCHANGED <<heap_init, free_list, hdr, errno, pc, call, curr, got>>
          \/ hdr[p - BLOCK_SIZE].size < n /\ EnterMalloc(n, p)
    BY <1>4 DEF Realloc
  <2>2. pc = "idle" /\ n \in Nat /\ n <= SizeMax - 15
    BY <1>4, RequestsFit DEF Realloc
  <2>3. CASE EnterFree(p)
    BY <2>2, <2>3, EnterFreeInv
  <2>4. CASE /\ hdr[p - BLOCK_SIZE].size >= n
             /\ live' = [live EXCEPT ![p] = n]
             /\ UNCHANGED <<heap_init, free_list, hdr, errno, pc, call, curr, got>>
    BY <2>2, <2>4, ResizeInv
  <2>5. CASE EnterMalloc(n, p)
    BY <2>2, <2>5, EnterMallocInv
  <2> QED
    BY <2>1, <2>3, <2>4, <2>5
<1>5. CASE ClearErrno
  BY <1>5, ErrnoInv DEF ClearErrno
<1>6. CASE TakeBlock
  BY <1>6, TakeBlockInv
<1>7. CASE WalkOn
  BY <1>7, WalkOnInv
<1>8. CASE OutOfMemory
  BY <1>8, FailInv DEF OutOfMemory
<1>9. CASE CopyAndFree
  <2>1. pc = "copy" /\ EnterFree(call.old) /\ call.old \in DOMAIN live
    BY <1>9 DEF CopyAndFree, IInv, CallOK
  <2> QED
    BY <2>1, EnterFreeInv
<1>10. CASE MergeStep
  BY <1>10, MergeStepInv
<1>11. CASE MergeEnd
  BY <1>11, MergeEndInv
<1>12. CASE UNCHANGED vars
  BY <1>12, StutterInv
<1> QED
  BY <1>1, <1>2, <1>3, <1>4, <1>5, <1>6, <1>7, <1>8, <1>9, <1>10, <1>11, <1>12
     DEF Next, Library

-----------------------------------------------------------------------------
(* What follows for every execution.                                       *)

\* The inductive invariant holds in every state, of every instance that
\* does not pass byte counts ALIGN16 wraps.
LEMMA Invariance == NoWrap => (Spec => []IInv)
<1> SUFFICES ASSUME NoWrap PROVE Spec => []IInv
  OBVIOUS
<1>1. Init => IInv
  BY InitInv
<1>2. IInv /\ [Next]_vars => IInv'
  BY NextInv
<1> QED
  BY <1>1, <1>2, PTL DEF Spec

\* The allocator sets errno to ENOMEM, the program to 0.
ErrnoOK == errno \in {0, ENOMEM}

\* Nothing else sets it.
LEMMA ErrnoInvariance == Spec => []ErrnoOK
<1>1. Init => ErrnoOK
  BY DEF Init, ErrnoOK
<1>2. ErrnoOK /\ [Next]_vars => ErrnoOK'
  <2> SUFFICES ASSUME ErrnoOK, [Next]_vars, errno' # errno PROVE errno' \in {0, ENOMEM}
    BY DEF ErrnoOK
  <2>1. Fail => errno' = ENOMEM
    BY DEF Fail
  <2> QED
    BY <2>1 DEF Next, vars, Library, Malloc, Free, Calloc, Realloc, ClearErrno, EnterMalloc,
                EnterFree, TakeBlock, WalkOn, OutOfMemory, CopyAndFree, MergeStep, MergeEnd
<1> QED
  BY <1>1, <1>2, PTL DEF Spec

\* What the invariant implies, property by property: the types,
LEMMA InvType == IInv /\ ErrnoOK => TypeOK
<1> SUFFICES ASSUME IInv, ErrnoOK PROVE TypeOK
  OBVIOUS
<1>1. heap_init \in BOOLEAN /\ free_list \in {Null, 0}
  BY DEF IInv, ListOK
<1>2. /\ DOMAIN hdr \subseteq 0 .. HeapSize - BLOCK_SIZE
      /\ hdr \in [DOMAIN hdr -> [size : Nat, free : BOOLEAN, next : DOMAIN hdr \cup {Null}]]
  BY DEF IInv, ListOK, Shape
<1>3. curr \in DOMAIN hdr \cup {Null}
  BY DEF IInv, CallOK
<1>4. errno \in {0, ENOMEM} /\ pc \in {"idle", "walk", "copy", "merge"}
      /\ call \in [n : Nat, old : Int] /\ got \in Int
  BY DEF IInv, CallOK, ErrnoOK
<1>5. live \in [DOMAIN live -> Nat] /\ DOMAIN live \subseteq Nat
  BY DEF IInv, OwnOK
<1> QED
  BY <1>1, <1>2, <1>3, <1>4, <1>5 DEF TypeOK, Blocks

\* the tiling of the arena,
LEMMA InvTiling == IInv => Tiling
BY DEF IInv, ListOK, Tiled, Tiling, Blocks, Ends, EndOf

\* the capacity of what the program owns,
LEMMA InvCapacity == IInv => Capacity
BY DEF IInv, OwnOK, Region, Capacity, Used, Blocks

\* that no free neighbours are left,
LEMMA InvCoalesced == IInv => Coalesced
BY DEF IInv, MergedOK, Single, Coalesced, Blocks

\* the alignment of headers,
LEMMA InvAligned == IInv => Aligned
BY DEF IInv, ListOK, Even8, Aligned, Blocks

\* and that blocks in use and owned pointers are the same.
LEMMA InvOwnership == IInv => Ownership
<1> SUFFICES ASSUME IInv, pc = "idle"
             PROVE  DOMAIN live = {b + BLOCK_SIZE : b \in Used}
  BY DEF Ownership
<1>1. got = Null
  BY DEF IInv, CallOK
<1>2. ASSUME NEW p \in DOMAIN live PROVE p \in {b + BLOCK_SIZE : b \in Used}
  <2>1. Region(hdr, p, live[p])
    BY DEF IInv, OwnOK
  <2>2. p - BLOCK_SIZE \in Used /\ p = (p - BLOCK_SIZE) + BLOCK_SIZE
    BY <2>1 DEF Region, Used, Blocks, BLOCK_SIZE
  <2> QED
    BY <2>2
<1>3. ASSUME NEW b \in Used PROVE b + BLOCK_SIZE \in DOMAIN live
  <2>1. b \in DOMAIN hdr /\ ~hdr[b].free
    BY DEF Used, Blocks
  <2>2. b \in Nat
    BY <2>1, ShapeFacts DEF IInv, ListOK
  <2>3. b + BLOCK_SIZE # Null
    BY <2>2 DEF BLOCK_SIZE, Null
  <2> QED
    BY <1>1, <2>1, <2>3 DEF IInv, OwnOK
<1> QED
  BY <1>2, <1>3

\* With nothing owned all blocks are free; as no two are neighbours, there
\* is one.
LEMMA InvDrained == IInv => DrainedIsFresh
<1> SUFFICES ASSUME IInv, pc = "idle", heap_init, DOMAIN live = {}
             PROVE  hdr = [a \in {0} |-> InitialBlock]
  BY DEF DrainedIsFresh
<1>1. got = Null /\ Shape(hdr) /\ Tiled(hdr) /\ \A b \in DOMAIN hdr : Single(hdr, b)
  BY DEF IInv, CallOK, ListOK, MergedOK
<1>2. \A b \in DOMAIN hdr : hdr[b].free
  <2>1. \A b \in DOMAIN hdr : b + BLOCK_SIZE # got
    BY <1>1, ShapeFacts DEF BLOCK_SIZE, Null
  <2> QED
    BY <2>1 DEF IInv, OwnOK
<1>3. 0 \in DOMAIN hdr
  BY <1>1 DEF Tiled
<1>4. hdr[0].next = Null
  BY <1>1, <1>2, <1>3, ShapeFacts DEF Single
<1>5. Ends(hdr, 0) = HeapSize
  BY <1>1, <1>3, <1>4 DEF Tiled
<1>6. DOMAIN hdr = {0}
  <2>1. ASSUME NEW b \in DOMAIN hdr, b # 0 PROVE FALSE
    <3>1. b \in Nat /\ b <= HeapSize - 24
      BY <1>1, ShapeFacts
    <3>2. 0 < b
      BY <2>1, <3>1
    <3>3. HeapSize <= b
      BY <1>1, <1>3, <1>5, <3>2 DEF Tiled
    <3> QED
      BY <3>1, <3>3, HeapAssumption
  <2> QED
    BY <1>3, <2>1
<1>7. hdr[0].size = HeapSize - 24 /\ hdr[0].free = TRUE
  <2>1. hdr[0].size \in Nat /\ hdr[0].free \in BOOLEAN
    BY <1>1, <1>3, ShapeFacts
  <2> QED
    BY <1>2, <1>3, <1>5, <2>1, HeapAssumption DEF Ends, BLOCK_SIZE
<1>8. hdr[0] = InitialBlock
  <2>1. hdr[0] = [size |-> hdr[0].size, free |-> hdr[0].free, next |-> hdr[0].next]
    BY <1>1, <1>3 DEF Shape
  <2> QED
    BY <1>4, <1>7, <2>1 DEF InitialBlock, BLOCK_SIZE
<1>9. hdr = [a \in DOMAIN hdr |-> hdr[a]]
  BY <1>1 DEF Shape
<1> QED
  BY <1>6, <1>8, <1>9

\* The allocator's state is always well formed: the list of headers is a
\* function on offsets inside heap[], and every next is a header or NULL.
THEOREM TypeCorrect == NoWrap => (Spec => []TypeOK)
BY Invariance, ErrnoInvariance, InvType, PTL

\* The blocks always tile the arena, in the middle of a call too.
THEOREM TilingHolds == NoWrap => (Spec => []Tiling)
BY Invariance, InvTiling, PTL

\* Between calls the blocks in use are exactly those the program owns.
THEOREM OwnershipHolds == NoWrap => (Spec => []Ownership)
BY Invariance, InvOwnership, PTL

\* What the program owns is never smaller than what it asked for.
THEOREM CapacityHolds == NoWrap => (Spec => []Capacity)
BY Invariance, InvCapacity, PTL

\* Between calls no two free blocks are neighbours.
THEOREM CoalescedHolds == NoWrap => (Spec => []Coalesced)
BY Invariance, InvCoalesced, PTL

\* A drained heap is the heap init_heap made.
THEOREM DrainedHolds == NoWrap => (Spec => []DrainedIsFresh)
BY Invariance, InvDrained, PTL

\* Headers are 8-byte aligned.
THEOREM AlignedHolds == NoWrap => (Spec => []Aligned)
BY Invariance, InvAligned, PTL

-----------------------------------------------------------------------------
(* No step touches a block that the program keeps.                         *)

Kept(p) ==
  /\ p - BLOCK_SIZE \in DOMAIN hdr'
  /\ hdr'[p - BLOCK_SIZE].size = hdr[p - BLOCK_SIZE].size
  /\ ~hdr'[p - BLOCK_SIZE].free

\* A step that leaves the headers alone keeps every block.
LEMMA KeptWhenSame ==
  ASSUME IInv, NEW p \in DOMAIN live, hdr' = hdr
  PROVE  Kept(p)
BY DEF IInv, OwnOK, Region, Kept

\* Entering malloc at most makes the first block.
LEMMA KeptByMalloc ==
  ASSUME IInv, NEW p \in DOMAIN live, NEW n, NEW old, EnterMalloc(n, old)
  PROVE  Kept(p)
<1>1. heap_init
  BY DEF IInv, ListOK
<1>2. hdr' = hdr
  BY <1>1 DEF EnterMalloc
<1> QED
  BY <1>2, KeptWhenSame

\* Entering free marks a block the program no longer owns.
LEMMA KeptByFree ==
  ASSUME IInv, NEW p \in DOMAIN live, NEW q \in DOMAIN live, EnterFree(q),
         p \in DOMAIN live'
  PROVE  Kept(p)
<1>1. p # q
  BY DEF EnterFree, Drop
<1>2. Region(hdr, p, live[p]) /\ Region(hdr, q, live[q])
  BY DEF IInv, OwnOK
<1>3. p - BLOCK_SIZE # q - BLOCK_SIZE
  BY <1>1, <1>2 DEF Region, BLOCK_SIZE
<1>4. hdr' = [hdr EXCEPT ![q - BLOCK_SIZE].free = TRUE]
  BY DEF EnterFree
<1>5. p - BLOCK_SIZE \in DOMAIN hdr /\ ~hdr[p - BLOCK_SIZE].free
  BY <1>2 DEF Region
<1>6. DOMAIN hdr' = DOMAIN hdr /\ hdr'[p - BLOCK_SIZE] = hdr[p - BLOCK_SIZE]
  BY <1>3, <1>4, <1>5
<1> QED
  BY <1>5, <1>6 DEF Kept

\* Taking a block changes a free one, and makes another.
LEMMA KeptByTake ==
  ASSUME IInv, NEW p \in DOMAIN live, TakeBlock
  PROVE  Kept(p)
<1> DEFINE s == ALIGN16(call.n)
<1>0. pc = "walk" /\ curr \in DOMAIN hdr /\ call.n \in Nat /\ call.n <= SizeMax - 15
      /\ heap_init = TRUE
  BY DEF TakeBlock, IInv, CallOK, ListOK
<1>1. Shape(hdr) /\ Tiled(hdr) /\ Even8(hdr) /\ \A a \in DOMAIN hdr : Single(hdr, a)
  BY <1>0 DEF IInv, ListOK, MergedOK
<1>2. s \in Nat /\ Multiple8(s)
  BY <1>0, AlignUp DEF Multiple8
<1>3. hdr[curr].free /\ hdr[curr].size >= s
  BY DEF TakeBlock, Fits
<1>4. hdr' = Taken(SplitBlock(hdr, curr, s), curr)
  BY DEF TakeBlock, Taken
<1> HIDE DEF s
<1>5. DOMAIN hdr \subseteq DOMAIN hdr' /\ \A a \in DOMAIN hdr : a # curr => hdr'[a] = hdr[a]
  BY <1>0, <1>1, <1>2, <1>3, <1>4, TakeKeepsTheList
<1>6. p - BLOCK_SIZE \in DOMAIN hdr /\ ~hdr[p - BLOCK_SIZE].free
  BY DEF IInv, OwnOK, Region
<1>7. p - BLOCK_SIZE # curr
  BY <1>3, <1>6
<1> QED
  BY <1>5, <1>6, <1>7 DEF Kept

\* The merge pass changes free blocks only.
LEMMA KeptByMerge ==
  ASSUME IInv, NEW p \in DOMAIN live, MergeStep
  PROVE  Kept(p)
<1>1. CASE ~Mergeable(curr)
  BY <1>1, KeptWhenSame DEF MergeStep
<1>2. CASE Mergeable(curr)
  <2>1. PICK c : c = hdr[curr].next
    OBVIOUS
  <2>2. hdr' = Absorb(hdr, curr) /\ hdr[curr].free /\ hdr[c].free /\ c # Null
        /\ curr \in DOMAIN hdr /\ pc = "merge"
    BY <1>2, <2>1 DEF MergeStep, Mergeable, IInv, CallOK
  <2>3. Shape(hdr) /\ Tiled(hdr) /\ Even8(hdr)
    BY <2>2 DEF IInv, ListOK
  <2>4. DOMAIN hdr' = DOMAIN hdr \ {c}
        /\ \A a \in DOMAIN hdr : a # curr /\ a # c => hdr'[a] = hdr[a]
    BY <2>1, <2>2, <2>3, AbsorbKeepsTheList
  <2>5. p - BLOCK_SIZE \in DOMAIN hdr /\ ~hdr[p - BLOCK_SIZE].free
    BY DEF IInv, OwnOK, Region
  <2>6. p - BLOCK_SIZE # curr /\ p - BLOCK_SIZE # c
    BY <2>2, <2>5
  <2> QED
    BY <2>4, <2>5, <2>6 DEF Kept
<1> QED
  BY <1>1, <1>2

\* No step changes a block the program keeps.
LEMMA NextKeeps ==
  ASSUME IInv, Next, NEW p \in DOMAIN live, p \in DOMAIN live'
  PROVE  Kept(p)
<1>1. CASE Malloc
  BY <1>1, KeptByMalloc DEF Malloc
<1>2. CASE Free
  BY <1>2, KeptByFree DEF Free
<1>3. CASE Calloc
  <2>1. CASE Fail
    BY <2>1, KeptWhenSame DEF Fail
  <2>2. CASE \E n : EnterMalloc(n, Null)
    BY <2>2, KeptByMalloc
  <2> QED
    BY <1>3, <2>1, <2>2 DEF Calloc
<1>4. CASE Realloc
  <2>1. CASE \E q \in DOMAIN live : EnterFree(q)
    BY <2>1, KeptByFree
  <2>2. CASE hdr' = hdr
    BY <2>2, KeptWhenSame
  <2>3. CASE \E n, q : EnterMalloc(n, q)
    BY <2>3, KeptByMalloc
  <2> QED
    BY <1>4, <2>1, <2>2, <2>3 DEF Realloc
<1>5. CASE ClearErrno \/ WalkOn \/ MergeEnd
  BY <1>5, KeptWhenSame DEF ClearErrno, WalkOn, MergeEnd
<1>6. CASE OutOfMemory
  BY <1>6, KeptWhenSame DEF OutOfMemory, Fail
<1>7. CASE TakeBlock
  BY <1>7, KeptByTake
<1>8. CASE CopyAndFree
  <2>1. EnterFree(call.old) /\ call.old \in DOMAIN live
    BY <1>8 DEF CopyAndFree, IInv, CallOK
  <2> QED
    BY <2>1, KeptByFree
<1>9. CASE MergeStep
  BY <1>9, KeptByMerge
<1> QED
  BY <1>1, <1>2, <1>3, <1>4, <1>5, <1>6, <1>7, <1>8, <1>9 DEF Next, Library

\* Whatever the library does inside a call, the blocks the program keeps stay
\* where they are, as large as they were, and in use.
THEOREM KeptBlocksHold == NoWrap => (Spec => KeptBlocksUntouched)
<1>1. IInv /\ [Next]_vars
        => [\A p \in DOMAIN live : p \in DOMAIN live' =>
              /\ p - BLOCK_SIZE \in DOMAIN hdr'
              /\ hdr'[p - BLOCK_SIZE].size = hdr[p - BLOCK_SIZE].size
              /\ ~hdr'[p - BLOCK_SIZE].free]_vars
  BY NextKeeps DEF Kept
<1> QED
  BY <1>1, Invariance, PTL DEF Spec, KeptBlocksUntouched

-----------------------------------------------------------------------------
(* The refinement of HeapContract.                                         *)

(* What the walk of malloc has seen.                                       *)

\* The blocks the walk has passed do not fit, and something was asked for.
WalkOK ==
  pc = "walk" =>
    /\ call.n # 0
    /\ \A b \in DOMAIN hdr : curr = Null \/ b < curr => ~Fits(b, call.n)

RInv == IInv /\ WalkOK

\* The next block is the first behind this one.
LEMMA NextIsNext ==
  ASSUME NEW h, Shape(h), Tiled(h), NEW b \in DOMAIN h
  PROVE  /\ h[b].next # Null => \A a \in DOMAIN h : a < h[b].next => a <= b
         /\ h[b].next = Null => \A a \in DOMAIN h : a <= b
<1>1. \A a \in DOMAIN h : a \in Nat /\ a <= HeapSize - 24
  BY ShapeFacts
<1>2. h[b].next \in DOMAIN h \cup {Null}
  BY ShapeFacts
<1>3. \A a \in DOMAIN h : b < a => Ends(h, b) <= a
  BY DEF Tiled
<1>4. CASE h[b].next # Null
  <2>1. Ends(h, b) = h[b].next
    BY <1>4 DEF Tiled
  <2> QED
    BY <1>1, <1>2, <1>3, <1>4, <2>1
<1>5. CASE h[b].next = Null
  <2>1. Ends(h, b) = HeapSize
    BY <1>5 DEF Tiled
  <2> QED
    BY <1>1, <1>3, <1>5, <2>1, HeapAssumption
<1> QED
  BY <1>4, <1>5

\* The block the walk goes past does not fit.
LEMMA WalkOnSeen ==
  ASSUME RInv, WalkOn
  PROVE  WalkOK'
<1>1. /\ pc = "walk" /\ curr \in DOMAIN hdr /\ ~Fits(curr, call.n)
      /\ curr' = hdr[curr].next /\ hdr' = hdr /\ pc' = pc /\ call' = call
  BY DEF RInv, WalkOn, IInv, CallOK
<1>2. Shape(hdr) /\ Tiled(hdr)
  BY <1>1 DEF RInv, IInv, ListOK
<1>3. ASSUME NEW b \in DOMAIN hdr, curr' = Null \/ b < curr' PROVE ~Fits(b, call.n)
  <2>1. b <= curr
    BY <1>1, <1>2, <1>3, NextIsNext
  <2>2. b \in Nat /\ curr \in Nat
    BY <1>1, <1>2, ShapeFacts
  <2>3. CASE b = curr
    BY <1>1, <2>3
  <2>4. CASE b # curr
    <3>1. b < curr
      BY <2>1, <2>2, <2>4
    <3>2. curr # Null
      BY <2>2, NullIsNoAddress
    <3> QED
      BY <1>1, <3>1 DEF RInv, WalkOK
  <2> QED
    BY <2>3, <2>4
<1>4. \A b : Fits(b, call.n)' <=> Fits(b, call.n)
  BY <1>1 DEF Fits
<1> QED
  BY <1>1, <1>3, <1>4 DEF RInv, WalkOK

\* A walk begins with nothing behind it.
LEMMA EnterMallocSeen ==
  ASSUME RInv, pc = "idle", NEW n \in Nat, NEW old, EnterMalloc(n, old), IInv'
  PROVE  WalkOK'
<1>1. n # 0 /\ call' = [n |-> n, old |-> old] /\ curr' = free_list' /\ pc' = "walk"
  BY DEF EnterMalloc
<1>2. free_list' = 0 /\ Shape(hdr')
  <2>1. heap_init' = TRUE
    BY DEF EnterMalloc
  <2> QED
    BY <2>1 DEF IInv, ListOK
<1>3. \A b \in DOMAIN hdr' : ~(b < 0)
  BY <1>2, ShapeFacts
<1> QED
  BY <1>1, <1>2, <1>3, NullIsNoAddress DEF WalkOK

\* No step makes a block that was passed fit.
LEMMA WalkKept ==
  ASSUME NoWrap, RInv, [Next]_vars, IInv'
  PROVE  WalkOK'
<1>1. CASE Malloc
  <2>1. PICK n \in Requests : EnterMalloc(n, Null)
    BY <1>1 DEF Malloc
  <2>2. pc = "idle" /\ n \in Nat
    BY <1>1, RequestsFit DEF Malloc
  <2> QED
    BY <2>1, <2>2, EnterMallocSeen
<1>2. CASE Calloc
  <2>1. PICK c \in Counts \ {0}, s \in Requests \ {0} :
          IF c > SizeMax \div s THEN Fail ELSE EnterMalloc(c * s, Null)
    BY <1>2 DEF Calloc
  <2>2. pc = "idle" /\ c * s \in Nat
    <3>1. c \in Nat /\ s \in Nat
      BY HeapAssumption
    <3> QED
      BY <1>2, <3>1 DEF Calloc
  <2>3. CASE Fail
    BY <2>3 DEF Fail, WalkOK
  <2>4. CASE EnterMalloc(c * s, Null)
    <3> DEFINE n == c * s
    <3>1. n \in Nat /\ EnterMalloc(n, Null)
      BY <2>2, <2>4
    <3> HIDE DEF n
    <3> QED
      BY <2>2, <3>1, EnterMallocSeen
  <2> QED
    BY <2>1, <2>3, <2>4
<1>3. CASE Realloc
  <2>1. PICK p \in DOMAIN live, n \in Requests :
          \/ n = 0 /\ EnterFree(p)
          \/ /\ n # 0 /\ hdr[p - BLOCK_SIZE].size >= n
             /\ live' = [live EXCEPT ![p] = n]
             /\ UNCHANGED <<heap_init, free_list, hdr, errno, pc, call, curr, got>>
          \/ hdr[p - BLOCK_SIZE].size < n /\ EnterMalloc(n, p)
    BY <1>3 DEF Realloc
  <2>2. pc = "idle" /\ n \in Nat
    BY <1>3, RequestsFit DEF Realloc
  <2>3. CASE EnterFree(p)
    BY <2>3 DEF EnterFree, WalkOK
  <2>4. CASE UNCHANGED pc
    BY <2>2, <2>4 DEF WalkOK
  <2>5. CASE EnterMalloc(n, p)
    BY <2>2, <2>5, EnterMallocSeen
  <2> QED
    BY <2>1, <2>3, <2>4, <2>5
<1>4. CASE WalkOn
  BY <1>4, WalkOnSeen
<1>5. CASE Free \/ CopyAndFree
  BY <1>5 DEF Free, CopyAndFree, EnterFree, WalkOK
<1>6. CASE ClearErrno \/ TakeBlock \/ OutOfMemory \/ MergeStep \/ MergeEnd
  BY <1>6 DEF ClearErrno, TakeBlock, OutOfMemory, Fail, MergeStep, MergeEnd, WalkOK
<1>7. CASE UNCHANGED vars
  BY <1>7 DEF vars, RInv, WalkOK, Fits
<1> QED
  BY <1>1, <1>2, <1>3, <1>4, <1>5, <1>6, <1>7 DEF Next, Library

\* So the walk has seen no room up to where it is.
LEMMA Seen == NoWrap => (Spec => []RInv)
<1> SUFFICES ASSUME NoWrap PROVE Spec => []RInv
  OBVIOUS
<1>1. Init => RInv
  BY InitInv DEF Init, RInv, WalkOK
<1>2. RInv /\ [Next]_vars => RInv'
  <2> SUFFICES ASSUME RInv, [Next]_vars PROVE RInv'
    OBVIOUS
  <2>1. IInv'
    BY NextInv DEF RInv
  <2> QED
    BY <2>1, WalkKept DEF RInv
<1> QED
  BY <1>1, <1>2, PTL DEF Spec

-----------------------------------------------------------------------------
(* The arena without the list.                                             *)

\* A set of numbers has a least one: the segments below its members are
\* well-founded by inclusion.
LEMMA Least ==
  ASSUME NEW T, T \subseteq Nat, T # {}
  PROVE  \E x \in T : \A y \in T : x <= y
<1> DEFINE Below(n) == 0 .. n - 1
           Segments == {Below(n) : n \in T}
           R == StrictSubsetOrdering(Nat)
<1>1. Segments \subseteq FiniteSubsetsOf(Nat) /\ Segments # {}
  <2>1. \A n \in T : IsFiniteSet(Below(n)) /\ Below(n) \subseteq Nat
    BY FS_Interval
  <2> QED
    BY <2>1 DEF FiniteSubsetsOf
<1>2. \E x \in Segments : \A y \in Segments : ~ (<<y, x>> \in R)
  <2>1. IsWellFoundedOn(R, FiniteSubsetsOf(Nat))
    BY FS_StrictSubsetOrderingWellFounded
  <2> HIDE DEF Segments, R
  <2> QED
    BY <1>1, <2>1, WFMin
<1>3. PICK x \in T : \A y \in T : ~ (<<Below(y), Below(x)>> \in R)
  BY <1>2
<1>4. ASSUME NEW y \in T, ~(x <= y) PROVE FALSE
  <2>1. Below(y) \subseteq Below(x) /\ y \in Below(x) /\ y \notin Below(y)
    BY <1>4
  <2>2. <<Below(y), Below(x)>> \in R
    BY <2>1 DEF StrictSubsetOrdering
  <2> QED
    BY <1>3, <2>2
<1> QED
  BY <1>4

\* Every byte of the arena lies in a block.
LEMMA Cover ==
  ASSUME NEW h, Shape(h), Tiled(h), NEW x \in Nat, x < HeapSize
  PROVE  \E b \in DOMAIN h : b <= x /\ x < Ends(h, b)
<1> DEFINE T == {x - a : a \in {a \in DOMAIN h : a <= x}}
<1>1. 0 \in DOMAIN h /\ \A a \in DOMAIN h : a \in Nat
  BY ShapeFacts DEF Tiled
<1>2. T \subseteq Nat /\ T # {}
  BY <1>1
<1>3. PICK d \in T : \A e \in T : d <= e
  BY <1>2, Least
<1>4. PICK b \in DOMAIN h : b <= x /\ d = x - b
  OBVIOUS
<1>5. \A a \in DOMAIN h : a <= x => a <= b
  BY <1>1, <1>3, <1>4
<1>6. b \in Nat /\ h[b].next \in DOMAIN h \cup {Null} /\ h[b].size \in Nat
  BY ShapeFacts
<1>7. x < Ends(h, b)
  <2>1. CASE h[b].next = Null
    BY <2>1 DEF Tiled
  <2>2. CASE h[b].next # Null
    <3>1. Ends(h, b) = h[b].next /\ h[b].next \in DOMAIN h
      BY <1>6, <2>2 DEF Tiled
    <3>2. b < Ends(h, b) /\ Ends(h, b) \in Nat
      BY <1>6 DEF Ends, BLOCK_SIZE
    <3> QED
      BY <1>5, <1>6, <3>1, <3>2
  <2> QED
    BY <2>1, <2>2
<1> QED
  BY <1>4, <1>7

\* Both round a request up to the same multiple of 16.
LEMMA SameRounding ==
  ASSUME NEW n \in Nat, n <= SizeMax - 15
  PROVE  Contract!RoundUp16(n) = ALIGN16(n)
<1>1. ALIGN16(n) = n + 15 - ((n + 15) % 16)
  BY AlignUp
<1>2. n + ((16 - (n % 16)) % 16) = n + 15 - ((n + 15) % 16)
  <2> DEFINE r == n % 16
             q == n \div 16
  <2>1. r \in 0 .. 15 /\ q \in Int /\ n = 16 * q + r
    OBVIOUS
  <2> HIDE DEF r, q
  <2>2. CASE r = 0
    <3>1. (n + 15) % 16 = 15 /\ (16 - r) % 16 = 0
      BY <2>1, <2>2
    <3> QED
      BY <2>2, <3>1 DEF r
  <2>3. CASE r > 0
    <3>1. (n + 15) % 16 = r - 1 /\ (16 - r) % 16 = 16 - r
      BY <2>1, <2>3
    <3> QED
      BY <2>1, <2>3, <3>1 DEF r
  <2> QED
    BY <2>1, <2>2, <2>3
<1> QED
  BY <1>1, <1>2 DEF Contract!RoundUp16

\* What the contract says of a region is what the list says of its block.
LEMMA RegionsAre ==
  ASSUME Shape(hdr)
  PROVE  /\ \A b \in DOMAIN hdr : ~hdr[b].free =>
              /\ b + 24 \in DOMAIN Regions /\ Regions[b + 24] = hdr[b].size
              /\ b + 24 + Regions[b + 24] = Ends(hdr, b)
         /\ \A p \in DOMAIN Regions :
              p \in Nat /\ p - 24 \in DOMAIN hdr /\ ~hdr[p - 24].free
<1>1. DOMAIN Regions = {b + BLOCK_SIZE : b \in Used}
  BY DEF Regions
<1>2. ASSUME NEW b \in DOMAIN hdr, ~hdr[b].free
      PROVE  /\ b + 24 \in DOMAIN Regions /\ Regions[b + 24] = hdr[b].size
             /\ b + 24 + Regions[b + 24] = Ends(hdr, b)
  <2>1. b \in Nat /\ hdr[b].size \in Nat
    BY ShapeFacts
  <2>2. b + 24 \in DOMAIN Regions
    BY <1>1, <1>2 DEF Used, Blocks, BLOCK_SIZE
  <2>3. Regions[b + 24] = hdr[(b + 24) - BLOCK_SIZE].size
    BY <1>1, <2>2 DEF Regions
  <2>4. (b + 24) - BLOCK_SIZE = b
    BY <2>1 DEF BLOCK_SIZE
  <2> QED
    BY <2>2, <2>3, <2>4 DEF Ends, BLOCK_SIZE
<1>3. ASSUME NEW p \in DOMAIN Regions
      PROVE  p \in Nat /\ p - 24 \in DOMAIN hdr /\ ~hdr[p - 24].free
  <2>1. PICK b \in Used : p = b + BLOCK_SIZE
    BY <1>1
  <2>2. b \in DOMAIN hdr /\ ~hdr[b].free
    BY DEF Used, Blocks
  <2>3. b \in Nat
    BY <2>2, ShapeFacts
  <2>4. p = b + 24 /\ p - 24 = b
    BY <2>1, <2>3 DEF BLOCK_SIZE
  <2> QED
    BY <2>2, <2>3, <2>4
<1> QED
  BY <1>2, <1>3

\* A gap lies inside one free block: on either side of it is the end of the
\* arena or a block in use.
LEMMA GapIsFree ==
  ASSUME Shape(hdr), Tiled(hdr), \A b \in DOMAIN hdr : Single(hdr, b),
         NEW x \in Nat, NEW y \in Nat, x < y, Contract!Vacant(x, y)
  PROVE  \E b \in DOMAIN hdr : hdr[b].free /\ b <= x /\ y <= Ends(hdr, b)
<1>1. /\ y <= HeapSize
      /\ \A p \in DOMAIN Regions : y <= p - 24 \/ p + Regions[p] <= x
  BY DEF Contract!Vacant, Contract!BLOCK_SIZE
<1>2. ASSUME NEW b \in DOMAIN hdr, ~hdr[b].free
      PROVE  y <= b \/ Ends(hdr, b) <= x
  <2>1. b \in Nat /\ b + 24 \in DOMAIN Regions /\ b + 24 + Regions[b + 24] = Ends(hdr, b)
    BY <1>2, RegionsAre, ShapeFacts
  <2>2. (b + 24) - 24 = b
    BY <2>1
  <2> QED
    BY <1>1, <2>1, <2>2
<1>3. HeapSize \in Nat /\ x < HeapSize
  BY <1>1, HeapAssumption
<1>4. PICK b \in DOMAIN hdr : b <= x /\ x < Ends(hdr, b)
  BY <1>3, Cover
<1>5. /\ b \in Nat /\ hdr[b].size \in Nat /\ hdr[b].free \in BOOLEAN
      /\ hdr[b].next \in DOMAIN hdr \cup {Null} /\ Ends(hdr, b) \in Nat
  BY ShapeFacts DEF Ends, BLOCK_SIZE
<1>6. hdr[b].free
  BY <1>2, <1>4, <1>5
<1>7. y <= Ends(hdr, b)
  <2>1. CASE hdr[b].next = Null
    BY <1>1, <2>1 DEF Tiled
  <2>2. CASE hdr[b].next # Null
    <3> DEFINE c == hdr[b].next
    <3>1. c \in DOMAIN hdr /\ Ends(hdr, b) = c /\ ~hdr[c].free
      BY <1>5, <1>6, <2>2 DEF Tiled, Single
    <3> HIDE DEF c
    <3>2. c \in Nat /\ hdr[c].size \in Nat
      BY <3>1, ShapeFacts
    <3>3. x < c /\ c < Ends(hdr, c) /\ Ends(hdr, c) \in Nat
      BY <1>4, <3>1, <3>2 DEF Ends, BLOCK_SIZE
    <3>4. y <= c \/ Ends(hdr, c) <= x
      BY <1>2, <3>1
    <3> QED
      BY <3>1, <3>2, <3>3, <3>4
  <2> QED
    BY <2>1, <2>2
<1> QED
  BY <1>4, <1>6, <1>7

\* malloc gives up only when the arena has no room, wherever that might be.
LEMMA RefusedForWantOfRoom ==
  ASSUME RInv, pc = "walk", curr = Null
  PROVE  ~Contract!Room(call.n)
<1> DEFINE r == Contract!RoundUp16(call.n)
<1>1. /\ Shape(hdr) /\ Tiled(hdr) /\ \A b \in DOMAIN hdr : Single(hdr, b)
      /\ call.n \in Nat /\ call.n <= SizeMax - 15
      /\ \A b \in DOMAIN hdr : ~Fits(b, call.n)
  BY DEF RInv, IInv, ListOK, CallOK, MergedOK, WalkOK
<1>2. r = ALIGN16(call.n) /\ r \in Nat
  BY <1>1, SameRounding, AlignUp
<1> HIDE DEF r
<1>3. ASSUME NEW x \in Contract!Offsets, Contract!Vacant(x, x + 24 + r)
      PROVE  FALSE
  <2>1. x \in Nat
    BY <1>3, HeapAssumption DEF Contract!Offsets
  <2> DEFINE y == x + 24 + r
  <2>2. y \in Nat /\ x < y
    BY <1>2, <2>1
  <2>3. Contract!Vacant(x, y)
    BY <1>3
  <2> HIDE DEF y
  <2>4. PICK b \in DOMAIN hdr : hdr[b].free /\ b <= x /\ y <= Ends(hdr, b)
    BY <1>1, <2>1, <2>2, <2>3, GapIsFree
  <2>5. b \in Nat /\ hdr[b].size \in Nat
    BY <1>1, ShapeFacts
  <2>6. hdr[b].size >= r
    BY <1>2, <2>1, <2>4, <2>5 DEF Ends, BLOCK_SIZE, y
  <2> QED
    BY <1>1, <1>2, <2>4, <2>6 DEF Fits
<1> QED
  BY <1>3 DEF Contract!Room, Contract!BLOCK_SIZE, r

-----------------------------------------------------------------------------
(* Step by step.                                                           *)

\* What a block wastes is too little to make a block of its own.
LEMMA TakeWastes ==
  ASSUME NEW h, NEW b \in DOMAIN h, NEW s \in Nat,
         Shape(h), Tiled(h), Even8(h), Multiple8(s), h[b].size >= s
  PROVE  LET g == Taken(SplitBlock(h, b, s), b)
         IN  g[b].size - s \in {0, 8, 16, 24, 32} /\ g[b].size <= h[b].size
<1> DEFINE g == Taken(SplitBlock(h, b, s), b)
<1>1. h[b].size \in Nat
  BY ShapeFacts
<1>2. CASE h[b].size >= s + 40
  <2>1. g = Cut(h, b, s)
    BY <1>2, SplitIsCut
  <2> HIDE DEF g
  <2>2. g[b].size = s
    <3>1. b # b + 24 + s
      BY ShapeFacts
    <3> QED
      BY <2>1, <3>1 DEF Cut
  <2> QED
    BY <1>1, <1>2, <2>2 DEF g
<1>3. CASE ~(h[b].size >= s + 40)
  <2>1. g = Taken(h, b)
    BY <1>3 DEF SplitBlock, BLOCK_SIZE
  <2> HIDE DEF g
  <2>2. g[b].size = h[b].size
    BY <2>1, TakenList
  <2>3. h[b].size % 8 = 0 /\ s % 8 = 0
    BY DEF Even8, Multiple8
  <2>4. h[b].size - s \in {0, 8, 16, 24, 32}
    BY <1>1, <1>3, <2>3
  <2> QED
    BY <1>1, <2>2, <2>4 DEF g
<1> QED
  BY <1>2, <1>3

\* Which bytes are in use decides which regions are held.
LEMMA SameRegions ==
  ASSUME Shape(hdr), Shape(hdr'),
         \A b \in DOMAIN hdr : ~hdr[b].free =>
           b \in DOMAIN hdr' /\ ~hdr'[b].free /\ hdr'[b].size = hdr[b].size,
         \A b \in DOMAIN hdr' : ~hdr'[b].free => b \in DOMAIN hdr /\ ~hdr[b].free
  PROVE  Regions' = Regions
<1>1. Used' = Used
  BY DEF Used, Blocks
<1>2. DOMAIN Regions = {b + BLOCK_SIZE : b \in Used}
  BY DEF Regions
<1>3. ASSUME NEW p \in {b + BLOCK_SIZE : b \in Used}
      PROVE  hdr'[p - BLOCK_SIZE].size = hdr[p - BLOCK_SIZE].size
  <2>1. PICK b \in Used : p = b + BLOCK_SIZE
    OBVIOUS
  <2>2. b \in DOMAIN hdr /\ ~hdr[b].free
    BY DEF Used, Blocks
  <2>3. p - BLOCK_SIZE = b
    <3>1. b \in Nat
      BY <2>2, ShapeFacts
    <3> QED
      BY <2>1, <3>1 DEF BLOCK_SIZE
  <2> QED
    BY <2>2, <2>3
<1> QED
  BY <1>1, <1>3 DEF Regions

\* The block the walk takes is granted.
LEMMA TakeGrants ==
  ASSUME RInv, TakeBlock
  PROVE  Contract!Grant
<1> DEFINE s == ALIGN16(call.n)
<1>0. /\ pc = "walk" /\ curr \in DOMAIN hdr /\ call.n \in Nat /\ call.n <= SizeMax - 15
      /\ heap_init = TRUE /\ call.n # 0 /\ errno' = errno
  BY DEF TakeBlock, RInv, IInv, CallOK, ListOK, WalkOK
<1>1. Shape(hdr) /\ Tiled(hdr) /\ Even8(hdr) /\ \A a \in DOMAIN hdr : Single(hdr, a)
  BY <1>0 DEF RInv, IInv, ListOK, MergedOK
<1>2. s \in Nat /\ Multiple8(s) /\ Contract!RoundUp16(call.n) = s
  BY <1>0, AlignUp, SameRounding DEF Multiple8
<1>3. curr \in Nat /\ hdr[curr].free /\ hdr[curr].size >= s /\ hdr[curr].size \in Nat
  BY <1>0, <1>1, ShapeFacts DEF TakeBlock, Fits
<1>4. hdr' = Taken(SplitBlock(hdr, curr, s), curr)
  BY DEF TakeBlock, Taken
<1>5. pc' # "walk"
  BY DEF TakeBlock
<1> HIDE DEF s
<1>6. /\ Shape(hdr')
      /\ DOMAIN hdr \subseteq DOMAIN hdr'
      /\ \A a \in DOMAIN hdr : a # curr => hdr'[a] = hdr[a]
      /\ \A a \in DOMAIN hdr' : a \notin DOMAIN hdr => hdr'[a].free
      /\ ~hdr'[curr].free
  BY <1>0, <1>1, <1>2, <1>3, <1>4, TakeKeepsTheList
<1> DEFINE size == hdr'[curr].size
           waste == size - s
           p == curr + 24
<1>7. waste \in {0, 8, 16, 24, 32} /\ size <= hdr[curr].size /\ size \in Nat /\ s + waste = size
  <2>1. hdr'[curr].size - s \in {0, 8, 16, 24, 32} /\ hdr'[curr].size <= hdr[curr].size
    BY <1>0, <1>1, <1>2, <1>3, <1>4, TakeWastes
  <2>2. size \in Nat
    BY <1>0, <1>6, ShapeFacts
  <2> QED
    BY <1>2, <2>1, <2>2
<1> HIDE DEF size, waste
<1>8. curr \in Contract!Offsets
  <2>1. curr % 8 = 0 /\ curr <= HeapSize
    BY <1>0, <1>1, ShapeFacts, HeapAssumption DEF Even8
  <2>2. curr \div 8 \in 0 .. HeapSize \div 8 /\ curr = 8 * (curr \div 8)
    BY <1>3, <2>1, HeapAssumption
  <2> QED
    BY <2>2 DEF Contract!Offsets
<1>9. Contract!Vacant(curr, p + size)
  <2>1. p + size <= Ends(hdr, curr) /\ Ends(hdr, curr) \in Nat /\ p + size \in Nat
    BY <1>3, <1>7 DEF Ends, BLOCK_SIZE
  <2>2. Ends(hdr, curr) <= HeapSize
    BY <1>0, <1>1, ShapeFacts, HeapAssumption DEF Tiled
  <2>3. ASSUME NEW q \in DOMAIN Regions
        PROVE  p + size <= q - 24 \/ q + Regions[q] <= curr
    <3> DEFINE a == q - 24
    <3>1. q \in Nat /\ a \in DOMAIN hdr /\ ~hdr[a].free
      BY <1>1, RegionsAre
    <3>2. q = a + 24
      BY <3>1
    <3> HIDE DEF a
    <3>3. Regions[q] = hdr[a].size /\ q + Regions[q] = Ends(hdr, a)
      BY <1>1, <3>1, <3>2, RegionsAre
    <3>4. a # curr /\ a \in Nat
      BY <1>1, <1>3, <3>1, ShapeFacts
    <3>5. CASE a < curr
      BY <1>0, <1>1, <3>1, <3>3, <3>5 DEF Tiled
    <3>6. CASE curr < a
      <4>1. Ends(hdr, curr) <= a
        BY <1>0, <1>1, <3>1, <3>6 DEF Tiled
      <4> QED
        BY <2>1, <3>2, <3>4, <4>1
    <3> QED
      BY <1>3, <3>4, <3>5, <3>6
  <2>4. p + size <= HeapSize
    BY <2>1, <2>2, HeapAssumption
  <2> QED
    BY <2>3, <2>4 DEF Contract!Vacant, Contract!BLOCK_SIZE
<1>10. Regions' = [q \in DOMAIN Regions \cup {p} |-> IF q = p THEN size ELSE Regions[q]]
  <2>1. Used' = Used \cup {curr}
    BY <1>0, <1>3, <1>6 DEF Used, Blocks
  <2>2. {b + BLOCK_SIZE : b \in Used'} = DOMAIN Regions \cup {p}
    BY <2>1 DEF Regions, BLOCK_SIZE
  <2>3. ASSUME NEW q \in DOMAIN Regions \cup {p}
        PROVE  hdr'[q - BLOCK_SIZE].size = IF q = p THEN size ELSE Regions[q]
    <3>1. CASE q = p
      <4>1. q - BLOCK_SIZE = curr
        BY <1>3, <3>1 DEF BLOCK_SIZE
      <4> QED
        BY <3>1, <4>1 DEF size
    <3>2. CASE q # p
      <4>1. q \in DOMAIN Regions /\ q \in Nat /\ q - 24 \in DOMAIN hdr
        BY <1>1, <3>2, RegionsAre
      <4>2. q - 24 # curr
        BY <1>3, <3>2, <4>1
      <4>3. Regions[q] = hdr[q - BLOCK_SIZE].size
        BY <4>1 DEF Regions
      <4> QED
        BY <1>6, <3>2, <4>1, <4>2, <4>3 DEF BLOCK_SIZE
    <3> QED
      BY <3>1, <3>2
  <2>4. Regions' = [q \in {b + BLOCK_SIZE : b \in Used'} |-> hdr'[q - BLOCK_SIZE].size]
    BY DEF Regions
  <2> QED
    BY <2>2, <2>3, <2>4
<1>11. Asked = call.n /\ Asked' = 0
  BY <1>0, <1>5 DEF Asked
<1>12. p = curr + Contract!BLOCK_SIZE
  BY DEF Contract!BLOCK_SIZE
<1> HIDE DEF p
<1> QED
  BY <1>0, <1>2, <1>7, <1>8, <1>9, <1>10, <1>11, <1>12 DEF Contract!Grant

\* A call of malloc asks, whether or not it is the first and makes the arena.
LEMMA EnterMallocAsks ==
  ASSUME RInv, pc = "idle", NEW n \in Nat, NEW old, EnterMalloc(n, old), IInv'
  PROVE  Contract!Ask(n)
<1>1. n # 0 /\ call' = [n |-> n, old |-> old] /\ pc' = "walk" /\ errno' = errno
  BY DEF EnterMalloc
<1>2. Asked = 0 /\ Asked' = n
  BY <1>1 DEF Asked
<1>3. Regions' = Regions
  <2>1. CASE heap_init
    <3>1. hdr' = hdr
      BY <2>1 DEF EnterMalloc
    <3> QED
      BY <3>1 DEF Regions, Used, Blocks
  <2>2. CASE ~heap_init
    <3>1. hdr' = [a \in {0} |-> InitialBlock]
      BY <2>2 DEF EnterMalloc
    <3>2. DOMAIN hdr' = {0} /\ hdr'[0].free
      BY <3>1 DEF InitialBlock
    <3>3. DOMAIN hdr = {}
      BY <2>2 DEF RInv, IInv, ListOK
    <3>4. Shape(hdr) /\ Shape(hdr')
      BY DEF RInv, IInv, ListOK
    <3> QED
      BY <3>2, <3>3, <3>4, SameRegions
  <2> QED
    BY <2>1, <2>2
<1> QED
  BY <1>1, <1>2, <1>3 DEF Contract!Ask

\* A call of free releases.
LEMMA EnterFreeReleases ==
  ASSUME RInv, pc = "idle" \/ pc = "copy", NEW p \in DOMAIN live, EnterFree(p), IInv'
  PROVE  p \in DOMAIN Regions /\ Contract!Release(p)
<1> DEFINE b == p - BLOCK_SIZE
<1>0. p \in Nat /\ Region(hdr, p, live[p]) /\ Shape(hdr) /\ Shape(hdr')
  BY DEF RInv, IInv, OwnOK, ListOK
<1>1. b \in DOMAIN hdr /\ ~hdr[b].free /\ b \in Nat /\ p = b + 24
  BY <1>0, ShapeFacts DEF Region, BLOCK_SIZE
<1>2. hdr' = [hdr EXCEPT ![b].free = TRUE] /\ pc' = "merge" /\ errno' = errno
  BY DEF EnterFree
<1> HIDE DEF b
<1>3. DOMAIN hdr' = DOMAIN hdr /\ (\A a \in DOMAIN hdr : a # b => hdr'[a] = hdr[a]) /\ hdr'[b].free
  <2>1. hdr[b] \in [size : Nat, free : BOOLEAN, next : DOMAIN hdr \cup {Null}]
    BY <1>0, <1>1, ShapeFacts
  <2> QED
    BY <1>1, <1>2, <2>1
<1>4. Used' = Used \ {b}
  BY <1>1, <1>3 DEF Used, Blocks
<1>5. DOMAIN Regions = {a + BLOCK_SIZE : a \in Used} /\ p \in DOMAIN Regions
  BY <1>0, <1>1, RegionsAre DEF Regions
<1>6. {a + BLOCK_SIZE : a \in Used'} = DOMAIN Regions \ {p}
  <2>1. \A a \in Used : a \in Nat
    BY <1>0, ShapeFacts DEF Used, Blocks
  <2>2. \A a \in Used : a + BLOCK_SIZE = p <=> a = b
    BY <1>1, <2>1 DEF BLOCK_SIZE
  <2> QED
    BY <1>4, <1>5, <2>2
<1>7. ASSUME NEW q \in DOMAIN Regions \ {p}
      PROVE  hdr'[q - BLOCK_SIZE].size = Regions[q]
  <2>1. q \in Nat /\ q - 24 \in DOMAIN hdr
    BY <1>0, RegionsAre
  <2>2. q - 24 # b
    BY <1>1, <2>1
  <2>3. Regions[q] = hdr[q - BLOCK_SIZE].size
    BY DEF Regions
  <2> QED
    BY <1>3, <2>1, <2>2, <2>3 DEF BLOCK_SIZE
<1>8. Regions' = [q \in DOMAIN Regions \ {p} |-> Regions[q]]
  <2>1. Regions' = [q \in {a + BLOCK_SIZE : a \in Used'} |-> hdr'[q - BLOCK_SIZE].size]
    BY DEF Regions
  <2> QED
    BY <1>6, <1>7, <2>1
<1>9. Asked = 0 /\ Asked' = 0
  BY <1>2 DEF Asked
<1> QED
  BY <1>2, <1>5, <1>8, <1>9 DEF Contract!Release

\* Merging two free blocks is nothing the program can see.
LEMMA MergeIsSilent ==
  ASSUME RInv, MergeStep, IInv'
  PROVE  UNCHANGED Contract!vars
<1>1. pc = "merge" /\ pc' = "merge" /\ errno' = errno /\ curr \in DOMAIN hdr
  BY DEF MergeStep, RInv, IInv, CallOK
<1>2. Asked' = Asked
  BY <1>1 DEF Asked
<1>3. Regions' = Regions
  <2>1. CASE ~Mergeable(curr)
    BY <2>1 DEF MergeStep, Regions, Used, Blocks
  <2>2. CASE Mergeable(curr)
    <3>1. PICK c : c = hdr[curr].next
      OBVIOUS
    <3>2. hdr' = Absorb(hdr, curr) /\ hdr[curr].free /\ hdr[c].free /\ c # Null
      BY <2>2, <3>1 DEF MergeStep, Mergeable
    <3>3. Shape(hdr) /\ Tiled(hdr) /\ Even8(hdr)
      BY <1>1 DEF RInv, IInv, ListOK
    <3>4. /\ Shape(hdr') /\ DOMAIN hdr' = DOMAIN hdr \ {c}
          /\ \A a \in DOMAIN hdr : a # curr /\ a # c => hdr'[a] = hdr[a]
          /\ Unused(hdr, curr) => Unused(hdr', curr)
      BY <1>1, <3>1, <3>2, <3>3, AbsorbKeepsTheList
    <3>5. hdr'[curr].free
      BY <3>2, <3>4 DEF Unused
    <3>6. \A b \in DOMAIN hdr : ~hdr[b].free =>
            b \in DOMAIN hdr' /\ ~hdr'[b].free /\ hdr'[b].size = hdr[b].size
      BY <3>2, <3>4
    <3>7. \A b \in DOMAIN hdr' : ~hdr'[b].free => b \in DOMAIN hdr /\ ~hdr[b].free
      BY <3>4, <3>5
    <3> QED
      BY <3>3, <3>4, <3>6, <3>7, SameRegions
  <2> QED
    BY <2>1, <2>2
<1> QED
  BY <1>1, <1>2, <1>3 DEF Contract!vars

\* Every step of the allocator is a step of the contract or no step of it.
LEMMA NextImplements ==
  ASSUME NoWrap, RInv, [Next]_vars, IInv'
  PROVE  Contract!Next \/ UNCHANGED Contract!vars
<1> USE DEF Contract!ENOMEM
<1>1. CASE Malloc
  <2>1. PICK n \in Requests : EnterMalloc(n, Null)
    BY <1>1 DEF Malloc
  <2>2. pc = "idle" /\ n \in Nat /\ n \in Sizes
    BY <1>1, RequestsFit DEF Malloc, Sizes
  <2>3. Contract!Ask(n)
    BY <2>1, <2>2, EnterMallocAsks
  <2> QED
    BY <2>2, <2>3 DEF Contract!Next
<1>2. CASE Free
  BY <1>2, EnterFreeReleases DEF Free, Contract!Next
<1>3. CASE Calloc
  <2>1. PICK c \in Counts \ {0}, s \in Requests \ {0} :
          IF c > SizeMax \div s THEN Fail ELSE EnterMalloc(c * s, Null)
    BY <1>3 DEF Calloc
  <2>2. /\ pc = "idle" /\ c \in Nat /\ s \in Nat /\ s > 0 /\ SizeMax \in Nat
        /\ c * s \in Nat /\ c * s \in Sizes
    <3>1. c \in Nat /\ s \in Nat /\ s > 0 /\ SizeMax \in Nat
      BY HeapAssumption
    <3>2. c * s \in Nat
      BY <3>1
    <3> QED
      BY <1>3, <3>1, <3>2 DEF Calloc, Sizes
  <2> DEFINE n == c * s
             q == SizeMax \div s
  <2>3. CASE c > q
    <3>1. Fail
      BY <2>1, <2>3
    <3>2. n > SizeMax
      <4>1. q \in Nat /\ c >= q + 1 /\ SizeMax < (q + 1) * s
        BY <2>2, <2>3
      <4> HIDE DEF q
      <4>2. (q + 1) * s <= c * s
        BY <2>2, <4>1
      <4>3. (q + 1) * s \in Int
        BY <2>2, <4>1
      <4> QED
        BY <2>2, <4>1, <4>2, <4>3
    <3>3. n \in Sizes
      BY <2>2
    <3> HIDE DEF n
    <3>4. errno' = ENOMEM /\ pc' = "idle" /\ hdr' = hdr
      BY <3>1 DEF Fail
    <3>5. Asked = 0 /\ Asked' = 0 /\ Regions' = Regions
      BY <2>2, <3>4 DEF Asked, Regions, Used, Blocks
    <3>6. Contract!RefuseUnsayable
      BY <3>2, <3>3, <3>4, <3>5 DEF Contract!RefuseUnsayable, ENOMEM
    <3> QED
      BY <3>6 DEF Contract!Next
  <2>4. CASE ~(c > q)
    <3>1. EnterMalloc(n, Null) /\ n \in Nat /\ n \in Sizes
      BY <2>1, <2>2, <2>4
    <3> HIDE DEF n
    <3>2. Contract!Ask(n)
      BY <2>2, <3>1, EnterMallocAsks
    <3> QED
      BY <3>1, <3>2 DEF Contract!Next
  <2> QED
    BY <2>3, <2>4
<1>4. CASE Realloc
  <2>1. PICK p \in DOMAIN live, n \in Requests :
          \/ n = 0 /\ EnterFree(p)
          \/ /\ n # 0 /\ hdr[p - BLOCK_SIZE].size >= n
             /\ live' = [live EXCEPT ![p] = n]
             /\ UNCHANGED <<heap_init, free_list, hdr, errno, pc, call, curr, got>>
          \/ hdr[p - BLOCK_SIZE].size < n /\ EnterMalloc(n, p)
    BY <1>4 DEF Realloc
  <2>2. pc = "idle" /\ n \in Nat /\ n \in Sizes
    BY <1>4, RequestsFit DEF Realloc, Sizes
  <2>3. CASE EnterFree(p)
    BY <2>2, <2>3, EnterFreeReleases DEF Contract!Next
  <2>4. CASE UNCHANGED <<hdr, errno, pc, call>>
    BY <2>4 DEF Contract!vars, Regions, Asked, Used, Blocks
  <2>5. CASE EnterMalloc(n, p)
    <3>1. Contract!Ask(n)
      BY <2>2, <2>5, EnterMallocAsks
    <3> QED
      BY <2>2, <3>1 DEF Contract!Next
  <2> QED
    BY <2>1, <2>3, <2>4, <2>5
<1>5. CASE ClearErrno
  <2>1. errno' = 0 /\ pc = "idle" /\ UNCHANGED <<hdr, pc>>
    BY <1>5 DEF ClearErrno
  <2>2. Asked = 0 /\ Asked' = 0 /\ Regions' = Regions
    BY <2>1 DEF Asked, Regions, Used, Blocks
  <2> QED
    BY <2>1, <2>2 DEF Contract!Next, Contract!ClearErrno
<1>6. CASE TakeBlock
  BY <1>6, TakeGrants DEF Contract!Next
<1>7. CASE WalkOn \/ UNCHANGED vars
  BY <1>7 DEF WalkOn, vars, Contract!vars, Regions, Asked, Used, Blocks
<1>8. CASE OutOfMemory
  <2>1. /\ pc = "walk" /\ curr = Null /\ errno' = ENOMEM /\ pc' = "idle" /\ hdr' = hdr
        /\ call.n # 0
    BY <1>8 DEF OutOfMemory, Fail, RInv, WalkOK
  <2>2. Asked = call.n /\ Asked' = 0 /\ Regions' = Regions
    BY <2>1 DEF Asked, Regions, Used, Blocks
  <2>3. ~Contract!Room(Asked)
    BY <2>1, <2>2, RefusedForWantOfRoom
  <2>4. Contract!Refuse
    BY <2>1, <2>2, <2>3 DEF Contract!Refuse, ENOMEM
  <2> QED
    BY <2>4 DEF Contract!Next
<1>9. CASE CopyAndFree
  <2>1. pc = "copy" /\ EnterFree(call.old) /\ call.old \in DOMAIN live
    BY <1>9 DEF CopyAndFree, RInv, IInv, CallOK
  <2> QED
    BY <2>1, EnterFreeReleases DEF Contract!Next
<1>10. CASE MergeStep
  BY <1>10, MergeIsSilent
<1>11. CASE MergeEnd
  BY <1>11 DEF MergeEnd, Contract!vars, Regions, Asked, Used, Blocks
<1> QED
  BY <1>1, <1>2, <1>3, <1>4, <1>5, <1>6, <1>7, <1>8, <1>9, <1>10, <1>11
     DEF Next, Library

\* The allocator implements its contract: it grants a request wherever there is
\* room and at the cost of less than a block, and refuses one only when no gap
\* between the regions the program holds has room for it. Splitting and merging
\* never cost the program a request.
THEOREM ImplementsContractHolds == NoWrap => (Spec => ImplementsContract)
<1> SUFFICES ASSUME NoWrap PROVE Spec => ImplementsContract
  OBVIOUS
<1>1. Init => Contract!Init
  <2> SUFFICES ASSUME Init PROVE Contract!Init
    OBVIOUS
  <2>1. DOMAIN hdr = {} /\ pc = "idle" /\ errno = 0
    BY DEF Init
  <2>2. Used = {} /\ Asked = 0
    BY <2>1 DEF Used, Blocks, Asked
  <2>3. Regions = [p \in {} |-> 0]
    BY <2>2 DEF Regions
  <2> QED
    BY <2>1, <2>2, <2>3 DEF Contract!Init
<1>2. RInv /\ RInv' /\ [Next]_vars => [Contract!Next]_(Contract!vars)
  BY NextImplements DEF RInv
<1>3. Spec => []RInv
  BY Seen
<1> QED
  BY <1>1, <1>2, <1>3, PTL DEF Spec, ImplementsContract, Contract!Spec

-----------------------------------------------------------------------------
(* fopen and fclose over the allocator.  The inductive invariant: that of  *)
(* the allocator, where a call of the stream layer is when the allocator   *)
(* is at pc, and who owns which block.                                     *)

PlaceOK ==
  /\ at \in {"idle", "open", "malloc", "undo", "closed", "free"}
  /\ got = Null /\ call.old = Null /\ pc # "copy"
  /\ at \in {"open", "undo", "closed"} => pc = "idle"
  /\ at = "malloc" => pc = "walk" /\ call.n = FileSize
  /\ at = "free" => pc = "merge"

\* fclose has taken the stream from the program and not yet freed its block.
Closing == IF at = "closed" THEN {held} ELSE {}

OwnersOK ==
  /\ stdin \in DOMAIN files
  /\ DOMAIN live = Own \cup mine \cup Closing
  /\ Own \cap mine = {} /\ Closing \cap (Own \cup mine) = {}
  /\ \A f \in Own : live[f] = FileSize

FInv == IInv /\ PlaceOK /\ OwnersOK

-----------------------------------------------------------------------------
(* What single steps do to the blocks in use.                              *)

\* A step that leaves the state of the allocator alone keeps its invariant.
LEMMA RestKeeps == ASSUME IInv, HeapRests PROVE IInv'
BY ErrnoInv DEF HeapRests

\* The block malloc takes was nobody's and lies in the arena.
LEMMA TakeFresh ==
  ASSUME IInv, TakeBlock
  PROVE  /\ curr + BLOCK_SIZE \in 1 .. HeapSize
         /\ curr + BLOCK_SIZE \notin DOMAIN live
<1>1. curr \in DOMAIN hdr /\ hdr[curr].free /\ Shape(hdr)
  BY DEF TakeBlock, Fits, IInv, CallOK, ListOK
<1>2. curr \in Nat /\ curr <= HeapSize - 24
  BY <1>1, ShapeFacts
<1>3. (curr + BLOCK_SIZE) - BLOCK_SIZE = curr /\ curr + BLOCK_SIZE \in 1 .. HeapSize
  BY <1>2, HeapAssumption DEF BLOCK_SIZE
<1> QED
  BY <1>1, <1>3 DEF IInv, OwnOK, Region

\* It becomes the program's with the size asked for, and the call is over.
LEMMA TakeGives ==
  ASSUME IInv, PlaceOK, TakeBlock
  PROVE  /\ DOMAIN live' = DOMAIN live \cup {curr + BLOCK_SIZE}
         /\ live'[curr + BLOCK_SIZE] = call.n
         /\ \A p \in DOMAIN live : live'[p] = live[p]
         /\ pc' = "idle" /\ call' = NoCall /\ got' = got /\ errno' = errno
<1> DEFINE p == curr + BLOCK_SIZE
<1>1. p \notin DOMAIN live
  BY TakeFresh
<1>2. live' = Put(live, p, call.n) /\ pc' = "idle" /\ call' = NoCall /\ got' = got
      /\ errno' = errno
  BY DEF TakeBlock, PlaceOK
<1> HIDE DEF p
<1>3. DOMAIN live' = DOMAIN live \cup {p} /\ live'[p] = call.n
      /\ \A q \in DOMAIN live : live'[q] = live[q]
  BY <1>1, <1>2 DEF Put
<1> QED
  BY <1>2, <1>3 DEF p

\* free takes one pointer from what is in use.
LEMMA FreeTakes ==
  ASSUME NEW p, EnterFree(p)
  PROVE  /\ DOMAIN live' = DOMAIN live \ {p}
         /\ \A q \in DOMAIN live' : live'[q] = live[q]
         /\ pc' = "merge" /\ call' = call /\ got' = got /\ errno' = errno
BY DEF EnterFree, Drop

\* The loops of malloc and free take and give nothing.
LEMMA LoopsKeep ==
  ASSUME IInv, PlaceOK, WalkOn \/ MergeStep \/ MergeEnd
  PROVE  /\ IInv' /\ live' = live /\ got' = Null /\ call'.old = Null
         /\ WalkOn => pc = "walk" /\ pc' = "walk" /\ call' = call
         /\ MergeStep => pc = "merge" /\ pc' = "merge"
         /\ MergeEnd => pc = "merge" /\ pc' = "idle"
         /\ errno' = errno
<1>1. IInv'
  BY WalkOnInv, MergeStepInv, MergeEndInv
<1>2. live' = live /\ got' = Null /\ call'.old = Null /\ errno' = errno
  BY DEF PlaceOK, WalkOn, MergeStep, MergeEnd, NoCall
<1>3. /\ WalkOn => pc = "walk" /\ pc' = "walk" /\ call' = call
      /\ MergeStep => pc = "merge" /\ pc' = "merge"
      /\ MergeEnd => pc = "merge" /\ pc' = "idle"
  BY DEF WalkOn, MergeStep, MergeEnd
<1> QED
  BY <1>1, <1>2, <1>3

-----------------------------------------------------------------------------
(* Every step preserves the invariant.                                     *)

\* At first there are no blocks and nobody owns one.
LEMMA FInit == InitAll => FInv
<1> SUFFICES ASSUME InitAll PROVE FInv
  OBVIOUS
<1>1. IInv
  BY InitInv DEF InitAll
<1>2. PlaceOK
  BY DEF InitAll, Init, PlaceOK, NoCall
<1>3. DOMAIN files = {stdin} /\ mine = {} /\ at = "idle" /\ DOMAIN live = {}
  BY DEF InitAll, Init
<1>4. OwnersOK
  BY <1>3 DEF OwnersOK, Own, Closing
<1> QED
  BY <1>1, <1>2, <1>4 DEF FInv

\* fopen before malloc leaves the arena alone,
LEMMA FopenOpenInv == ASSUME FInv, FopenOpen PROVE FInv'
<1>1. IInv'
  BY RestKeeps DEF FInv, FopenOpen
<1>2. /\ at = "idle" /\ at' \in {"idle", "open"} /\ pc = "idle"
      /\ UNCHANGED <<files, mine, live, pc, call, got>>
  BY DEF FopenOpen, AtRest, HeapRests, Return
<1>3. PlaceOK'
  BY <1>2 DEF FInv, PlaceOK
<1>4. OwnersOK'
  BY <1>2 DEF FInv, OwnersOK, Own, Closing
<1> QED
  BY <1>1, <1>3, <1>4 DEF FInv

\* then asks it for a FILE,
LEMMA FopenMallocInv == ASSUME FInv, FopenMalloc PROVE FInv'
<1>1. at = "open" /\ at' = "malloc" /\ pc = "idle" /\ EnterMalloc(FileSize, Null)
      /\ UNCHANGED <<files, mine>>
  BY DEF FopenMalloc, FInv, PlaceOK
<1>2. FileSize \in Nat /\ FileSize <= SizeMax - 15
  BY FilesHeapAssumption, HeapAssumption
<1>3. IInv'
  BY <1>1, <1>2, EnterMallocInv DEF FInv
<1>4. live' = live /\ got' = got /\ pc' = "walk" /\ call'.n = FileSize /\ call'.old = Null
  BY <1>1 DEF EnterMalloc
<1>5. PlaceOK'
  BY <1>1, <1>4 DEF FInv, PlaceOK
<1>6. OwnersOK'
  BY <1>1, <1>4 DEF FInv, OwnersOK, Own, Closing
<1> QED
  BY <1>3, <1>5, <1>6 DEF FInv

\* which the block it gets becomes,
LEMMA FopenDoneInv == ASSUME FInv, FopenDone PROVE FInv'
<1> DEFINE p == curr + BLOCK_SIZE
<1>0. /\ at = "malloc" /\ at' = "idle" /\ TakeBlock /\ mine' = mine
      /\ files' = Put(files, p, S!Fresh(held))
      /\ call.n = FileSize /\ IInv /\ PlaceOK /\ OwnersOK
  BY DEF FopenDone, Return, FInv, PlaceOK
<1>1. IInv'
  BY <1>0, TakeBlockInv
<1>2. p \in 1 .. HeapSize /\ p \notin DOMAIN live
  BY <1>0, TakeFresh
<1>3. /\ DOMAIN live' = DOMAIN live \cup {p} /\ live'[p] = FileSize
      /\ \A q \in DOMAIN live : live'[q] = live[q]
      /\ pc' = "idle" /\ call' = NoCall /\ got' = got
  BY <1>0, TakeGives
<1> HIDE DEF p
<1>4. p # stdin /\ p \in Int
  BY <1>2 DEF stdin
<1>5. DOMAIN files' = DOMAIN files \cup {p}
  BY <1>0 DEF Put
<1>6. Own' = Own \cup {p}
  BY <1>4, <1>5 DEF Own
<1>7. PlaceOK'
  BY <1>0, <1>3 DEF PlaceOK, NoCall
<1>8. OwnersOK'
  <2>1. Closing = {} /\ Closing' = {}
    BY <1>0 DEF Closing
  <2>2. DOMAIN live = Own \cup mine /\ Own \cap mine = {} /\ stdin \in DOMAIN files
        /\ \A f \in Own : live[f] = FileSize
    BY <1>0, <2>1 DEF OwnersOK
  <2>3. \A f \in Own' : live'[f] = FileSize
    BY <1>3, <1>6, <2>2
  <2> QED
    BY <1>0, <1>2, <1>3, <1>5, <1>6, <2>1, <2>2, <2>3 DEF OwnersOK
<1> QED
  BY <1>1, <1>7, <1>8 DEF FInv

\* or gets none and owns nothing,
LEMMA FopenNoMemoryInv == ASSUME FInv, FopenNoMemory PROVE FInv'
<1>1. /\ at = "malloc" /\ at' = "undo" /\ pc = "walk" /\ curr = Null /\ Fail
      /\ UNCHANGED <<files, mine>>
  BY DEF FopenNoMemory, OutOfMemory
<1>2. IInv'
  BY <1>1, FailInv DEF FInv
<1>3. live' = live /\ got' = got /\ pc' = "idle" /\ call' = NoCall
  BY <1>1 DEF Fail
<1>4. PlaceOK'
  BY <1>1, <1>3 DEF FInv, PlaceOK, NoCall
<1>5. OwnersOK'
  BY <1>1, <1>3 DEF FInv, OwnersOK, Own, Closing
<1> QED
  BY <1>2, <1>4, <1>5 DEF FInv

\* and closes what it opened.
LEMMA FopenUndoInv == ASSUME FInv, FopenUndo PROVE FInv'
<1>1. IInv'
  BY RestKeeps DEF FInv, FopenUndo
<1>2. /\ at = "undo" /\ at' = "idle"
      /\ UNCHANGED <<files, mine, live, pc, call, got>>
  BY DEF FopenUndo, HeapRests, Return
<1>3. PlaceOK'
  BY <1>2 DEF FInv, PlaceOK
<1>4. OwnersOK'
  BY <1>2 DEF FInv, OwnersOK, Own, Closing
<1> QED
  BY <1>1, <1>3, <1>4 DEF FInv

\* fclose takes the stream from the program,
LEMMA FcloseCloseInv == ASSUME FInv, FcloseClose PROVE FInv'
<1>1. IInv'
  BY RestKeeps DEF FInv, FcloseClose
<1>2. /\ at = "idle" /\ pc = "idle" /\ UNCHANGED <<mine, live, pc, call, got>>
  BY DEF FcloseClose, AtRest, HeapRests
<1>3. PICK f \in DOMAIN files :
        \/ at' = "idle" /\ files' = files
        \/ f # stdin /\ files' = Drop(files, f) /\ at' = "closed" /\ held' = f
  BY DEF FcloseClose, Return
<1>4. PlaceOK'
  BY <1>2, <1>3 DEF FInv, PlaceOK
<1>5. OwnersOK'
  <2>1. CASE at' = "idle" /\ files' = files
    BY <1>2, <2>1 DEF FInv, OwnersOK, Own, Closing
  <2>2. CASE f # stdin /\ files' = Drop(files, f) /\ at' = "closed" /\ held' = f
    <3>1. DOMAIN files' = DOMAIN files \ {f}
      BY <2>2 DEF Drop
    <3>2. Own' = Own \ {f} /\ f \in Own /\ stdin \in DOMAIN files'
      BY <2>2, <3>1 DEF Own, FInv, OwnersOK
    <3>3. Closing = {} /\ Closing' = {f}
      BY <1>2, <2>2 DEF Closing
    <3> QED
      BY <1>2, <3>2, <3>3 DEF FInv, OwnersOK
  <2> QED
    BY <1>3, <2>1, <2>2
<1> QED
  BY <1>1, <1>4, <1>5 DEF FInv

\* gives its block back, which nobody else had,
LEMMA FcloseFreeInv == ASSUME FInv, FcloseFree PROVE FInv'
<1>1. /\ at = "closed" /\ at' = "free" /\ EnterFree(held) /\ pc = "idle"
      /\ UNCHANGED <<files, mine>> /\ held \in DOMAIN live
  BY DEF FcloseFree, FInv, PlaceOK, OwnersOK, Closing
<1>2. IInv'
  BY <1>1, EnterFreeInv DEF FInv
<1>3. /\ DOMAIN live' = DOMAIN live \ {held} /\ (\A q \in DOMAIN live' : live'[q] = live[q])
      /\ pc' = "merge" /\ call' = call /\ got' = got
  BY <1>1, FreeTakes
<1>4. PlaceOK'
  BY <1>1, <1>3 DEF FInv, PlaceOK
<1>5. OwnersOK'
  <2>1. Closing = {held} /\ Closing' = {} /\ Own' = Own
    BY <1>1 DEF Closing, Own
  <2> QED
    BY <1>1, <1>3, <2>1 DEF FInv, OwnersOK
<1> QED
  BY <1>2, <1>4, <1>5 DEF FInv

\* and returns at the end of the merge pass.
LEMMA FcloseDoneInv == ASSUME FInv, FcloseDone PROVE FInv'
<1>1. at = "free" /\ at' = "idle" /\ MergeEnd /\ UNCHANGED <<files, mine>>
  BY DEF FcloseDone
<1>2. IInv' /\ live' = live /\ got' = Null /\ call'.old = Null /\ pc' = "idle"
  BY <1>1, LoopsKeep DEF FInv
<1>3. PlaceOK'
  BY <1>1, <1>2 DEF PlaceOK
<1>4. OwnersOK'
  BY <1>1, <1>2 DEF FInv, OwnersOK, Own, Closing
<1> QED
  BY <1>2, <1>3, <1>4 DEF FInv

\* The program's malloc starts,
LEMMA ProgramMallocInv == ASSUME NoWrap, FInv, ProgramMalloc PROVE FInv'
<1>1. PICK n \in Requests : EnterMalloc(n, Null)
  BY DEF ProgramMalloc, Malloc
<1>2. n \in Nat /\ n <= SizeMax - 15
  BY RequestsFit
<1>3. at = "idle" /\ pc = "idle" /\ UNCHANGED fileVars
  BY DEF ProgramMalloc, AtRest
<1>4. IInv'
  BY <1>1, <1>2, <1>3, EnterMallocInv DEF FInv
<1>5. live' = live /\ got' = got /\ pc' = "walk" /\ call'.old = Null
  BY <1>1 DEF EnterMalloc
<1>6. PlaceOK'
  BY <1>3, <1>5 DEF FInv, PlaceOK, fileVars
<1>7. OwnersOK'
  BY <1>3, <1>5 DEF FInv, OwnersOK, Own, Closing, fileVars
<1> QED
  BY <1>4, <1>6, <1>7 DEF FInv

\* its free gives back a block of its own,
LEMMA ProgramFreeInv == ASSUME FInv, ProgramFree PROVE FInv'
<1>1. PICK p \in mine : EnterFree(p) /\ mine' = mine \ {p}
  BY DEF ProgramFree
<1>2. at = "idle" /\ pc = "idle" /\ UNCHANGED <<files, at, held>>
  BY DEF ProgramFree, AtRest
<1>3. p \in DOMAIN live
  BY DEF FInv, OwnersOK
<1>4. IInv'
  BY <1>1, <1>2, <1>3, EnterFreeInv DEF FInv
<1>5. /\ DOMAIN live' = DOMAIN live \ {p} /\ (\A q \in DOMAIN live' : live'[q] = live[q])
      /\ pc' = "merge" /\ call' = call /\ got' = got
  BY <1>1, FreeTakes
<1>6. PlaceOK'
  BY <1>2, <1>5 DEF FInv, PlaceOK
<1>7. OwnersOK'
  <2>1. Closing = {} /\ Closing' = {} /\ Own' = Own
    BY <1>2 DEF Closing, Own
  <2> QED
    BY <1>1, <1>2, <1>5, <2>1 DEF FInv, OwnersOK
<1> QED
  BY <1>4, <1>6, <1>7 DEF FInv

\* its malloc gets a block that was nobody's,
LEMMA ProgramGetsInv == ASSUME FInv, ProgramGets PROVE FInv'
<1> DEFINE p == curr + BLOCK_SIZE
<1>0. /\ at = "idle" /\ TakeBlock /\ mine' = mine \cup {p} /\ UNCHANGED <<files, at>>
      /\ IInv /\ PlaceOK /\ OwnersOK
  BY DEF ProgramGets, FInv
<1>1. IInv'
  BY <1>0, TakeBlockInv
<1>2. p \notin DOMAIN live
  BY <1>0, TakeFresh
<1>3. /\ DOMAIN live' = DOMAIN live \cup {p}
      /\ \A q \in DOMAIN live : live'[q] = live[q]
      /\ pc' = "idle" /\ call' = NoCall /\ got' = got
  BY <1>0, TakeGives
<1> HIDE DEF p
<1>4. PlaceOK'
  BY <1>0, <1>3 DEF PlaceOK, NoCall
<1>5. Closing = {} /\ Closing' = {} /\ Own' = Own
  BY <1>0 DEF Closing, Own
<1>6. OwnersOK'
  BY <1>0, <1>2, <1>3, <1>5 DEF OwnersOK
<1> QED
  BY <1>1, <1>4, <1>6 DEF FInv

\* or none.
LEMMA ProgramFailsInv == ASSUME FInv, ProgramFails PROVE FInv'
<1>1. /\ at = "idle" /\ pc = "walk" /\ curr = Null /\ Fail
      /\ UNCHANGED <<files, mine, at>>
  BY DEF ProgramFails, OutOfMemory
<1>2. IInv'
  BY <1>1, FailInv DEF FInv
<1>3. live' = live /\ got' = got /\ pc' = "idle" /\ call' = NoCall
  BY <1>1 DEF Fail
<1>4. PlaceOK'
  BY <1>1, <1>3 DEF FInv, PlaceOK, NoCall
<1>5. OwnersOK'
  BY <1>1, <1>3 DEF FInv, OwnersOK, Own, Closing
<1> QED
  BY <1>2, <1>4, <1>5 DEF FInv

\* The loops take and give nothing, whichever call they run for.
LEMMA LoopInv == ASSUME FInv, Loop PROVE FInv'
<1>1. /\ WalkOn \/ MergeStep \/ (at = "idle" /\ MergeEnd)
      /\ UNCHANGED <<files, mine, at, held>>
  BY DEF Loop, fileVars
<1>2. /\ IInv' /\ live' = live /\ got' = Null /\ call'.old = Null
      /\ WalkOn => pc = "walk" /\ pc' = "walk" /\ call' = call
      /\ MergeStep => pc = "merge" /\ pc' = "merge"
      /\ MergeEnd => pc' = "idle"
  BY <1>1, LoopsKeep DEF FInv
<1>3. PlaceOK'
  BY <1>1, <1>2 DEF FInv, PlaceOK
<1>4. OwnersOK'
  BY <1>1, <1>2 DEF FInv, OwnersOK, Own, Closing
<1> QED
  BY <1>2, <1>3, <1>4 DEF FInv

\* A stuttering step changes nothing.
LEMMA FStutterInv == ASSUME FInv, UNCHANGED allVars PROVE FInv'
<1>1. UNCHANGED vars /\ UNCHANGED fileVars
  BY DEF allVars
<1>2. IInv'
  BY <1>1, StutterInv DEF FInv
<1>3. PlaceOK' /\ OwnersOK'
  BY <1>1 DEF FInv, PlaceOK, OwnersOK, Own, Closing, vars, fileVars
<1> QED
  BY <1>2, <1>3 DEF FInv

\* So every step preserves the invariant,
LEMMA FNext == ASSUME NoWrap, FInv, [NextAll]_allVars PROVE FInv'
BY FopenOpenInv, FcloseCloseInv, ProgramMallocInv, ProgramFreeInv, FopenMallocInv,
   FopenDoneInv, FopenNoMemoryInv, FopenUndoInv, FcloseFreeInv, FcloseDoneInv,
   ProgramGetsInv, ProgramFailsInv, LoopInv, FStutterInv DEF NextAll, Running

\* and it holds in every state.
LEMMA FInvariance == NoWrap => (SpecAll => []FInv)
<1> SUFFICES ASSUME NoWrap PROVE SpecAll => []FInv
  OBVIOUS
<1>1. FInv /\ [NextAll]_allVars => FInv'
  BY FNext
<1> QED
  BY <1>1, FInit, PTL DEF SpecAll

-----------------------------------------------------------------------------
(* What follows.                                                           *)

\* Ownership and Capacity of the allocator give the accounts at rest.
LEMMA FInvAccounts == FInv => BlocksAccounted
<1> SUFFICES ASSUME FInv, pc = "idle", at = "idle"
             PROVE  /\ {b + BLOCK_SIZE : b \in Used} = Own \cup mine
                    /\ Own \cap mine = {}
                    /\ \A f \in Own : hdr[f - BLOCK_SIZE].size >= FileSize
  BY DEF BlocksAccounted, AtRest
<1>1. DOMAIN live = {b + BLOCK_SIZE : b \in Used}
  BY InvOwnership DEF FInv, Ownership
<1>2. DOMAIN live = Own \cup mine /\ Own \cap mine = {}
  BY DEF FInv, OwnersOK, Closing
<1>3. ASSUME NEW f \in Own PROVE hdr[f - BLOCK_SIZE].size >= FileSize
  <2>1. Region(hdr, f, live[f]) /\ live[f] = FileSize /\ Shape(hdr)
    BY <1>2 DEF FInv, IInv, OwnOK, OwnersOK, ListOK
  <2>2. FileSize \in Int /\ hdr[f - BLOCK_SIZE].size \in Int
    BY <2>1, ShapeFacts, FilesHeapAssumption DEF Region
  <2> QED
    BY <2>1, <2>2 DEF Region
<1> QED
  BY <1>1, <1>2, <1>3

\* At rest the blocks in use are those of the open FILEs and the program's own,
\* none of them both: whatever fails in fopen and fclose, no FILE is leaked and
\* none is freed twice.
THEOREM BlocksAccountedHolds == NoWrap => (SpecAll => []BlocksAccounted)
BY FInvariance, FInvAccounts, PTL

-----------------------------------------------------------------------------
(* Every step is one of Streams or, inside malloc and free, none.          *)

\* What Streams sees of the place: where fopen is, and of which descriptor.
SeenPc == CASE at \in {"open", "malloc"} -> "alloc" [] at = "undo" -> "undo"
            [] OTHER -> "idle"
SeenCall == IF at \in {"open", "malloc", "undo"} THEN Call(held) ELSE Call(0)

Owed == [f \in 1 .. HeapSize \cup {stdin} |-> <<>>]

\* No bytes are owed here.
LEMMA OwedIsClear == ASSUME NEW f PROVE [Owed EXCEPT ![f] = <<>>] = Owed
BY DEF Owed

\* The steps of the arena inside a call, and those of the program's own calls.
LEMMA SilentStutters ==
  ASSUME UNCHANGED <<files, fds, stuck, quiet, errno, last>>,
         SeenPc' = SeenPc, SeenCall' = SeenCall
  PROVE  UNCHANGED S!vars
BY DEF S!vars, SeenPc, SeenCall

\* A call is made of its six fields.
LEMMA CallIsItsFields ==
  ASSUME NEW A, NEW B, NEW C, NEW D, NEW E, NEW F,
         NEW r \in [stream : A, fd : B, size : C, s : D, text : E, cause : F]
  PROVE  r = [stream |-> r.stream, fd |-> r.fd, size |-> r.size, s |-> r.s,
              text |-> r.text, cause |-> r.cause]
OBVIOUS

\* The call fopen runs as, of the descriptor it opened.
LEMMA CallOfNone == ASSUME NEW fd PROVE Call(fd) = [S!NoCall EXCEPT !.fd = fd]
<1> DEFINE R == [stream : {stdin}, fd : {0, fd}, size : {0}, s : {<<>>}, text : {""}, cause : {0}]
<1>1. S!NoCall \in R /\ Call(fd) \in R
  BY DEF Call, S!NoCall
<1>2. PICK q : q = [S!NoCall EXCEPT !.fd = fd]
  OBVIOUS
<1>3. q \in R /\ q.fd = fd
  BY <1>1, <1>2
<1>4. Call(fd).fd = fd
  BY DEF Call
<1>5. \A r \in R : r.stream = stdin /\ r.size = 0 /\ r.s = <<>> /\ r.text = "" /\ r.cause = 0
  OBVIOUS
<1>6. \A r \in R : r = [stream |-> r.stream, fd |-> r.fd, size |-> r.size, s |-> r.s,
                        text |-> r.text, cause |-> r.cause]
  BY CallIsItsFields
<1> HIDE DEF R
<1> QED
  BY <1>1, <1>2, <1>3, <1>4, <1>5, <1>6

\* The steps of fopen and fclose are those of Streams: refused, failed, or opened,
LEMMA FopenOpenRefines == ASSUME FopenOpen PROVE S!FopenRefuse \/ S!FopenOpen
<1>1. at = "idle" /\ UNCHANGED <<files, stuck>>
  BY DEF FopenOpen, AtRest
<1>2. SeenPc = "idle" /\ SeenCall = Call(0)
  BY <1>1 DEF SeenPc, SeenCall
<1>3. CASE Return(S!Failed(0)) /\ UNCHANGED <<fds, errno, quiet>>
  <2>1. at' = "idle" /\ last' = S!Failed(0)
    BY <1>3 DEF Return
  <2>2. SeenPc' = "idle" /\ SeenCall' = S!NoCall
    BY <2>1 DEF SeenPc, SeenCall, Call, S!NoCall
  <2> QED
    BY <1>1, <1>2, <1>3, <2>1, <2>2 DEF S!FopenRefuse, S!Return, SeenPc, SeenCall
<1>4. CASE S!Syscall(-S!ENOENT) /\ Return(S!Failed(S!ENOENT)) /\ UNCHANGED fds
  <2>1. at' = "idle" /\ last' = S!Failed(S!ENOENT)
    BY <1>4 DEF Return
  <2>2. SeenPc' = "idle" /\ SeenCall' = S!NoCall
    BY <2>1 DEF SeenPc, SeenCall, Call, S!NoCall
  <2> QED
    BY <1>1, <1>2, <1>4, <2>1, <2>2 DEF S!FopenOpen, S!Return, SeenPc, SeenCall
<1>5. ASSUME NEW fd \in Fds \ fds,
             S!Syscall(fd) /\ fds' = fds \cup {fd}
             /\ at' = "open" /\ held' = fd /\ UNCHANGED last
      PROVE  S!FopenOpen
  <2>1. SeenPc' = "alloc" /\ SeenCall' = Call(fd)
    BY <1>5 DEF SeenPc, SeenCall, Call
  <2> QED
    BY <1>1, <1>2, <1>5, <2>1, CallOfNone DEF S!FopenOpen, SeenPc, SeenCall
<1> QED
  BY <1>3, <1>4, <1>5 DEF FopenOpen

\* the FILE at an address that holds none yet,
LEMMA FopenDoneRefines == ASSUME FInv, FopenDone PROVE S!FopenDone
<1> DEFINE p == curr + BLOCK_SIZE
<1>1. /\ at = "malloc" /\ at' = "idle" /\ TakeBlock /\ last' = S!Good
      /\ files' = Put(files, p, S!Fresh(held))
      /\ UNCHANGED <<fds, stuck, quiet>>
  BY DEF FopenDone, Return
<1>2. p \in 1 .. HeapSize /\ p \notin DOMAIN live /\ errno' = errno
  BY <1>1, TakeFresh, TakeGives DEF FInv
<1> HIDE DEF p
<1>3. p \in (1 .. HeapSize) \ DOMAIN files
  BY <1>2 DEF FInv, OwnersOK, Own, stdin
<1>4. SeenPc = "alloc" /\ SeenCall.fd = held
  BY <1>1 DEF SeenPc, SeenCall, Call
<1>5. SeenPc' = "idle" /\ SeenCall' = S!NoCall
  BY <1>1 DEF SeenPc, SeenCall, Call, S!NoCall
<1>6. files' = [g \in DOMAIN files \cup {p} |->
                  IF g = p THEN S!Fresh(SeenCall.fd) ELSE files[g]]
  BY <1>1, <1>4 DEF Put
<1>7. Owed' = [Owed EXCEPT ![p] = <<>>]
  <2>1. Owed' = Owed
    BY DEF Owed
  <2> QED
    BY <2>1, OwedIsClear
<1> QED
  BY <1>1, <1>2, <1>3, <1>4, <1>5, <1>6, <1>7 DEF S!FopenDone, S!Return, SeenPc, SeenCall, Owed

\* or no memory for one,
LEMMA FopenNoMemoryRefines == ASSUME FopenNoMemory PROVE S!FopenNoMemory
<1>1. /\ at = "malloc" /\ at' = "undo" /\ errno' = ENOMEM /\ quiet' = TRUE
      /\ UNCHANGED <<files, fds, stuck, held, last>>
  BY DEF FopenNoMemory, OutOfMemory, Fail
<1>2. SeenPc = "alloc" /\ SeenPc' = "undo" /\ SeenCall' = SeenCall
  BY <1>1 DEF SeenPc, SeenCall, Call
<1>3. errno' = S!ENOMEM
  BY <1>1 DEF ENOMEM, S!ENOMEM
<1> QED
  BY <1>1, <1>2, <1>3 DEF S!FopenNoMemory, SeenPc, SeenCall

\* and the descriptor closed again;
LEMMA FopenUndoRefines == ASSUME FopenUndo PROVE S!FopenUndo
<1>1. /\ at = "undo" /\ at' = "idle" /\ UNCHANGED files
      /\ \/ S!CloseFd(held, 0) /\ last' = S!Failed(S!ENOMEM)
         \/ S!CloseFd(held, -S!EIO) /\ last' = S!FailedTwice(S!ENOMEM, S!EIO)
  BY DEF FopenUndo, Return, ENOMEM, S!ENOMEM
<1>2. SeenPc = "undo" /\ SeenCall.fd = held
  BY <1>1 DEF SeenPc, SeenCall, Call
<1>3. SeenPc' = "idle" /\ SeenCall' = S!NoCall
  BY <1>1 DEF SeenPc, SeenCall, Call, S!NoCall
<1> QED
  BY <1>1, <1>2, <1>3 DEF S!FopenUndo, S!Return, SeenPc, SeenCall

\* the stream gone, whether close failed or not.
LEMMA FcloseCloseRefines == ASSUME FcloseClose PROVE S!Fclose
<1>1. at = "idle"
  BY DEF FcloseClose, AtRest
<1>2. PICK f \in DOMAIN files :
        \/ f = stdin /\ Return(S!Good) /\ UNCHANGED <<files, fds, stuck, errno, quiet>>
        \/ /\ f # stdin
           /\ \/ S!CloseFd(files[f].fd, 0) /\ last' = S!Good
              \/ S!CloseFd(files[f].fd, -S!EIO) /\ last' = S!Failed(S!EIO)
           /\ files' = Drop(files, f) /\ at' = "closed" /\ held' = f
  BY DEF FcloseClose
<1>3. at' \in {"idle", "closed"}
  BY <1>2 DEF Return
<1>4. SeenPc = "idle" /\ SeenPc' = "idle" /\ SeenCall' = S!NoCall
  BY <1>1, <1>3 DEF SeenPc, SeenCall, Call, S!NoCall
<1>5. CASE f = stdin /\ Return(S!Good) /\ UNCHANGED <<files, fds, stuck, errno, quiet>>
  BY <1>2, <1>4, <1>5 DEF S!Fclose, S!Return, Return, SeenPc, SeenCall
<1>6. CASE /\ f # stdin
           /\ \/ S!CloseFd(files[f].fd, 0) /\ last' = S!Good
              \/ S!CloseFd(files[f].fd, -S!EIO) /\ last' = S!Failed(S!EIO)
           /\ files' = Drop(files, f)
  <2>1. files' = [g \in DOMAIN files \ {f} |-> files[g]]
    BY <1>6 DEF Drop
  <2> QED
    BY <1>2, <1>4, <1>6, <2>1 DEF S!Fclose, S!Return, SeenPc, SeenCall
<1> QED
  BY <1>2, <1>5, <1>6

\* A malloc of the program's that fails sets errno between two stream calls.
LEMMA ProgramFailsRefines == ASSUME ProgramFails PROVE S!Elsewhere
<1>1. /\ at = "idle" /\ errno' = ENOMEM /\ quiet' = FALSE
      /\ UNCHANGED <<files, fds, stuck, at, held, last>>
  BY DEF ProgramFails, OutOfMemory, Fail
<1>2. SeenPc = "idle" /\ SeenPc' = SeenPc /\ SeenCall' = SeenCall
  BY <1>1 DEF SeenPc, SeenCall, Call
<1>3. errno' \in {0, S!ENOMEM, S!EBADF}
  BY <1>1 DEF ENOMEM, S!ENOMEM
<1> QED
  BY <1>1, <1>2, <1>3 DEF S!Elsewhere, SeenPc, SeenCall

\* All other steps are hidden from Streams, which has one for each answer only.
LEMMA InArena ==
  ASSUME FInv, FopenMalloc \/ FcloseFree \/ FcloseDone \/ ProgramMalloc \/ ProgramFree
                 \/ ProgramGets \/ Loop \/ UNCHANGED allVars
  PROVE  UNCHANGED S!vars
<1>1. UNCHANGED <<files, fds, stuck, quiet, last, held>>
      \/ (FcloseDone /\ UNCHANGED <<files, fds, stuck, quiet, last>>)
  BY DEF FopenMalloc, FcloseFree, ProgramMalloc, ProgramFree, ProgramGets, FcloseDone,
         Loop, allVars, fileVars
<1>2. errno' = errno
  <2>1. CASE FopenMalloc \/ FcloseFree \/ ProgramMalloc \/ ProgramFree \/ UNCHANGED allVars
    BY <2>1 DEF FopenMalloc, FcloseFree, ProgramMalloc, ProgramFree, Malloc, EnterMalloc,
                EnterFree, allVars, vars
  <2>2. CASE FcloseDone \/ ProgramGets \/ Loop
    BY <2>2 DEF FcloseDone, ProgramGets, Loop, TakeBlock, WalkOn, MergeStep, MergeEnd
  <2> QED
    BY <2>1, <2>2
<1>3. \/ at = "open" /\ at' = "malloc" /\ held' = held
      \/ at = "closed" /\ at' = "free"
      \/ at = "free" /\ at' = "idle"
      \/ at' = at /\ held' = held
  BY DEF FopenMalloc, FcloseFree, ProgramMalloc, ProgramFree, ProgramGets, FcloseDone,
         Loop, allVars, fileVars
<1>4. SeenPc' = SeenPc /\ SeenCall' = SeenCall
  BY <1>3 DEF SeenPc, SeenCall, Call
<1> QED
  BY <1>1, <1>2, <1>4, SilentStutters

\* So every step is a step or a stutter of Streams.
LEMMA NextRefines == ASSUME FInv, [NextAll]_allVars PROVE [S!Next]_(S!vars)
BY FopenOpenRefines, FopenDoneRefines, FopenNoMemoryRefines, FopenUndoRefines,
   FcloseCloseRefines, ProgramFailsRefines, InArena DEF NextAll, Running, S!Next

\* fopen and fclose over the allocator are those of Streams over any malloc:
\* what is shown of Streams is true of them.
THEOREM ImplementsStreamsHolds == NoWrap => (SpecAll => ImplementsStreams)
<1> SUFFICES ASSUME NoWrap PROVE SpecAll => ImplementsStreams
  OBVIOUS
<1>1. InitAll => S!Init
  BY DEF InitAll, Init, S!Init, S!NoCall, Call
<1>2. FInv /\ [NextAll]_allVars => [S!Next]_(S!vars)
  BY NextRefines
<1> QED
  BY <1>1, <1>2, FInvariance, PTL DEF SpecAll, ImplementsStreams, S!Spec
=============================================================================
