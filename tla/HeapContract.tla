---------------------------- MODULE HeapContract ----------------------------
(***************************************************************************)
(* What the allocator of sdk/src/stdlib.c promises, without the free list. *)
(* A program holds regions; a region is known by the pointer handed out    *)
(* and by its capacity, and a header lies in front of it.  The allocator   *)
(* may put a new region wherever there is room, wasting less than a block  *)
(* of BLOCK_SIZE + 16 bytes, and may refuse a request only when no gap     *)
(* between the held regions has room for it, however the gap came about.   *)
(***************************************************************************)
EXTENDS Integers

CONSTANTS HeapSize,   \* bytes of the arena
          SizeMax,    \* the largest size_t
          Sizes       \* byte counts the program may ask for

VARIABLES held,       \* pointer -> capacity of the region handed out there
          asked,      \* the request under way, 0 if there is none
          errno

vars == <<held, asked, errno>>

ENOMEM == 12
BLOCK_SIZE == 24
RoundUp16(n) == n + ((16 - (n % 16)) % 16)

\* The offsets a header may have: headers are 8-byte aligned.
Offsets == {8 * k : k \in 0 .. HeapSize \div 8}

\* The bytes from "from" up to "to" belong to the arena and to nobody.
Vacant(from, to) ==
  /\ to <= HeapSize
  /\ \A p \in DOMAIN held : to <= p - BLOCK_SIZE \/ p + held[p] <= from

Room(n) == \E b \in Offsets : Vacant(b, b + BLOCK_SIZE + RoundUp16(n))

Init == held = [p \in {} |-> 0] /\ asked = 0 /\ errno = 0

Ask(n) == asked = 0 /\ n # 0 /\ asked' = n /\ UNCHANGED <<held, errno>>

\* The request is granted: the region is vacant before, and what it wastes
\* is too little to make a block of its own.
Grant ==
  /\ asked # 0 /\ asked' = 0
  /\ \E b \in Offsets, waste \in {0, 8, 16, 24, 32} :
       LET p   == b + BLOCK_SIZE
           cap == RoundUp16(asked) + waste
       IN  /\ Vacant(b, p + cap)
           /\ held' = [q \in DOMAIN held \cup {p} |->
                         IF q = p THEN cap ELSE held[q]]
  /\ UNCHANGED errno

\* The request is refused for want of room, and only for that.
Refuse ==
  /\ asked # 0 /\ asked' = 0
  /\ ~Room(asked) /\ errno' = ENOMEM
  /\ UNCHANGED held

\* A request larger than a size_t can say is refused out of hand.
RefuseUnsayable ==
  /\ asked = 0 /\ \E n \in Sizes : n > SizeMax
  /\ errno' = ENOMEM
  /\ UNCHANGED <<held, asked>>

Release(p) ==
  /\ asked = 0
  /\ held' = [q \in DOMAIN held \ {p} |-> held[q]]
  /\ UNCHANGED <<asked, errno>>

ClearErrno == asked = 0 /\ errno' = 0 /\ UNCHANGED <<held, asked>>

Next ==
  \/ \E n \in Sizes : Ask(n)
  \/ Grant \/ Refuse \/ RefuseUnsayable
  \/ \E p \in DOMAIN held : Release(p)
  \/ ClearErrno

Spec == Init /\ [][Next]_vars

=============================================================================
