-------------------------------- MODULE Heap --------------------------------
(***************************************************************************)
(* The free-list allocator of sdk/src/stdlib.c: malloc, free, calloc and   *)
(* realloc over one static arena.  The list runs through headers that lie  *)
(* in the arena itself; the two loops over it (the first-fit walk of       *)
(* malloc and the merge pass of free) are modelled one iteration a step.   *)
(*                                                                         *)
(* A pointer is its offset from the first byte of heap[]; NULL is Null.    *)
(***************************************************************************)
EXTENDS Integers

CONSTANTS HeapSize,   \* HEAP_SIZE
          SizeMax,    \* (size_t)-1
          Requests,   \* byte counts the program passes
          Counts      \* values of nmemb the program passes to calloc

ASSUME HeapAssumption ==
  /\ HeapSize \in Nat /\ HeapSize > 24 /\ HeapSize % 8 = 0
  /\ SizeMax \in Nat /\ HeapSize <= SizeMax
  /\ Requests \subseteq 0 .. SizeMax
  /\ Counts \subseteq 0 .. SizeMax

VARIABLES
  heap_init, free_list,   \* the statics of the same names
  hdr,    \* header address -> [size, free, next], the headers on the list
  errno,
  pc,     \* where the running call is: "idle", "walk", "copy" or "merge"
  call,   \* its activation record: n bytes wanted, old pointer of realloc
  curr,   \* the loop variable of the walk and of the merge pass
  got,    \* the pointer it will return
  live    \* what the program owns: pointer -> bytes it asked for

vars == <<heap_init, free_list, hdr, errno, pc, call, curr, got, live>>

Null == -1
ENOMEM == 12
BLOCK_SIZE == 24

\* Faulty variants, named Bug..., stand before the definition they would
\* replace; each is a slip the code could have and breaks a property below.
BugAlignDown(x) == x - (x % 16)

\* ALIGN16 in size_t arithmetic: the addition wraps.
ALIGN16(x) == LET y == (x + 15) % (SizeMax + 1) IN y - (y % 16)

NoCall == [n |-> 0, old |-> Null]

Put(f, x, v) == [y \in DOMAIN f \cup {x} |-> IF y = x THEN v ELSE f[y]]
Drop(f, x)   == [y \in DOMAIN f \ {x} |-> f[y]]

-----------------------------------------------------------------------------
(* The list.                                                               *)

InitialBlock == [size |-> HeapSize - BLOCK_SIZE, free |-> TRUE, next |-> Null]

BugSplitUnchecked(h, b, s) ==
  Put([h EXCEPT ![b].size = s, ![b].next = b + BLOCK_SIZE + s],
      b + BLOCK_SIZE + s,
      [size |-> h[b].size - s - BLOCK_SIZE, free |-> TRUE,
       next |-> h[b].next])

BugSplitForgetsHeader(h, b, s) ==
  IF h[b].size >= s + BLOCK_SIZE + 16
  THEN Put([h EXCEPT ![b].size = s, ![b].next = b + BLOCK_SIZE + s],
           b + BLOCK_SIZE + s,
           [size |-> h[b].size - s, free |-> TRUE, next |-> h[b].next])
  ELSE h

\* split_block: the tail of block b beyond s bytes becomes a free block.
SplitBlock(h, b, s) ==
  IF h[b].size >= s + BLOCK_SIZE + 16
  THEN Put([h EXCEPT ![b].size = s, ![b].next = b + BLOCK_SIZE + s],
           b + BLOCK_SIZE + s,
           [size |-> h[b].size - s - BLOCK_SIZE, free |-> TRUE,
            next |-> h[b].next])
  ELSE h

\* The block after b is swallowed by b.
Absorb(h, b) ==
  LET c == h[b].next
  IN  Drop([h EXCEPT ![b].size = @ + BLOCK_SIZE + h[c].size,
                     ![b].next = h[c].next],
           c)

BugFitsStrictly(b, n) == hdr[b].free /\ hdr[b].size > ALIGN16(n)
Fits(b, n) == hdr[b].free /\ hdr[b].size >= ALIGN16(n)

-----------------------------------------------------------------------------
Init ==
  /\ heap_init = FALSE /\ free_list = Null
  /\ hdr = [a \in {} |-> InitialBlock]
  /\ errno = 0
  /\ pc = "idle" /\ call = NoCall /\ curr = Null /\ got = Null
  /\ live = [p \in {} |-> 0]

\* malloc(n) for n # 0 up to its loop; with n = 0 it returns NULL at once
\* and changes nothing.
EnterMalloc(n, old) ==
  /\ n # 0
  /\ heap_init' = TRUE
  /\ IF heap_init
     THEN UNCHANGED <<free_list, hdr>>
     ELSE /\ free_list' = 0
          /\ hdr' = [a \in {0} |-> InitialBlock]
  /\ pc' = "walk" /\ curr' = free_list'
  /\ call' = [n |-> n, old |-> old]
  /\ UNCHANGED <<errno, got, live>>

\* free(p) up to its merge pass.
EnterFree(p) ==
  /\ hdr' = [hdr EXCEPT ![p - BLOCK_SIZE].free = TRUE]
  /\ live' = Drop(live, p)
  /\ pc' = "merge" /\ curr' = free_list
  /\ UNCHANGED <<heap_init, free_list, errno, call, got>>

Fail ==
  /\ errno' = ENOMEM
  /\ pc' = "idle" /\ call' = NoCall
  /\ UNCHANGED <<heap_init, free_list, hdr, curr, got, live>>

-----------------------------------------------------------------------------
(* The calls of the program.                                               *)

Malloc == pc = "idle" /\ \E n \in Requests : EnterMalloc(n, Null)

Free == pc = "idle" /\ \E p \in DOMAIN live : EnterFree(p)

\* A product that does not fit a size_t is refused before malloc is called.
Calloc ==
  /\ pc = "idle"
  /\ \E c \in Counts \ {0}, s \in Requests \ {0} :
       IF c > SizeMax \div s THEN Fail ELSE EnterMalloc(c * s, Null)

\* realloc of a pointer: to nothing, in place, or by way of a new block.
Realloc ==
  /\ pc = "idle"
  /\ \E p \in DOMAIN live, n \in Requests :
       \/ n = 0 /\ EnterFree(p)
       \/ /\ n # 0 /\ hdr[p - BLOCK_SIZE].size >= n
          /\ live' = [live EXCEPT ![p] = n]
          /\ UNCHANGED <<heap_init, free_list, hdr, errno, pc, call, curr,
                         got>>
       \/ hdr[p - BLOCK_SIZE].size < n /\ EnterMalloc(n, p)

\* The program may set errno to 0 before a call whose failure it wants to see.
ClearErrno ==
  /\ pc = "idle" /\ errno' = 0
  /\ UNCHANGED <<heap_init, free_list, hdr, pc, call, curr, got, live>>

-----------------------------------------------------------------------------
(* The first-fit walk.                                                     *)

\* The block fits: split it, mark it, and return it or go on to the copy.
TakeBlock ==
  /\ pc = "walk" /\ curr # Null /\ Fits(curr, call.n)
  /\ hdr' = [SplitBlock(hdr, curr, ALIGN16(call.n)) EXCEPT ![curr].free = FALSE]
  /\ IF call.old = Null
     THEN /\ live' = Put(live, curr + BLOCK_SIZE, call.n)
          /\ pc' = "idle" /\ call' = NoCall
          /\ UNCHANGED got
     ELSE /\ got' = curr + BLOCK_SIZE
          /\ pc' = "copy"
          /\ UNCHANGED <<live, call>>
  /\ curr' = Null
  /\ UNCHANGED <<heap_init, free_list, errno>>

WalkOn ==
  /\ pc = "walk" /\ curr # Null /\ ~Fits(curr, call.n)
  /\ curr' = hdr[curr].next
  /\ UNCHANGED <<heap_init, free_list, hdr, errno, pc, call, got, live>>

\* The end of the list: NULL, and realloc leaves the old block as it was.
OutOfMemory == pc = "walk" /\ curr = Null /\ Fail

BugCopyOnly ==
  /\ pc = "copy"
  /\ live' = Drop(live, call.old)
  /\ pc' = "merge" /\ curr' = free_list
  /\ UNCHANGED <<heap_init, free_list, hdr, errno, call, got>>

\* realloc after malloc succeeded: memcpy, then free(ptr).
CopyAndFree == pc = "copy" /\ EnterFree(call.old)

-----------------------------------------------------------------------------
(* merge_free_blocks.                                                      *)

BugMergeable(b) == hdr[hdr[b].next].free
Mergeable(b) == hdr[b].free /\ hdr[hdr[b].next].free

BugMergeAndAdvance ==
  /\ pc = "merge" /\ curr # Null /\ hdr[curr].next # Null
  /\ hdr' = IF Mergeable(curr) THEN Absorb(hdr, curr) ELSE hdr
  /\ curr' = hdr'[curr].next
  /\ UNCHANGED <<heap_init, free_list, errno, pc, call, got, live>>

\* The pass starts over where it should go on.
BugMergeRestarts ==
  /\ pc = "merge" /\ curr # Null /\ hdr[curr].next # Null
  /\ IF Mergeable(curr)
     THEN hdr' = Absorb(hdr, curr) /\ UNCHANGED curr
     ELSE curr' = free_list /\ UNCHANGED hdr
  /\ UNCHANGED <<heap_init, free_list, errno, pc, call, got, live>>

MergeStep ==
  /\ pc = "merge" /\ curr # Null /\ hdr[curr].next # Null
  /\ IF Mergeable(curr)
     THEN hdr' = Absorb(hdr, curr) /\ UNCHANGED curr
     ELSE curr' = hdr[curr].next /\ UNCHANGED hdr
  /\ UNCHANGED <<heap_init, free_list, errno, pc, call, got, live>>

\* The pass ends and with it free, or the realloc that called it.
MergeEnd ==
  /\ pc = "merge" /\ (curr # Null => hdr[curr].next = Null)
  /\ live' = IF got = Null THEN live ELSE Put(live, got, call.n)
  /\ pc' = "idle" /\ call' = NoCall /\ curr' = Null /\ got' = Null
  /\ UNCHANGED <<heap_init, free_list, hdr, errno>>

-----------------------------------------------------------------------------
Library == TakeBlock \/ WalkOn \/ OutOfMemory \/ CopyAndFree
             \/ MergeStep \/ MergeEnd

Next == Malloc \/ Free \/ Calloc \/ Realloc \/ ClearErrno \/ Library

Spec == Init /\ [][Next]_vars

\* A call that was made runs on: nothing inside it waits for anything.
FairSpec == Spec /\ WF_vars(Library)

-----------------------------------------------------------------------------
(* What holds of it.                                                       *)

Blocks == DOMAIN hdr
EndOf(b) == b + BLOCK_SIZE + hdr[b].size
Used == {b \in Blocks : ~hdr[b].free}

\* The byte counts that reach malloc, and the requests that ALIGN16 does not
\* wrap to a small number.  stdlib.c has no check against the others.
Sizes == Requests \cup {c * s : c \in Counts, s \in Requests}
NoWrap == \A n \in Sizes : n <= SizeMax => n <= SizeMax - 15

TypeOK ==
  /\ heap_init \in BOOLEAN /\ free_list \in {Null, 0}
  /\ Blocks \subseteq 0 .. HeapSize - BLOCK_SIZE
  /\ hdr \in [Blocks -> [size : Nat, free : BOOLEAN, next : Blocks \cup {Null}]]
  /\ errno \in {0, ENOMEM}
  /\ pc \in {"idle", "walk", "copy", "merge"}
  /\ call \in [n : Nat, old : Int]
  /\ curr \in Blocks \cup {Null}
  /\ got \in Int
  /\ live \in [DOMAIN live -> Nat] /\ DOMAIN live \subseteq Nat

\* Tiling: the list runs through the arena in address order without a gap and
\* without an overlap: a block ends where its successor begins, the last one
\* at the end of heap[].  Splitting, merging and the header arithmetic of
\* split_block and merge_free_blocks must agree for that.
Tiling ==
  heap_init =>
    /\ 0 \in Blocks
    /\ \A b \in Blocks :
         EndOf(b) = IF hdr[b].next = Null THEN HeapSize ELSE hdr[b].next
    /\ \A b, c \in Blocks : b < c => EndOf(b) <= c

\* Ownership: between calls a block is in use exactly when the program owns
\* the pointer behind its header: no call leaks a block or frees one that is
\* still owned, whichever way out malloc, calloc and realloc take.
Ownership ==
  pc = "idle" => DOMAIN live = {b + BLOCK_SIZE : b \in Used}

\* Capacity: what the program owns is at least as large as what it asked
\* for, through splits, merges, resizes in place and overflow checks.
Capacity ==
  \A p \in DOMAIN live :
    p - BLOCK_SIZE \in Used /\ live[p] <= hdr[p - BLOCK_SIZE].size

\* Coalesced: between calls no two neighbours are both free, so a request
\* fails only if no run of free bytes is long enough.
Coalesced ==
  pc = "idle" =>
    \A b \in Blocks :
      hdr[b].free /\ hdr[b].next # Null => ~hdr[hdr[b].next].free

\* A program that gave everything back finds the arena as it was at first:
\* one free block, no byte lost to headers of blocks long gone.
DrainedIsFresh ==
  pc = "idle" /\ heap_init /\ DOMAIN live = {} => hdr = [a \in {0} |-> InitialBlock]

\* Headers stay 8-byte aligned, as the members of block_t need.
Aligned == \A b \in Blocks : b % 8 = 0

\* No step of any call changes the block of a pointer the program keeps: the
\* merge pass, the walk of another request and the split of another block
\* leave its address and its size alone.
KeptBlocksUntouched ==
  [][\A p \in DOMAIN live : p \in DOMAIN live' =>
       /\ p - BLOCK_SIZE \in DOMAIN hdr'
       /\ hdr'[p - BLOCK_SIZE].size = hdr[p - BLOCK_SIZE].size
       /\ ~hdr'[p - BLOCK_SIZE].free]_vars

\* Every call returns: the walk and the merge pass reach the end of the list.
Returns == pc # "idle" ~> pc = "idle"

\* The allocator implements its contract.  A region is held from the moment
\* its block is marked until the moment it is unmarked.
Regions == [p \in {b + BLOCK_SIZE : b \in Used} |-> hdr[p - BLOCK_SIZE].size]
Asked == IF pc = "walk" THEN call.n ELSE 0
Contract == INSTANCE HeapContract WITH held <- Regions, asked <- Asked
ImplementsContract == Contract!Spec

\* Nothing larger than the arena is ever handed out: what the overflow check
\* of calloc and ENOMEM are for.
OversizeRefused == \A p \in DOMAIN live : live[p] <= HeapSize

=============================================================================
