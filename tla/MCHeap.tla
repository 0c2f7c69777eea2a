------------------------------- MODULE MCHeap -------------------------------
(***************************************************************************)
(* Small instances of Heap.  The header and the rounding are those of the  *)
(* code; the arena holds up to four small blocks.                          *)
(***************************************************************************)
EXTENDS Heap

\* 0, a byte, and a size that after a few calls fits only where free
\* neighbours were merged.
MCRequests == {0, 1, 40}

\* 2 * 40 needs most of the arena; 2000 * 40 does not fit SizeMax.
MCCounts == {0, 2, 2000}

\* The largest size_t, which ALIGN16 wraps.
WrapRequests == {24, SizeMax}
WrapCounts == {1}

=============================================================================
