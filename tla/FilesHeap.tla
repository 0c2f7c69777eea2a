------------------------------ MODULE FilesHeap -----------------------------
(***************************************************************************)
(* FILE objects in the heap: fopen and fclose of sdk/src/stdio.c with the  *)
(* malloc and free of sdk/src/stdlib.c they call, every step of these, for *)
(* a program that has blocks of its own besides.  Streams lets malloc fail *)
(* or return what it likes; here the allocator answers, out of what the    *)
(* program left of the arena.                                              *)
(***************************************************************************)
EXTENDS Heap

CONSTANTS Fds,      \* descriptors the kernel may hand out
          FileSize  \* sizeof(FILE)

ASSUME FilesHeapAssumption ==
  Fds \subseteq Nat \ {0, 1, 2} /\ FileSize \in 1 .. SizeMax - 15

VARIABLES
  files, fds, stuck, quiet,   \* as in Streams; a FILE is its address
  at,    \* where fopen or fclose is: "idle", "open", "malloc", "undo", "closed", "free"
  held,  \* its fd or stream
  last,  \* what it reported
  mine   \* the blocks the program has from its own calls of malloc

fileVars == <<files, fds, stuck, quiet, at, held, last, mine>>
allVars == <<vars, fileVars>>

stdin == -2
Own == DOMAIN files \ {stdin}

\* The stream calls these are to implement: one step where malloc answers, one
\* where close has, whatever happens in the arena.
Call(fd) == [stream |-> stdin, fd |-> fd, size |-> 0, s |-> <<>>, text |-> "", cause |-> 0]
S == INSTANCE Streams
       WITH Files <- 1 .. HeapSize, Std <- stdin, Modes <- {"r", "?"},
            ItemSizes <- {1}, Lines <- {},
            pc <- CASE at \in {"open", "malloc"} -> "alloc" [] at = "undo" -> "undo"
                    [] OTHER -> "idle",
            call <- IF at \in {"open", "malloc", "undo"} THEN Call(held) ELSE Call(0),
            owed <- [f \in 1 .. HeapSize \cup {stdin} |-> <<>>]

InitAll ==
  /\ Init
  /\ files = [f \in {stdin} |-> S!Fresh(0)]
  /\ fds = {} /\ stuck = {} /\ quiet = TRUE
  /\ at = "idle" /\ held = 0 /\ last = S!Good /\ mine = {}

AtRest == pc = "idle" /\ at = "idle"
Return(result) == at' = "idle" /\ held' = 0 /\ last' = result
HeapRests == UNCHANGED <<heap_init, free_list, hdr, pc, call, curr, got, live>>

-----------------------------------------------------------------------------
(* fopen.                                                                  *)

FopenOpen ==
  /\ AtRest /\ HeapRests
  /\ \/ Return(S!Failed(0)) /\ UNCHANGED <<fds, errno, quiet>>
     \/ S!Syscall(-S!ENOENT) /\ Return(S!Failed(S!ENOENT)) /\ UNCHANGED fds
     \/ \E fd \in Fds \ fds :
          /\ S!Syscall(fd) /\ fds' = fds \cup {fd}
          /\ at' = "open" /\ held' = fd /\ UNCHANGED last
  /\ UNCHANGED <<files, stuck, mine>>

FopenMalloc ==
  /\ at = "open" /\ at' = "malloc"
  /\ EnterMalloc(FileSize, Null)
  /\ UNCHANGED <<files, fds, stuck, quiet, held, last, mine>>

FopenDone ==
  /\ at = "malloc" /\ TakeBlock
  /\ files' = Put(files, curr + BLOCK_SIZE, S!Fresh(held))
  /\ Return(S!Good)
  /\ UNCHANGED <<fds, stuck, quiet, mine>>

FopenNoMemory ==
  /\ at = "malloc" /\ OutOfMemory
  /\ at' = "undo" /\ quiet' = TRUE
  /\ UNCHANGED <<files, fds, stuck, held, last, mine>>

\* Bug: forgets the descriptor.
BugFopenUndo ==
  /\ at = "undo" /\ Return(S!Failed(ENOMEM))
  /\ HeapRests /\ UNCHANGED <<errno, quiet, files, fds, stuck, mine>>

FopenUndo ==
  /\ at = "undo" /\ HeapRests
  /\ \/ S!CloseFd(held, 0) /\ Return(S!Failed(ENOMEM))
     \/ S!CloseFd(held, -S!EIO) /\ Return(S!FailedTwice(ENOMEM, S!EIO))
  /\ UNCHANGED <<files, mine>>

-----------------------------------------------------------------------------
(* fclose.                                                                 *)

FcloseClose ==
  /\ AtRest /\ HeapRests
  /\ \E f \in DOMAIN files :
       \/ f = stdin /\ Return(S!Good) /\ UNCHANGED <<files, fds, stuck, errno, quiet>>
       \/ /\ f # stdin
          /\ \/ S!CloseFd(files[f].fd, 0) /\ last' = S!Good
             \/ S!CloseFd(files[f].fd, -S!EIO) /\ last' = S!Failed(S!EIO)
          /\ files' = Drop(files, f) /\ at' = "closed" /\ held' = f
  /\ UNCHANGED mine

\* Bug: returns at once when close failed.
BugFcloseFree ==
  /\ at = "closed" /\ UNCHANGED <<files, fds, stuck, quiet, last, mine>>
  /\ IF last.ok THEN EnterFree(held) /\ at' = "free" /\ UNCHANGED held
     ELSE at' = "idle" /\ held' = 0 /\ UNCHANGED vars

FcloseFree ==
  /\ at = "closed" /\ at' = "free"
  /\ EnterFree(held)
  /\ UNCHANGED <<files, fds, stuck, quiet, held, last, mine>>

FcloseDone ==
  /\ at = "free" /\ MergeEnd /\ at' = "idle" /\ held' = 0
  /\ UNCHANGED <<files, fds, stuck, quiet, last, mine>>

-----------------------------------------------------------------------------
(* The program's own malloc and free, and the steps all calls share.       *)

ProgramMalloc == AtRest /\ Malloc /\ UNCHANGED fileVars

ProgramFree ==
  /\ AtRest
  /\ \E p \in mine : EnterFree(p) /\ mine' = mine \ {p}
  /\ UNCHANGED <<files, fds, stuck, quiet, at, held, last>>

ProgramGets ==
  /\ at = "idle" /\ TakeBlock
  /\ mine' = mine \cup {curr + BLOCK_SIZE}
  /\ UNCHANGED <<files, fds, stuck, quiet, at, held, last>>

ProgramFails ==
  /\ at = "idle" /\ OutOfMemory /\ quiet' = FALSE
  /\ UNCHANGED <<files, fds, stuck, at, held, last, mine>>

Loop == (WalkOn \/ MergeStep \/ (at = "idle" /\ MergeEnd)) /\ UNCHANGED fileVars

Running == FopenMalloc \/ FopenDone \/ FopenNoMemory \/ FopenUndo \/ FcloseFree
             \/ FcloseDone \/ ProgramGets \/ ProgramFails \/ Loop

NextAll == FopenOpen \/ FcloseClose \/ ProgramMalloc \/ ProgramFree \/ Running

\* A call that was made runs on, and the kernel answers close.
SpecAll == InitAll /\ [][NextAll]_allVars /\ WF_allVars(Running)

-----------------------------------------------------------------------------
(* What holds of it.                                                       *)

\* At rest the blocks in use are those of the open FILEs, each large enough
\* for one, and those the program has, none of them both: the ways out of
\* fopen and fclose neither leak a FILE nor give a block back twice, and what
\* malloc hands out next is neither.
BlocksAccounted ==
  AtRest =>
    /\ {b + BLOCK_SIZE : b \in Used} = Own \cup mine
    /\ Own \cap mine = {}
    /\ \A f \in Own : hdr[f - BLOCK_SIZE].size >= FileSize

\* fopen and fclose over the allocator are those of Streams over any malloc.
ImplementsStreams == S!Spec

\* They return, with the merge pass and the walk they run through.
FilesReturn == at # "idle" ~> at = "idle"
=============================================================================
