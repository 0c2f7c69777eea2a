------------------------------ MODULE Streams ------------------------------
(***************************************************************************)
(* FILE objects of sdk/src/stdio.c: fopen, fclose, fread and what is built *)
(* from it (fgetc, fgets), fwrite, clearerr, getchar, perror of errno.c,   *)
(* and syscall() of syscall.c below them.  A FILE has no buffer: every     *)
(* call goes to the kernel, and fgets goes there once per character.       *)
(* Between any two of these steps a handler of the program's may run and   *)
(* change errno.                                                           *)
(*                                                                         *)
(* The kernel is external: a call to it fails with an error or succeeds,   *)
(* read and write with as many bytes as it likes.  A byte is a newline or  *)
(* another character.                                                      *)
(***************************************************************************)
EXTENDS Integers, Sequences, SequencesExt

CONSTANTS Files,     \* what malloc may return for a FILE
          Std,       \* stdin, which stands for the three standard streams
          Modes,     \* first characters of a mode: r, w, a and wrong ones
          Fds,       \* descriptors the kernel may hand out
          ItemSizes, \* item sizes of fread and fwrite
          Lines      \* sizes of the array given to fgets

ASSUME StreamsAssumption ==
  /\ Std \notin Files
  /\ Fds \subseteq Nat \ {0, 1, 2}
  /\ ItemSizes \subseteq Nat \ {0} /\ Lines \subseteq Nat

VARIABLES
  files,  \* the FILEs the program holds -> their fd, eof and err
  fds,    \* the kernel's table: the open descriptors beyond 2
  stuck,  \* those a failed close left open
  errno,
  quiet,  \* nobody else has set errno since the calls below last did
  pc,     \* "idle", or where fopen or fgets is
  call,   \* locals of the running call: the stream or fd, size, and s
  last,   \* what the last call reported
  owed    \* per stream: bytes read from it that the program did not get yet

vars == <<files, fds, stuck, errno, quiet, pc, call, last, owed>>

Bytes == {"char", "newline"}

ENOENT == 2
EIO == 5
EBADF == 9
ENOMEM == 12

\* strerror_internal, of the errors that occur here.
ErrorText ==
  [e \in {0, ENOENT, EIO, EBADF, ENOMEM} |->
     CASE e = 0 -> "Success" [] e = ENOENT -> "No such file or directory"
       [] e = EIO -> "I/O error" [] e = EBADF -> "Bad file descriptor"
       [] e = ENOMEM -> "Out of memory"]

\* What a call reported: the stream whose flags tell why, the error of what went
\* wrong in it first and of what went wrong in cleaning up after that, whether
\* it moved a part of an item, and the message it wrote.
Good == [ok |-> TRUE, on |-> {}, cause |-> 0, undo |-> 0, torn |-> FALSE, said |-> ""]
Failed(cause) == [Good EXCEPT !.ok = FALSE, !.cause = cause]
FailedTwice(cause, undo) == [Good EXCEPT !.ok = FALSE, !.cause = cause, !.undo = undo]
ReadNothing(f, cause) == [Good EXCEPT !.ok = FALSE, !.on = {f}, !.cause = cause]

\* The error such a call leaves the program: close overwrites that of malloc.
Named(result) == IF result.undo = 0 THEN result.cause ELSE result.undo

NoCall == [stream |-> Std, fd |-> 0, size |-> 0, s |-> <<>>, text |-> "", cause |-> 0]
Fresh(fd) == [fd |-> fd, eof |-> FALSE, err |-> FALSE]

Init ==
  /\ files = [f \in {Std} |-> Fresh(0)]
  /\ fds = {} /\ stuck = {} /\ errno = 0 /\ quiet = TRUE
  /\ pc = "idle" /\ call = NoCall /\ last = Good
  /\ owed = [f \in Files \cup {Std} |-> <<>>]

Return(result) == pc' = "idle" /\ call' = NoCall /\ last' = result

-----------------------------------------------------------------------------
(* The kernel's answer, as syscall() passes it on: a small negative one    *)
(* becomes errno and -1, any other leaves errno alone.                     *)

BugSyscall(raw) == errno' = (IF raw < 0 THEN -raw ELSE 0) /\ UNCHANGED quiet

Syscall(raw) ==
  IF raw < 0 /\ raw >= -4095 THEN errno' = -raw /\ quiet' = TRUE
  ELSE UNCHANGED <<errno, quiet>>

\* Whether a failed close released the descriptor is the kernel's business.
CloseFd(fd, raw) ==
  /\ Syscall(raw)
  /\ \/ fds' = fds \ {fd} /\ UNCHANGED stuck
     \/ raw < 0 /\ stuck' = stuck \cup {fd} /\ UNCHANGED fds

-----------------------------------------------------------------------------
(* fopen and fclose.                                                       *)

\* A mode that does not begin with r, w or a: NULL, errno untouched.
FopenRefuse ==
  /\ pc = "idle" /\ \E mode \in Modes : mode \notin {"r", "w", "a"}
  /\ Return(Failed(0))
  /\ UNCHANGED <<files, fds, stuck, errno, quiet, owed>>

FopenOpen ==
  /\ pc = "idle" /\ \E mode \in Modes : mode \in {"r", "w", "a"}
  /\ \/ Syscall(-ENOENT) /\ Return(Failed(ENOENT)) /\ UNCHANGED fds
     \/ \E fd \in Fds \ fds :
          /\ Syscall(fd)
          /\ fds' = fds \cup {fd}
          /\ pc' = "alloc" /\ call' = [NoCall EXCEPT !.fd = fd]
          /\ UNCHANGED last
  /\ UNCHANGED <<files, stuck, owed>>

FopenDone ==
  /\ pc = "alloc"
  /\ \E f \in Files \ DOMAIN files :
       /\ files' = [g \in DOMAIN files \cup {f} |->
                      IF g = f THEN Fresh(call.fd) ELSE files[g]]
       /\ owed' = [owed EXCEPT ![f] = <<>>]
  /\ Return(Good)
  /\ UNCHANGED <<fds, stuck, errno, quiet>>

\* malloc returns NULL and sets errno.
FopenNoMemory ==
  /\ pc = "alloc" /\ pc' = "undo"
  /\ errno' = ENOMEM /\ quiet' = TRUE
  /\ UNCHANGED <<files, fds, stuck, call, last, owed>>

BugFopenUndo ==
  /\ pc = "undo" /\ Return(Failed(ENOMEM))
  /\ UNCHANGED <<files, fds, stuck, errno, quiet, owed>>

FopenUndo ==
  /\ pc = "undo"
  /\ \/ CloseFd(call.fd, 0) /\ Return(Failed(ENOMEM))
     \/ CloseFd(call.fd, -EIO) /\ Return(FailedTwice(ENOMEM, EIO))
  /\ UNCHANGED <<files, owed>>

\* fclose gives the FILE back even if close fails; standard streams stay.
Fclose ==
  /\ pc = "idle"
  /\ \E f \in DOMAIN files :
       \/ f = Std /\ Return(Good) /\ UNCHANGED <<files, fds, stuck, errno, quiet>>
       \/ /\ f # Std
          /\ files' = [g \in DOMAIN files \ {f} |-> files[g]]
          /\ \/ CloseFd(files[f].fd, 0) /\ Return(Good)
             \/ CloseFd(files[f].fd, -EIO) /\ Return(Failed(EIO))
  /\ UNCHANGED owed

Clearerr ==
  /\ pc = "idle"
  /\ \E f \in DOMAIN files :
       files' = [files EXCEPT ![f].eof = FALSE, ![f].err = FALSE]
  /\ Return(Good)
  /\ UNCHANGED <<fds, stuck, errno, quiet, owed>>

-----------------------------------------------------------------------------
(* fread and fgets.                                                        *)

\* read(stream->fd, ptr, total) failed.
ReadFails(f) ==
  /\ Syscall(-EIO)
  /\ files' = [files EXCEPT ![f].err = TRUE]

BugReadGot(f, s) == Syscall(Len(s)) /\ UNCHANGED files

\* It returned the bytes s, none at the end of the input.
ReadGot(f, s) ==
  /\ Syscall(Len(s))
  /\ files' = IF s = <<>> THEN [files EXCEPT ![f].eof = TRUE] ELSE files

UpTo(n) == UNION {[1 .. k -> Bytes] : k \in 0 .. n}

\* fread of up to two items; of one byte it is fgetc.  It reports whole items
\* only: the bytes of a torn one lie in the program's array uncounted.
Fread ==
  /\ pc = "idle"
  /\ \E f \in DOMAIN files, size \in ItemSizes, nmemb \in {1, 2} :
       \/ ReadFails(f) /\ Return(ReadNothing(f, EIO))
       \/ \E s \in UpTo(size * nmemb) :
            /\ ReadGot(f, s)
            /\ Return([(IF Len(s) < size THEN ReadNothing(f, 0) ELSE Good)
                         EXCEPT !.torn = Len(s) % size # 0])
  /\ UNCHANGED <<fds, stuck, owed>>

Fgets ==
  /\ pc = "idle"
  /\ \E f \in DOMAIN files, n \in Lines :
       IF n = 0 THEN Return(Failed(0))
       ELSE /\ pc' = "gets" /\ UNCHANGED last
            /\ call' = [NoCall EXCEPT !.stream = f, !.size = n]
  /\ UNCHANGED <<files, fds, stuck, errno, quiet, owed>>

\* The program gets s, of what was read from the stream by now.
Deliver(s, read) ==
  owed' = [owed EXCEPT ![call.stream] =
             IF IsPrefix(s, read) THEN SubSeq(read, Len(s) + 1, Len(read)) ELSE read]

Room == pc = "gets" /\ Len(call.s) < call.size - 1

BugFgetsEof ==
  /\ Room
  /\ \/ ReadFails(call.stream) /\ Return(ReadNothing(call.stream, EIO))
     \/ ReadGot(call.stream, <<>>) /\ Return(ReadNothing(call.stream, 0))
  /\ UNCHANGED <<fds, stuck, owed>>

\* EOF from fgetc: reported if it comes first, else it ends the line.
EndLine(cause) ==
  Return(IF call.s = <<>> THEN ReadNothing(call.stream, cause) ELSE Good)

FgetsEof ==
  /\ Room
  /\ \/ ReadFails(call.stream) /\ EndLine(EIO)
     \/ ReadGot(call.stream, <<>>) /\ EndLine(0)
  /\ Deliver(call.s, owed[call.stream])
  /\ UNCHANGED <<fds, stuck>>

FgetsChar ==
  /\ Room
  /\ \E c \in Bytes :
       LET read == Append(owed[call.stream], c)
       IN  /\ ReadGot(call.stream, <<c>>)
           /\ IF c = "newline"
              THEN Deliver(Append(call.s, c), read) /\ Return(Good)
              ELSE /\ call' = [call EXCEPT !.s = Append(@, c)]
                   /\ owed' = [owed EXCEPT ![call.stream] = read]
                   /\ UNCHANGED <<pc, last>>
  /\ UNCHANGED <<fds, stuck>>

FgetsFull ==
  /\ pc = "gets" /\ ~Room
  /\ Deliver(call.s, owed[call.stream]) /\ Return(Good)
  /\ UNCHANGED <<files, fds, stuck, errno, quiet>>

-----------------------------------------------------------------------------
\* fwrite of up to two items; its result counts whole items.
Fwrite ==
  /\ pc = "idle"
  /\ \E f \in DOMAIN files, size \in ItemSizes, nmemb \in {1, 2} :
       \/ /\ Syscall(-EIO) /\ Return(Failed(EIO))
          /\ files' = [files EXCEPT ![f].err = TRUE]
       \/ \E n \in 0 .. size * nmemb :
            /\ Syscall(n)
            /\ Return([Good EXCEPT !.torn = n % size # 0])
            /\ UNCHANGED files
  /\ UNCHANGED <<fds, stuck, owed>>

\* getchar reads from descriptor 0, past the flags of stdin.
Getchar ==
  /\ pc = "idle"
  /\ \/ Syscall(-EIO) /\ Return(Failed(EIO))
     \/ Syscall(0) /\ Return(Failed(0))
     \/ Syscall(1) /\ Return(Good)
  /\ UNCHANGED <<files, fds, stuck, owed>>

-----------------------------------------------------------------------------
(* perror, after a call that failed: up to four writes, each of which may   *)
(* fail and change errno again.                                            *)

\* The text is looked up first; with a prefix it is the third write.
Perror ==
  /\ pc = "idle" /\ ~last.ok /\ last.cause # 0
  /\ pc' = "perror"
  /\ \E writes \in {2, 4} :
       call' = [NoCall EXCEPT !.size = writes, !.text = ErrorText[errno],
                              !.cause = IF quiet THEN Named(last) ELSE 0]
  /\ UNCHANGED <<files, fds, stuck, errno, quiet, last, owed>>

\* Bug: the text is looked up when its turn comes.
BugPerrorWrite ==
  /\ pc = "perror" /\ call.size > 0
  /\ \E n \in {1, -EBADF} : Syscall(n)
  /\ call' = [call EXCEPT !.size = @ - 1, !.text = IF call.size = 2 THEN ErrorText[errno] ELSE @]
  /\ UNCHANGED <<files, fds, stuck, pc, last, owed>>

PerrorWrite ==
  /\ pc = "perror" /\ call.size > 0
  /\ \E n \in {1, -EBADF} : Syscall(n)
  /\ call' = [call EXCEPT !.size = @ - 1]
  /\ UNCHANGED <<files, fds, stuck, pc, last, owed>>

PerrorReturn ==
  /\ pc = "perror" /\ call.size = 0
  /\ Return([Good EXCEPT !.said = call.text, !.cause = call.cause])
  /\ UNCHANGED <<files, fds, stuck, errno, quiet, owed>>

-----------------------------------------------------------------------------
\* Other code of the program sets errno: a call of a handler that runs in the
\* middle of all this fails, or between two calls a malloc, or errno = 0.
Elsewhere ==
  /\ errno' \in (IF pc = "idle" THEN {0, ENOMEM, EBADF} ELSE {EBADF}) /\ quiet' = FALSE
  /\ UNCHANGED <<files, fds, stuck, pc, call, last, owed>>

-----------------------------------------------------------------------------
Next == FopenRefuse \/ FopenOpen \/ FopenDone \/ FopenNoMemory \/ FopenUndo
          \/ Fclose \/ Clearerr \/ Fread
          \/ Fgets \/ FgetsEof \/ FgetsChar \/ FgetsFull \/ Fwrite
          \/ Getchar \/ Perror \/ PerrorWrite \/ PerrorReturn \/ Elsewhere

Spec == Init /\ [][Next]_vars

-----------------------------------------------------------------------------
(* What holds of it.                                                       *)

Own == DOMAIN files \ {Std}

\* Between calls every open descriptor belongs to one FILE, and every FILE to
\* one open descriptor: no way out of fopen and fclose leaks or shares one.
\* Excepted are the descriptors whose close failed.
Paired ==
  pc = "idle" =>
    /\ {files[f].fd : f \in Own} = fds \ stuck
    /\ \A f, g \in Own : files[f].fd = files[g].fd => f = g

\* The program gets every byte fgets read from a stream, in order, wherever
\* the end of the input, an error or the end of the array comes, and what is in
\* the array leaves room for the terminator.
ReadOnce ==
  /\ pc = "idle" => \A f \in DOMAIN files : owed[f] = <<>>
  /\ pc = "gets" => Len(call.s) < call.size

\* A read of a stream that gives nothing has its reason in the flags of that
\* stream: ferror after an error, feof at the end.  Excepted are torn items, for
\* which there is none.
EofExplained ==
  ~last.ok /\ ~last.torn =>
    \A f \in last.on :
      f \in DOMAIN files /\ IF last.cause = 0 THEN files[f].eof ELSE files[f].err

\* After a call failed, errno is the error of what failed in it first, a read or
\* a write, open, malloc or close, unless other code has set it since: what
\* succeeds later in the same call, as fopen's clean-up does as a rule, does not
\* overwrite it.  Only if close fails in that clean-up as well the program finds
\* its error and never learns of malloc's.
FailureNamed ==
  pc = "idle" /\ quiet /\ ~last.ok /\ last.cause # 0 => errno = Named(last)

\* The message perror prints is that of the error which the call that failed
\* before it left, as FailureNamed has it, however perror's own writes fare and
\* whatever handlers do to errno while it runs; only code that sets errno
\* between that call and perror makes it another.
PerrorTells ==
  last.said # "" /\ last.cause # 0 => last.said = ErrorText[last.cause]
=============================================================================
