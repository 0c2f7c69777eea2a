------------------------------- MODULE OutBuf -------------------------------
(***************************************************************************)
(* The output buffer behind printf and puts (sdk/src/stdio.c): emit puts a *)
(* byte into outbuf, flush hands the buffer to write(1, ...).  putchar and *)
(* fwrite on stdout go past it.  A signal handler that prints runs the     *)
(* same code on the same two statics, between any two instructions of the  *)
(* call it interrupts, so one emit is several steps here.                  *)
(*                                                                         *)
(* A byte is the number of its emission: the n-th byte the program prints  *)
(* is n, whoever prints it.                                                *)
(***************************************************************************)
EXTENDS Integers, FiniteSets, Sequences, SequencesExt

CONSTANTS Size,         \* OUTBUF_SIZE
          Texts,        \* lengths of what the program prints in one call
          HandlerTexts, \* lengths of what a handler prints in one call
          MaxCalls,     \* bound: calls of the program
          MaxSignals,   \* bound: signals delivered
          MaxNest,      \* bound: handlers active at the same time
          MaxShort      \* bound: write calls that take less than they are given

ASSUME OutBufAssumption ==
  /\ Size \in Nat /\ Size > 2
  /\ Texts \subseteq Nat /\ HandlerTexts \subseteq Nat
  /\ MaxCalls \in Nat /\ MaxSignals \in Nat /\ MaxNest \in Nat /\ MaxShort \in Nat

VARIABLES
  outlen, outbuf,  \* the statics; outbuf is indexed past its end on purpose
  frames,          \* the active calls, the program's first, a handler's on top
  count,           \* bytes printed so far
  out,             \* what the kernel took for file descriptor 1
  calls, signals, short   \* used up of the bounds

vars == <<outlen, outbuf, frames, count, out, calls, signals, short>>

Unknown == -1

\* A call: left bytes still to emit, known what it last saw or wrote of
\* outlen, reg the index of the byte ch under way, todo the stores that byte
\* still needs, first the last byte printed before the call, and whether a
\* handler ran in the middle of it.
Call(n) ==
  [pc |-> "emit", left |-> n, known |-> Unknown, reg |-> 0, ch |-> 0,
   todo |-> {}, first |-> count, hit |-> FALSE]

Active == frames # <<>>
Top == Last(frames)
AtTop(f) == frames' = Front(frames) \o <<f>>

\* A value of outlen the compiled code may use: memory, or the register that
\* still holds what this call last read or stored.  libc.sl as it is shipped
\* keeps outlen in a register through the loop of puts.
Seen == {outlen} \cup ({Top.known} \ {Unknown})

-----------------------------------------------------------------------------
Init ==
  /\ outlen = 0 /\ outbuf = [i \in 0 .. Size |-> 0]
  /\ frames = <<>> /\ count = 0 /\ out = <<>>
  /\ calls = 0 /\ signals = 0 /\ short = 0

\* printf or puts of n bytes.
Puts ==
  /\ ~Active /\ calls < MaxCalls
  /\ \E n \in Texts : frames' = <<Call(n)>>
  /\ calls' = calls + 1
  /\ UNCHANGED <<outlen, outbuf, count, out, signals, short>>

\* The kernel takes all of bytes, or, as often as the bound allows, only a
\* part of them or none.
Write(bytes) ==
  \E k \in 0 .. Len(bytes) :
    /\ k < Len(bytes) => short < MaxShort
    /\ out' = out \o SubSeq(bytes, 1, k)
    /\ short' = IF k < Len(bytes) THEN short + 1 ELSE short

\* putchar, fputc(stdout), fputs(stdout): straight to write.
Putchar ==
  /\ ~Active /\ calls < MaxCalls
  /\ count' = count + 1 /\ Write(<<count + 1>>)
  /\ calls' = calls + 1
  /\ UNCHANGED <<outlen, outbuf, frames, signals>>

\* A handler that prints n bytes interrupts whatever runs.
Signal ==
  /\ signals < MaxSignals
  /\ Active /\ Len(frames) <= MaxNest
  /\ \E n \in HandlerTexts :
       frames' = Front(frames) \o <<[Top EXCEPT !.hit = TRUE], Call(n)>>
  /\ signals' = signals + 1
  /\ UNCHANGED <<outlen, outbuf, count, out, calls, short>>

-----------------------------------------------------------------------------
(* emit.                                                                   *)

\* outlen is read, and the byte's index is settled.
Fetch ==
  /\ Active /\ Top.pc = "emit" /\ Top.left > 0
  /\ \E r \in Seen :
       AtTop([Top EXCEPT !.pc = "put", !.left = @ - 1, !.reg = r,
                         !.ch = count + 1, !.todo = {"bump", "store"}])
  /\ count' = count + 1
  /\ UNCHANGED <<outlen, outbuf, out, calls, signals, short>>

Settled(step) ==
  IF Top.todo = {step} THEN "check" ELSE "put"

\* outlen++ and the store of the byte: C leaves their order to the compiler.
Bump ==
  /\ Active /\ Top.pc = "put" /\ "bump" \in Top.todo
  /\ outlen' = Top.reg + 1
  /\ AtTop([Top EXCEPT !.pc = Settled("bump"), !.todo = @ \ {"bump"},
                       !.known = Top.reg + 1])
  /\ UNCHANGED <<outbuf, count, out, calls, signals, short>>

Store ==
  /\ Active /\ Top.pc = "put" /\ "store" \in Top.todo
  /\ outbuf' = [i \in DOMAIN outbuf \cup {Top.reg} |->
                  IF i = Top.reg THEN Top.ch ELSE outbuf[i]]
  /\ AtTop([Top EXCEPT !.pc = Settled("store"), !.todo = @ \ {"store"}])
  /\ UNCHANGED <<outlen, count, out, calls, signals, short>>

BugFull(n) == n >= Size
Full(n) == n >= Size - 1

Check ==
  /\ Active /\ Top.pc = "check"
  /\ \E n \in Seen :
       AtTop([Top EXCEPT !.pc = IF Full(n) THEN "flush" ELSE "emit", !.known = n])
  /\ UNCHANGED <<outlen, outbuf, count, out, calls, signals, short>>

\* The text is out: the last flush.
BugLastFlush ==
  /\ Active /\ Top.pc = "emit" /\ Top.left = 0
  /\ frames' = Front(frames)
  /\ UNCHANGED <<outlen, outbuf, count, out, calls, signals, short>>

LastFlush ==
  /\ Active /\ Top.pc = "emit" /\ Top.left = 0
  /\ AtTop([Top EXCEPT !.pc = "last"])
  /\ UNCHANGED <<outlen, outbuf, count, out, calls, signals, short>>

-----------------------------------------------------------------------------
(* flush.                                                                  *)

\* A flush in the middle of a call goes back to it, the last one ends it;
\* either way outlen was last seen to be 0.
Resume ==
  IF Top.pc \in {"last", "reset_last"}
  THEN frames' = Front(frames)
  ELSE AtTop([Top EXCEPT !.pc = "emit", !.known = 0])

FlushEmpty ==
  /\ Active /\ Top.pc \in {"flush", "last"}
  /\ 0 \in Seen /\ Resume
  /\ UNCHANGED <<outlen, outbuf, count, out, calls, signals, short>>

\* write takes bytes of the buffer as it is now, as many as outlen was when
\* it was read; what it returns is ignored.
BugWriteOneLess ==
  /\ Active /\ Top.pc \in {"flush", "last"}
  /\ \E n \in Seen :
       /\ n > 0
       /\ Write([i \in 1 .. n - 1 |-> outbuf[i - 1]])
  /\ AtTop([Top EXCEPT !.pc = IF @ = "flush" THEN "reset" ELSE "reset_last"])
  /\ UNCHANGED <<outlen, outbuf, count, calls, signals>>

FlushWrite ==
  /\ Active /\ Top.pc \in {"flush", "last"}
  /\ \E n \in Seen :
       /\ n > 0
       /\ Write([i \in 1 .. n |-> outbuf[i - 1]])
  /\ AtTop([Top EXCEPT !.pc = IF @ = "flush" THEN "reset" ELSE "reset_last"])
  /\ UNCHANGED <<outlen, outbuf, count, calls, signals>>

BugReset ==
  /\ Active /\ Top.pc \in {"reset", "reset_last"} /\ Resume
  /\ UNCHANGED <<outlen, outbuf, count, out, calls, signals, short>>

FlushReset ==
  /\ Active /\ Top.pc \in {"reset", "reset_last"} /\ Resume
  /\ outlen' = 0
  /\ UNCHANGED <<outbuf, count, out, calls, signals, short>>

-----------------------------------------------------------------------------
Running == Fetch \/ Bump \/ Store \/ Check \/ LastFlush
             \/ FlushEmpty \/ FlushWrite \/ FlushReset

\* The program is done: any other state has a step to take.
Terminating == ~Active /\ calls = MaxCalls /\ UNCHANGED vars

Next == Puts \/ Putchar \/ Signal \/ Running \/ Terminating

Spec == Init /\ [][Next]_vars

-----------------------------------------------------------------------------
(* What holds of it.                                                       *)

\* outbuf[outlen++] = c never stores past the array.  The slack of one byte
\* in emit's test (sizeof(outbuf) - 1) is what a handler that prints between
\* the increment and the test lives on.
InBounds ==
  \A i \in 1 .. Len(frames) :
    frames[i].pc = "put" /\ "store" \in frames[i].todo => frames[i].reg < Size

\* Between the program's calls the buffer is empty, whatever handlers did in
\* the middle of them: exit and the direct writers need no flush.
HeldBackNothing == ~Active => outlen = 0

\* A call nothing interrupted puts all of its text out before it returns, in
\* one piece and after everything printed before, even if it is a handler
\* that left its caller's bytes in the buffer.
WholeCalls ==
  [][ Active /\ Len(frames') < Len(frames) /\ ~Top.hit /\ short' = 0
        => IsSuffix([i \in 1 .. count - Top.first |-> Top.first + i], out') ]_vars

\* Without signals the bytes come out in the order they were printed in, each
\* at most once, the buffered and the direct calls mixed as they may be.
InOrder ==
  signals = 0 => \A i, j \in 1 .. Len(out) : i < j => out[i] < out[j]

\* While write takes what it is given, a handler that prints in the middle of
\* a call costs at most one byte of the program's output.
LostBound ==
  ~Active /\ short = 0 =>
    Cardinality((1 .. count) \ ToSet(out)) <= signals
=============================================================================
