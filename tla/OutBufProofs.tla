---------------------------- MODULE OutBufProofs ----------------------------
(***************************************************************************)
(* The output buffer, for buffers of any size, texts of any length and any *)
(* number of signals, calls and short writes.                              *)
(***************************************************************************)
EXTENDS OutBuf, SequenceTheorems, FiniteSetTheorems, TLAPS

-----------------------------------------------------------------------------
(* The inductive invariant.                                                *)

Frame ==
  [pc : {"emit", "put", "check", "flush", "last", "reset", "reset_last"},
   left : Nat, known : Nat \cup {Unknown}, reg : Nat, ch : Nat,
   todo : SUBSET {"bump", "store"}, first : Nat, hit : BOOLEAN]

IsSeq(s) == Len(s) \in Nat /\ s = [i \in 1 .. Len(s) |-> s[i]]

TypeOK ==
  /\ outlen \in Nat /\ count \in Nat /\ signals \in Nat /\ short \in Nat
  /\ frames \in Seq(Frame) /\ IsSeq(out)

\* Only the call on top was never interrupted, and it may have been.
NestOK ==
  /\ Len(frames) <= MaxNest + 1
  /\ \A i \in 1 .. Len(frames) - 1 : frames[i].hit
  /\ signals = 0 => \A i \in 1 .. Len(frames) : ~frames[i].hit

\* A handler leaves the buffer empty; a call nothing interrupted knows what
\* outlen is.
KnownOK ==
  IF Active
  THEN /\ outlen = 0 \/ Top.known \in {Unknown, outlen}
       /\ ~Top.hit =>
            /\ Top.known \in {Unknown, outlen}
            /\ Top.pc = "put" =>
                 outlen = IF "bump" \in Top.todo THEN Top.reg ELSE Top.reg + 1
  ELSE outlen = 0

Between == Active /\ Top.pc \in {"emit", "check", "flush", "last"}
Putting == Active /\ Top.pc = "put"
Written == Active /\ Top.pc \in {"reset", "reset_last"}

\* out ends with the bytes from after lo up to hi.
Ends(lo, hi) ==
  /\ hi - lo <= Len(out)
  /\ \A j \in 1 .. hi - lo : out[Len(out) - (hi - lo) + j] = lo + j

\* Of the bytes of this call up to c the last b are the last of the n in the
\* buffer, and the ones before are the last that were written: all are in the
\* buffer, or all of the buffer is theirs.
Kept(b, n, c) ==
  /\ b = c - Top.first \/ (b = n /\ b <= c - Top.first)
  /\ \A j \in 0 .. b - 1 : n - b + j \in DOMAIN outbuf /\ outbuf[n - b + j] = c - b + 1 + j
  /\ Ends(Top.first, c - b)

StoredOK == "store" \notin Top.todo => Top.reg \in DOMAIN outbuf /\ outbuf[Top.reg] = count

WholeOK ==
  Active /\ ~Top.hit /\ short = 0 =>
    /\ Top.first <= count
    /\ Between => \E b \in 0 .. outlen : Kept(b, outlen, count)
    /\ Putting => /\ Top.first < count /\ Top.ch = count /\ StoredOK
                  /\ \E b \in 0 .. Top.reg : Kept(b, Top.reg, count - 1)
    /\ Written => Ends(Top.first, count)

\* The buffer holds the last n of c bytes, and what is out was before them.
Held(n, c) ==
  /\ n <= c
  /\ \A i \in 0 .. n - 1 : i \in DOMAIN outbuf /\ outbuf[i] = c - n + 1 + i
  /\ \A i \in 1 .. Len(out) : out[i] <= c - n

OrderOK ==
  signals = 0 =>
    /\ \A i \in 1 .. Len(out) : out[i] \in Nat
    /\ \A i, j \in 1 .. Len(out) : i < j => out[i] < out[j]
    /\ Between => Held(outlen, count)
    /\ Putting => Top.ch = count /\ StoredOK /\ Held(Top.reg, count - 1)
    /\ Written \/ ~Active => Held(0, count)

\* As long as handlers are not interrupted by handlers: the program's call
\* stays a byte away from the end, which is the byte a handler's call needs.
BoundsOK ==
  MaxNest <= 1 =>
    /\ Active =>
         /\ frames[1].known < Size
         /\ frames[1].pc = "emit" => frames[1].known < Size - 1
         /\ frames[1].pc = "put" => frames[1].reg < Size - 1
         /\ Len(frames) = 1 => outlen \in {0, frames[1].known}
    /\ Len(frames) = 2 =>
         /\ ~Top.hit
         /\ Top.pc = "emit" => outlen < Size
         /\ Top.pc = "put" => Top.reg < Size

IInv == TypeOK /\ NestOK /\ KnownOK /\ WholeOK /\ OrderOK /\ BoundsOK

-----------------------------------------------------------------------------
(* Frames and their stack.                                                 *)

PCs == {"emit", "put", "check", "flush", "last", "reset", "reset_last"}

\* A frame with one field changed is a frame.
LEMMA OneField ==
  ASSUME NEW r \in Frame
  PROVE  /\ \A v \in PCs : [r EXCEPT !.pc = v] \in Frame
         /\ \A v \in Nat : [r EXCEPT !.left = v] \in Frame
         /\ \A v \in Nat \cup {Unknown} : [r EXCEPT !.known = v] \in Frame
         /\ \A v \in Nat : [r EXCEPT !.reg = v] \in Frame
         /\ \A v \in Nat : [r EXCEPT !.ch = v] \in Frame
         /\ \A v \in SUBSET {"bump", "store"} : [r EXCEPT !.todo = v] \in Frame
         /\ \A v \in BOOLEAN : [r EXCEPT !.hit = v] \in Frame
BY DEF Frame, PCs

\* The combinations of them that the steps change together.
LEMMA Fields ==
  ASSUME NEW r \in Frame, NEW p \in PCs
  PROVE  /\ \A k \in Nat \cup {Unknown} : [r EXCEPT !.pc = p, !.known = k] \in Frame
         /\ \A T \in SUBSET {"bump", "store"} : [r EXCEPT !.pc = p, !.todo = T] \in Frame
         /\ \A T \in SUBSET {"bump", "store"}, k \in Nat \cup {Unknown} :
              [r EXCEPT !.pc = p, !.todo = T, !.known = k] \in Frame
         /\ \A T \in SUBSET {"bump", "store"}, l, g, c \in Nat :
              [r EXCEPT !.pc = p, !.left = l, !.reg = g, !.ch = c, !.todo = T] \in Frame
<1> DEFINE q == [r EXCEPT !.pc = p]
<1>1. q \in Frame
  BY OneField
<1>2. ASSUME NEW k \in Nat \cup {Unknown}
      PROVE  [r EXCEPT !.pc = p, !.known = k] \in Frame
  <2>1. [r EXCEPT !.pc = p, !.known = k] = [q EXCEPT !.known = k]
    OBVIOUS
  <2> HIDE DEF q
  <2> QED
    BY <1>1, <2>1, OneField
<1>3. ASSUME NEW T \in SUBSET {"bump", "store"}
      PROVE  [r EXCEPT !.pc = p, !.todo = T] \in Frame
  <2>1. [r EXCEPT !.pc = p, !.todo = T] = [q EXCEPT !.todo = T]
    OBVIOUS
  <2> HIDE DEF q
  <2> QED
    BY <1>1, <2>1, OneField
<1>4. ASSUME NEW T \in SUBSET {"bump", "store"}, NEW k \in Nat \cup {Unknown}
      PROVE  [r EXCEPT !.pc = p, !.todo = T, !.known = k] \in Frame
  <2> DEFINE s == [r EXCEPT !.pc = p, !.todo = T]
  <2>1. [r EXCEPT !.pc = p, !.todo = T, !.known = k] = [s EXCEPT !.known = k]
    OBVIOUS
  <2>2. s \in Frame
    BY <1>3
  <2> HIDE DEF s
  <2> QED
    BY <2>1, <2>2, OneField
<1>5. ASSUME NEW T \in SUBSET {"bump", "store"}, NEW l \in Nat, NEW g \in Nat, NEW c \in Nat
      PROVE  [r EXCEPT !.pc = p, !.left = l, !.reg = g, !.ch = c, !.todo = T] \in Frame
  <2> DEFINE s1 == [q EXCEPT !.left = l]
             s2 == [s1 EXCEPT !.reg = g]
             s3 == [s2 EXCEPT !.ch = c]
             s4 == [s3 EXCEPT !.todo = T]
  <2>1. [r EXCEPT !.pc = p, !.left = l, !.reg = g, !.ch = c, !.todo = T] = s4
    OBVIOUS
  <2> HIDE DEF q
  <2>2. s1 \in Frame
    BY <1>1, OneField
  <2> HIDE DEF s1
  <2>3. s2 \in Frame
    BY <2>2, OneField
  <2> HIDE DEF s2
  <2>4. s3 \in Frame
    BY <2>3, OneField
  <2> HIDE DEF s3
  <2>5. s4 \in Frame
    BY <2>4, OneField
  <2> QED
    BY <2>1, <2>5
<1> QED
  BY <1>2, <1>3, <1>4, <1>5

\* The call on top.
LEMMA TopIs ==
  ASSUME TypeOK, Active
  PROVE  /\ Len(frames) \in Nat \ {0} /\ Top = frames[Len(frames)] /\ Top \in Frame
         /\ Front(frames) \in Seq(Frame) /\ Len(Front(frames)) = Len(frames) - 1
         /\ \A i \in 1 .. Len(frames) - 1 : Front(frames)[i] = frames[i]
         /\ \A i \in 1 .. Len(frames) : frames[i] \in Frame
<1>1. frames \in Seq(Frame) /\ frames # <<>>
  BY DEF TypeOK, Active
<1>2. /\ Len(frames) \in Nat \ {0} /\ DOMAIN frames = 1 .. Len(frames)
      /\ \A i \in 1 .. Len(frames) : frames[i] \in Frame
  BY <1>1, EmptySeq, LenProperties
<1>3. \A i \in 1 .. Len(frames) - 1 : frames[i] \in Frame
  BY <1>2
<1>4. /\ Front(frames) \in Seq(Frame) /\ Len(Front(frames)) = Len(frames) - 1
      /\ \A i \in 1 .. Len(frames) - 1 : Front(frames)[i] = frames[i]
  BY <1>2, <1>3, SubSeqProperties DEF Front
<1>5. Top = frames[Len(frames)]
  BY DEF Top, Last
<1> QED
  BY <1>2, <1>4, <1>5

\* A step of the call on top leaves the others as they are.
SameBelow ==
  /\ frames' \in Seq(Frame) /\ Len(frames') = Len(frames)
  /\ Active /\ Active' /\ Len(frames) \in Nat \ {0}
  /\ Top' = frames'[Len(frames)] /\ Top = frames[Len(frames)]
  /\ \A i \in 1 .. Len(frames) - 1 : frames'[i] = frames[i]

\* A step of the call on top leaves the calls below it.
LEMMA AtTopIs ==
  ASSUME TypeOK, Active, NEW f \in Frame, AtTop(f)
  PROVE  SameBelow /\ Top' = f /\ Top \in Frame
<1>1. /\ Len(frames) \in Nat \ {0} /\ Top = frames[Len(frames)] /\ Top \in Frame
      /\ Front(frames) \in Seq(Frame) /\ Len(Front(frames)) = Len(frames) - 1
      /\ \A i \in 1 .. Len(frames) - 1 : Front(frames)[i] = frames[i]
  BY TopIs
<1>2. frames' = Append(Front(frames), f)
  BY <1>1, AppendIsConcat DEF AtTop
<1>3. /\ frames' \in Seq(Frame) /\ frames' # <<>> /\ Len(frames') = Len(frames)
      /\ \A i \in 1 .. Len(frames) - 1 : frames'[i] = frames[i]
      /\ frames'[Len(frames)] = f
  BY <1>1, <1>2, AppendProperties
<1>4. Top' = f
  BY <1>3 DEF Top, Last
<1> QED
  BY <1>1, <1>3, <1>4 DEF SameBelow, Active

\* A call that returns leaves those below.
Popped ==
  /\ frames' \in Seq(Frame) /\ Len(frames) \in Nat \ {0} /\ Len(frames') = Len(frames) - 1
  /\ \A i \in 1 .. Len(frames') : frames'[i] = frames[i]
  /\ Active' => Len(frames) > 1 /\ Top' = frames'[Len(frames')]
  /\ ~Active' => Len(frames') = 0

\* So does its return.
LEMMA PopIs ==
  ASSUME TypeOK, Active, frames' = Front(frames)
  PROVE  Popped
<1>1. /\ Len(frames) \in Nat \ {0}
      /\ frames' \in Seq(Frame) /\ Len(frames') = Len(frames) - 1
      /\ \A i \in 1 .. Len(frames) - 1 : frames'[i] = frames[i]
  BY TopIs
<1>2. frames' # <<>> => Len(frames') # 0
  BY <1>1, EmptySeq
<1>3. Top' = frames'[Len(frames')]
  BY DEF Top, Last
<1> QED
  BY <1>1, <1>2, <1>3, EmptySeq DEF Popped, Active

\* A step of the call on top changes no depth of handlers.
LEMMA NestKept ==
  ASSUME TypeOK, NestOK, SameBelow, Top'.hit = Top.hit, UNCHANGED signals
  PROVE  NestOK'
<1>1. \A i \in 1 .. Len(frames) : frames'[i].hit = frames[i].hit
  BY DEF SameBelow
<1> QED
  BY <1>1 DEF NestOK, SameBelow

\* A return leaves one frame and one handler less.
LEMMA NestPopped ==
  ASSUME NestOK, Popped, UNCHANGED signals
  PROVE  NestOK'
BY OutBufAssumption DEF NestOK, Popped

\* With at most one handler on top, the stack has one frame or two.
LEMMA OneOrTwo ==
  ASSUME TypeOK, NestOK, Active, MaxNest <= 1
  PROVE  Len(frames) \in {1, 2} /\ (Len(frames) = 1 => Top = frames[1])
BY TopIs, OutBufAssumption DEF NestOK

-----------------------------------------------------------------------------
(* The calls.                                                              *)

\* A call starts with nothing emitted.
LEMMA CallIs ==
  ASSUME TypeOK, NEW n \in Nat
  PROVE  /\ Call(n) \in Frame /\ Call(n).pc = "emit" /\ Call(n).known = Unknown
         /\ Call(n).first = count /\ ~Call(n).hit
BY DEF Call, Frame, TypeOK

\* A call of the program starts on an empty stack.
LEMMA PutsInv == IInv /\ Puts => IInv'
<1> SUFFICES ASSUME IInv, Puts PROVE IInv'
  OBVIOUS
<1>1. PICK n \in Nat : frames' = <<Call(n)>>
  BY OutBufAssumption DEF Puts
<1>2. ~Active /\ UNCHANGED <<outlen, outbuf, count, out, signals, short>>
  BY DEF Puts
<1> DEFINE c == Call(n)
<1>3. /\ c \in Frame /\ c.pc = "emit" /\ c.known = Unknown /\ c.first = count /\ ~c.hit
  BY CallIs DEF IInv
<1> HIDE DEF c
<1>4. /\ frames' \in Seq(Frame) /\ Len(frames') = 1 /\ frames'[1] = c /\ Top' = c /\ Active'
  BY <1>1, <1>3 DEF Top, Last, Active, c
<1>5. outlen = 0 /\ count \in Nat /\ IsSeq(out)
  BY <1>2 DEF IInv, KnownOK, TypeOK
<1>6. TypeOK' /\ KnownOK'
  BY <1>2, <1>3, <1>4, <1>5 DEF IInv, TypeOK, IsSeq, KnownOK
<1>7. NestOK'
  BY <1>3, <1>4, OutBufAssumption DEF NestOK
<1>8. WholeOK'
  <2>1. Ends(Top.first, count - 0)'
    BY <1>2, <1>3, <1>4, <1>5 DEF Ends, IsSeq
  <2>2. Kept(0, outlen, count)'
    BY <1>2, <1>3, <1>4, <1>5, <2>1 DEF Kept
  <2> QED
    BY <1>2, <1>3, <1>4, <1>5, <2>2 DEF WholeOK, Putting, Written
<1>9. OrderOK'
  <2>1. signals = 0 => Held(0, count)
    BY <1>2 DEF IInv, OrderOK
  <2>2. signals = 0 => Held(outlen, count)'
    BY <1>2, <1>5, <2>1 DEF Held
  <2> QED
    BY <1>2, <1>3, <1>4, <2>2 DEF IInv, OrderOK, Putting, Written
<1>10. BoundsOK'
  BY <1>2, <1>3, <1>4, <1>5, OutBufAssumption DEF BoundsOK, Unknown
<1> QED
  BY <1>6, <1>7, <1>8, <1>9, <1>10 DEF IInv

\* A handler starts on top, and its call is marked as hit.
LEMMA SignalInv == IInv /\ Signal => IInv'
<1> SUFFICES ASSUME IInv, Signal PROVE IInv'
  OBVIOUS
<1>1. PICK n \in Nat : frames' = Front(frames) \o <<[Top EXCEPT !.hit = TRUE], Call(n)>>
  BY OutBufAssumption DEF Signal
<1>2. /\ Active /\ UNCHANGED <<outlen, outbuf, count, out, short>>
      /\ signals' = signals + 1 /\ Len(frames) <= MaxNest
  BY DEF Signal
<1> DEFINE c == Call(n)
           r == [Top EXCEPT !.hit = TRUE]
<1>3. /\ c \in Frame /\ c.pc = "emit" /\ c.known = Unknown /\ c.first = count /\ ~c.hit
  BY CallIs DEF IInv
<1>4. /\ Len(frames) \in Nat \ {0} /\ Top = frames[Len(frames)] /\ Top \in Frame
      /\ Front(frames) \in Seq(Frame) /\ Len(Front(frames)) = Len(frames) - 1
      /\ \A i \in 1 .. Len(frames) - 1 : Front(frames)[i] = frames[i]
  BY <1>2, TopIs DEF IInv
<1>5. /\ r \in Frame /\ r.hit /\ r.pc = Top.pc /\ r.known = Top.known /\ r.reg = Top.reg
  <2>1. r \in Frame
    BY <1>4, OneField
  <2>2. r.hit /\ r.pc = Top.pc /\ r.known = Top.known /\ r.reg = Top.reg
    BY <1>4 DEF Frame
  <2> QED
    BY <2>1, <2>2
<1> HIDE DEF c, r
<1>6. /\ frames' \in Seq(Frame) /\ Len(frames') = Len(frames) + 1
      /\ \A i \in 1 .. Len(frames) - 1 : frames'[i] = frames[i]
      /\ frames'[Len(frames)] = r /\ frames'[Len(frames) + 1] = c
  <2>1. /\ <<r, c>> \in Seq(Frame) /\ Len(<<r, c>>) = 2
        /\ <<r, c>>[1] = r /\ <<r, c>>[2] = c /\ frames' = Front(frames) \o <<r, c>>
    BY <1>1, <1>3, <1>5 DEF c, r
  <2> DEFINE two == <<r, c>>
  <2> HIDE DEF two
  <2>2. /\ two \in Seq(Frame) /\ Len(two) = 2 /\ frames' = Front(frames) \o two
        /\ two[1] = r /\ two[2] = c
    BY <2>1 DEF two
  <2>3. /\ frames' \in Seq(Frame) /\ Len(frames') = Len(frames) - 1 + 2
        /\ \A i \in 1 .. Len(frames) - 1 + 2 :
             frames'[i] = IF i <= Len(frames) - 1 THEN Front(frames)[i]
                          ELSE two[i - (Len(frames) - 1)]
    <3> DEFINE below == Front(frames)
    <3>1. below \in Seq(Frame) /\ Len(below) = Len(frames) - 1 /\ frames' = below \o two
      BY <1>4, <2>2
    <3> HIDE DEF below
    <3>2. /\ below \o two \in Seq(Frame) /\ Len(below \o two) = Len(below) + Len(two)
          /\ \A i \in 1 .. Len(below) + Len(two) :
               (below \o two)[i] = IF i <= Len(below) THEN below[i] ELSE two[i - Len(below)]
      BY <2>2, <3>1, ConcatProperties
    <3> QED
      BY <2>2, <3>1, <3>2 DEF below
  <2> QED
    BY <1>4, <2>2, <2>3
<1>7. Top' = c /\ Active'
  BY <1>4, <1>6 DEF Top, Last, Active
<1>8. TypeOK' /\ KnownOK'
  BY <1>2, <1>3, <1>6, <1>7 DEF IInv, TypeOK, IsSeq, KnownOK
<1>9. NestOK'
  <2>1. \A i \in 1 .. Len(frames') - 1 : frames'[i].hit
    BY <1>4, <1>5, <1>6 DEF IInv, NestOK
  <2>2. signals' # 0 /\ Len(frames') <= MaxNest + 1
    BY <1>2, <1>4, <1>6, OutBufAssumption DEF IInv, TypeOK
  <2> QED
    BY <2>1, <2>2 DEF NestOK
<1>10. WholeOK'
  <2>0. count \in Nat /\ outlen \in Nat /\ IsSeq(out)
    BY DEF IInv, TypeOK
  <2>1. Ends(Top.first, count - 0)'
    BY <1>2, <1>3, <1>7, <2>0 DEF Ends, IsSeq
  <2>2. Kept(0, outlen, count)'
    BY <1>2, <1>3, <1>7, <2>0, <2>1 DEF Kept
  <2> QED
    BY <1>2, <1>3, <1>7, <2>0, <2>2 DEF WholeOK, Putting, Written
<1>11. OrderOK'
  BY <1>2 DEF IInv, TypeOK, OrderOK
<1>12. BoundsOK'
  <2> SUFFICES ASSUME MaxNest <= 1 PROVE BoundsOK'
    BY DEF BoundsOK
  <2>1. Len(frames) = 1 /\ Top = frames[1] /\ frames'[1] = r
    BY <1>2, <1>4, <1>6, OutBufAssumption
  <2>2. /\ Top.known < Size /\ Top.pc = "emit" => Top.known < Size - 1
        /\ Top.pc = "put" => Top.reg < Size - 1 /\ outlen \in {0, Top.known}
    BY <1>2, <2>1 DEF IInv, BoundsOK
  <2> QED
    BY <1>2, <1>3, <1>5, <1>6, <1>7, <2>1, <2>2, OutBufAssumption DEF IInv, BoundsOK
<1> QED
  BY <1>8, <1>9, <1>10, <1>11, <1>12 DEF IInv

-----------------------------------------------------------------------------
(* emit.                                                                   *)

\* What may be seen of outlen.
LEMMA SeenIs ==
  ASSUME IInv, Active
  PROVE  /\ Seen \subseteq Nat /\ Top \in Frame
         /\ \A n \in Seen : n = outlen \/ (n = Top.known /\ outlen = 0)
         /\ ~Top.hit => Seen = {outlen}
<1>1. Top \in Frame /\ outlen \in Nat
  BY TopIs DEF IInv, TypeOK
<1>2. Top.known \in Nat \cup {Unknown}
  BY <1>1 DEF Frame
<1> QED
  BY <1>1, <1>2 DEF IInv, KnownOK, Seen

\* The index read is a length the buffer has at that moment.
LEMMA FetchInv == IInv /\ Fetch => IInv'
<1> SUFFICES ASSUME IInv, Fetch PROVE IInv'
  OBVIOUS
<1>1. PICK r \in Seen :
        AtTop([Top EXCEPT !.pc = "put", !.left = @ - 1, !.reg = r,
                          !.ch = count + 1, !.todo = {"bump", "store"}])
  BY DEF Fetch
<1>2. /\ Active /\ Top.pc = "emit" /\ Top.left > 0
      /\ count' = count + 1 /\ UNCHANGED <<outlen, outbuf, out, signals, short>>
  BY DEF Fetch
<1>3. /\ r \in Nat /\ Top \in Frame /\ (r = outlen \/ (r = Top.known /\ outlen = 0))
      /\ ~Top.hit => r = outlen
      /\ count \in Nat /\ outlen \in Nat /\ IsSeq(out)
  BY <1>2, SeenIs DEF IInv, TypeOK
<1> DEFINE f == [Top EXCEPT !.pc = "put", !.left = Top.left - 1, !.reg = r,
                            !.ch = count + 1, !.todo = {"bump", "store"}]
<1>4. f \in Frame
  <2>1. Top.left - 1 \in Nat /\ count + 1 \in Nat
    BY <1>2, <1>3 DEF Frame
  <2>2. "put" \in PCs /\ {"bump", "store"} \in SUBSET {"bump", "store"}
    BY DEF PCs
  <2> QED
    BY <1>3, <2>1, <2>2, Fields
<1>5. /\ f.pc = "put" /\ f.reg = r /\ f.ch = count + 1 /\ f.todo = {"bump", "store"}
      /\ f.known = Top.known /\ f.first = Top.first /\ f.hit = Top.hit
  BY <1>3 DEF Frame
<1>6. AtTop(f)
  BY <1>1
<1> HIDE DEF f
<1>7. SameBelow /\ Top' = f
  BY <1>2, <1>4, <1>6, AtTopIs DEF IInv
<1>8. TypeOK' /\ NestOK'
  BY <1>2, <1>3, <1>5, <1>7, NestKept DEF IInv, TypeOK, SameBelow, IsSeq
<1>9. KnownOK'
  BY <1>2, <1>3, <1>5, <1>7 DEF IInv, KnownOK, SameBelow
<1>10. WholeOK'
  <2> SUFFICES ASSUME ~Top'.hit, short' = 0 PROVE WholeOK'
    BY DEF WholeOK
  <2>1. PICK b \in 0 .. outlen : Kept(b, outlen, count)
    BY <1>2, <1>5, <1>7 DEF IInv, WholeOK, Between
  <2>2. Top.first <= count /\ Top.first \in Nat /\ r = outlen
    BY <1>2, <1>3, <1>5, <1>7 DEF IInv, WholeOK, Frame
  <2>3. Kept(b, Top.reg, count - 1)'
    <3>1. count' - 1 = count
      BY <1>2, <1>3
    <3>2. Ends(Top.first, count - b)
      BY <2>1 DEF Kept
    <3>3. Ends(Top.first, (count - 1) - b)'
      BY <1>2, <1>5, <1>7, <3>1, <3>2 DEF Ends
    <3> QED
      BY <1>2, <1>5, <1>7, <2>1, <2>2, <3>1, <3>3 DEF Kept
  <2> QED
    BY <1>2, <1>3, <1>5, <1>7, <2>2, <2>3 DEF WholeOK, Between, Written, StoredOK
<1>11. OrderOK'
  <2> SUFFICES ASSUME signals = 0 PROVE OrderOK'
    BY <1>2 DEF OrderOK
  <2>1. ~Top.hit /\ r = outlen
    BY <1>2, <1>3, TopIs DEF IInv, NestOK
  <2>2. Held(outlen, count)
    BY <1>2 DEF IInv, OrderOK, Between
  <2>3. Held(Top.reg, count - 1)'
    BY <1>2, <1>3, <1>5, <1>7, <2>1, <2>2 DEF Held
  <2> QED
    BY <1>2, <1>5, <1>7, <2>3 DEF IInv, OrderOK, Between, Written, StoredOK, SameBelow
<1>12. BoundsOK'
  <2> SUFFICES ASSUME MaxNest <= 1 PROVE BoundsOK'
    BY DEF BoundsOK
  <2>1. Len(frames) \in {1, 2} /\ (Len(frames) = 1 => Top = frames[1])
    BY <1>2, OneOrTwo DEF IInv
  <2>2. CASE Len(frames) = 1
    <3>1. Top.known < Size - 1 /\ outlen \in {0, Top.known}
      BY <1>2, <2>1, <2>2 DEF IInv, BoundsOK
    <3>2. frames'[1] = f /\ Len(frames') = 1
      BY <1>7, <2>2 DEF SameBelow
    <3>3. r < Size - 1
      BY <1>3, <3>1, OutBufAssumption
    <3> QED
      BY <1>2, <1>5, <2>1, <2>2, <3>1, <3>2, <3>3 DEF IInv, BoundsOK
  <2>3. CASE Len(frames) = 2
    <3>1. frames'[1] = frames[1] /\ Len(frames') = 2
      BY <1>7, <2>3 DEF SameBelow
    <3> QED
      BY <1>2, <1>3, <1>5, <1>7, <2>3, <3>1 DEF IInv, BoundsOK
  <2> QED
    BY <2>1, <2>2, <2>3
<1> QED
  BY <1>8, <1>9, <1>10, <1>11, <1>12 DEF IInv

\* The two ways a byte moves from under way into the buffer are the same for
\* what is kept of it.
LEMMA KeptMore ==
  ASSUME NEW n \in Nat, NEW c \in Nat, NEW b \in 0 .. n, Top.first \in Nat,
         Kept(b, n, c - 1), n \in DOMAIN outbuf, outbuf[n] = c
  PROVE  Kept(b + 1, n + 1, c)
<1>1. Ends(Top.first, c - (b + 1))
  <2>1. (c - 1) - b = c - (b + 1)
    OBVIOUS
  <2> QED
    BY <2>1 DEF Kept
<1>2. ASSUME NEW j \in 0 .. (b + 1) - 1
      PROVE  /\ (n + 1) - (b + 1) + j \in DOMAIN outbuf
             /\ outbuf[(n + 1) - (b + 1) + j] = c - (b + 1) + 1 + j
  <2>1. (n + 1) - (b + 1) + j = n - b + j
    OBVIOUS
  <2>2. CASE j = b
    BY <2>1, <2>2
  <2>3. CASE j # b
    <3>1. j \in 0 .. b - 1
      BY <2>3
    <3>2. n - b + j \in DOMAIN outbuf /\ outbuf[n - b + j] = (c - 1) - b + 1 + j
      BY <3>1 DEF Kept
    <3> QED
      BY <2>1, <3>2
  <2> QED
    BY <2>2, <2>3
<1>3. \/ b + 1 = c - Top.first
      \/ b + 1 = n + 1 /\ b + 1 <= c - Top.first
  BY DEF Kept
<1> QED
  BY <1>1, <1>2, <1>3 DEF Kept

\* A character stored behind those held makes one more.
LEMMA HeldMore ==
  ASSUME NEW n \in Nat, NEW c \in Nat, Held(n, c - 1), n \in DOMAIN outbuf, outbuf[n] = c
  PROVE  Held(n + 1, c)
<1>1. \A i \in 0 .. n : i \in DOMAIN outbuf /\ outbuf[i] = c - n + i
  BY DEF Held
<1> QED
  BY <1>1 DEF Held

\* The length is raised before or after the character is there.
LEMMA BumpInv == IInv /\ Bump => IInv'
<1> SUFFICES ASSUME IInv, Bump PROVE IInv'
  OBVIOUS
<1>1. /\ Active /\ Top.pc = "put" /\ "bump" \in Top.todo
      /\ outlen' = Top.reg + 1 /\ UNCHANGED <<outbuf, count, out, signals, short>>
  BY DEF Bump
<1>2. /\ Top \in Frame /\ Top.reg \in Nat /\ Top.first \in Nat
      /\ Top.todo \in SUBSET {"bump", "store"}
      /\ count \in Nat /\ outlen \in Nat /\ IsSeq(out)
  BY <1>1, SeenIs DEF IInv, TypeOK, Frame
<1> DEFINE f == [Top EXCEPT !.pc = Settled("bump"), !.todo = Top.todo \ {"bump"},
                            !.known = Top.reg + 1]
<1>3. Settled("bump") \in PCs /\ Settled("bump") \in {"put", "check"}
  BY DEF Settled, PCs
<1>4. f \in Frame
  <2>1. Top.todo \ {"bump"} \in SUBSET {"bump", "store"} /\ Top.reg + 1 \in Nat \cup {Unknown}
    BY <1>2
  <2> QED
    BY <1>2, <1>3, <2>1, Fields
<1>5. /\ f.pc = (IF Top.todo = {"bump"} THEN "check" ELSE "put")
      /\ f.todo = Top.todo \ {"bump"} /\ f.known = Top.reg + 1
      /\ f.reg = Top.reg /\ f.ch = Top.ch /\ f.first = Top.first /\ f.hit = Top.hit
  BY <1>2 DEF Frame, Settled
<1>6. AtTop(f)
  BY DEF Bump
<1> HIDE DEF f
<1>7. SameBelow /\ Top' = f
  BY <1>1, <1>4, <1>6, AtTopIs DEF IInv
<1>8. TypeOK' /\ NestOK'
  BY <1>1, <1>2, <1>5, <1>7, NestKept DEF IInv, TypeOK, SameBelow, IsSeq
<1>9. KnownOK'
  BY <1>1, <1>2, <1>5, <1>7 DEF KnownOK, SameBelow
<1>10. f.pc = "check" => "store" \notin Top.todo
  BY <1>5
<1>11. WholeOK'
  <2> SUFFICES ASSUME ~Top'.hit, short' = 0 PROVE WholeOK'
    BY DEF WholeOK
  <2>1. Top.first < count /\ Top.ch = count /\ StoredOK
    BY <1>1, <1>5, <1>7 DEF IInv, WholeOK, Putting
  <2>2. PICK b \in 0 .. Top.reg : Kept(b, Top.reg, count - 1)
    BY <1>1, <1>5, <1>7 DEF IInv, WholeOK, Putting
  <2>3. CASE f.pc = "check"
    <3>1. Kept(b + 1, Top.reg + 1, count)
      BY <1>2, <1>10, <2>1, <2>2, <2>3, KeptMore DEF StoredOK
    <3>2. Kept(b + 1, outlen, count)'
      BY <1>1, <1>5, <1>7, <3>1 DEF Kept, Ends
    <3>3. b + 1 \in 0 .. outlen'
      BY <1>1, <1>2
    <3> QED
      BY <1>1, <1>2, <1>5, <1>7, <2>1, <2>3, <3>2, <3>3 DEF WholeOK, Putting, Written
  <2>4. CASE f.pc = "put"
    <3>1. Kept(b, Top.reg, count - 1)'
      BY <1>1, <1>5, <1>7, <2>2 DEF Kept, Ends
    <3>2. StoredOK'
      BY <1>1, <1>5, <1>7, <2>1 DEF StoredOK
    <3> QED
      BY <1>1, <1>2, <1>5, <1>7, <2>1, <2>4, <3>1, <3>2 DEF WholeOK, Between, Written
  <2> QED
    BY <1>5, <2>3, <2>4
<1>12. OrderOK'
  <2> SUFFICES ASSUME signals = 0 PROVE OrderOK'
    BY <1>1 DEF OrderOK
  <2>1. Top.ch = count /\ StoredOK /\ Held(Top.reg, count - 1)
    BY <1>1 DEF IInv, OrderOK, Putting
  <2>2. CASE f.pc = "check"
    <3>1. Held(Top.reg + 1, count)
      BY <1>2, <1>10, <2>1, <2>2, HeldMore DEF StoredOK
    <3>2. Held(outlen, count)'
      BY <1>1, <3>1 DEF Held
    <3> QED
      BY <1>1, <1>5, <1>7, <2>2, <3>2 DEF IInv, OrderOK, Putting, Written, SameBelow
  <2>3. CASE f.pc = "put"
    <3>1. Held(Top.reg, count - 1)' /\ StoredOK'
      BY <1>1, <1>5, <1>7, <2>1 DEF Held, StoredOK
    <3> QED
      BY <1>1, <1>5, <1>7, <2>1, <2>3, <3>1 DEF IInv, OrderOK, Between, Written, SameBelow
  <2> QED
    BY <1>5, <2>2, <2>3
<1>13. BoundsOK'
  <2> SUFFICES ASSUME MaxNest <= 1 PROVE BoundsOK'
    BY DEF BoundsOK
  <2>1. Len(frames) \in {1, 2} /\ (Len(frames) = 1 => Top = frames[1])
    BY <1>1, OneOrTwo DEF IInv
  <2>2. CASE Len(frames) = 1
    <3>1. Top.reg < Size - 1
      BY <1>1, <2>1, <2>2 DEF IInv, BoundsOK
    <3>2. frames'[1] = f /\ Len(frames') = 1
      BY <1>7, <2>2 DEF SameBelow
    <3> QED
      BY <1>1, <1>2, <1>5, <2>2, <3>1, <3>2, OutBufAssumption DEF BoundsOK
  <2>3. CASE Len(frames) = 2
    <3>1. frames'[1] = frames[1] /\ Len(frames') = 2
      BY <1>7, <2>3 DEF SameBelow
    <3> QED
      BY <1>1, <1>2, <1>5, <1>7, <2>3, <3>1 DEF IInv, BoundsOK
  <2> QED
    BY <2>1, <2>2, <2>3
<1> QED
  BY <1>8, <1>9, <1>11, <1>12, <1>13 DEF IInv

\* The character goes to the index read.
LEMMA StoreInv == IInv /\ Store => IInv'
<1> SUFFICES ASSUME IInv, Store PROVE IInv'
  OBVIOUS
<1>1. /\ Active /\ Top.pc = "put" /\ "store" \in Top.todo
      /\ outbuf' = [i \in DOMAIN outbuf \cup {Top.reg} |-> IF i = Top.reg THEN Top.ch ELSE outbuf[i]]
      /\ UNCHANGED <<outlen, count, out, signals, short>>
  BY DEF Store
<1>2. /\ Top \in Frame /\ Top.reg \in Nat /\ Top.first \in Nat
      /\ Top.todo \in SUBSET {"bump", "store"}
      /\ count \in Nat /\ outlen \in Nat /\ IsSeq(out)
  BY <1>1, SeenIs DEF IInv, TypeOK, Frame
<1> DEFINE f == [Top EXCEPT !.pc = Settled("store"), !.todo = Top.todo \ {"store"}]
<1>3. Settled("store") \in PCs
  BY DEF Settled, PCs
<1>4. f \in Frame
  BY <1>2, <1>3, Fields
<1>5. /\ f.pc = (IF Top.todo = {"store"} THEN "check" ELSE "put")
      /\ f.todo = Top.todo \ {"store"} /\ f.known = Top.known
      /\ f.reg = Top.reg /\ f.ch = Top.ch /\ f.first = Top.first /\ f.hit = Top.hit
  BY <1>2 DEF Frame, Settled
<1>6. AtTop(f)
  BY DEF Store
<1> HIDE DEF f
<1>7. SameBelow /\ Top' = f
  BY <1>1, <1>4, <1>6, AtTopIs DEF IInv
<1>8. TypeOK' /\ NestOK'
  BY <1>1, <1>2, <1>5, <1>7, NestKept DEF IInv, TypeOK, SameBelow, IsSeq
<1>9. KnownOK'
  BY <1>1, <1>2, <1>5, <1>7 DEF IInv, KnownOK, SameBelow
<1>10. /\ Top.reg \in DOMAIN outbuf' /\ outbuf'[Top.reg] = Top.ch
       /\ DOMAIN outbuf \subseteq DOMAIN outbuf'
       /\ \A i \in DOMAIN outbuf : i # Top.reg => outbuf'[i] = outbuf[i]
  BY <1>1
<1>11. f.pc = "check" => "bump" \notin Top.todo
  BY <1>5
<1>12. WholeOK'
  <2> SUFFICES ASSUME ~Top'.hit, short' = 0 PROVE WholeOK'
    BY DEF WholeOK
  <2>1. Top.first < count /\ Top.ch = count
    BY <1>1, <1>5, <1>7 DEF IInv, WholeOK, Putting
  <2>2. PICK b \in 0 .. Top.reg : Kept(b, Top.reg, count - 1)
    BY <1>1, <1>5, <1>7 DEF IInv, WholeOK, Putting
  <2>3. /\ b = (count - 1) - Top.first \/ (b = Top.reg /\ b <= (count - 1) - Top.first)
        /\ \A j \in 0 .. b - 1 :
             /\ Top.reg - b + j \in DOMAIN outbuf'
             /\ outbuf'[Top.reg - b + j] = (count - 1) - b + 1 + j
        /\ Ends(Top.first, (count - 1) - b)
    <3>1. ASSUME NEW j \in 0 .. b - 1
          PROVE  Top.reg - b + j \in Nat /\ Top.reg - b + j # Top.reg
      BY <1>2
    <3>2. ASSUME NEW j \in 0 .. b - 1
          PROVE  /\ Top.reg - b + j \in DOMAIN outbuf
                 /\ outbuf[Top.reg - b + j] = (count - 1) - b + 1 + j
      BY <2>2 DEF Kept
    <3>3. \A j \in 0 .. b - 1 : 
             /\ Top.reg - b + j \in DOMAIN outbuf'
             /\ outbuf'[Top.reg - b + j] = (count - 1) - b + 1 + j
      BY <1>10, <3>1, <3>2
    <3> QED
      BY <2>2, <3>3 DEF Kept
  <2>4. Kept(b, Top.reg, count - 1)'
    BY <1>1, <1>5, <1>7, <2>3 DEF Kept, Ends
  <2>5. CASE f.pc = "check"
    <3>1. outlen' = Top.reg + 1
      BY <1>1, <1>5, <1>7, <1>11, <2>5 DEF IInv, KnownOK
    <3>2. Kept(b + 1, outlen, count)'
      <4>1. Ends(Top.first, count - (b + 1))'
        <5>1. (count - 1) - b = count - (b + 1)
          BY <1>2
        <5> QED
          BY <1>1, <1>5, <1>7, <2>3, <5>1 DEF Ends
      <4>2. ASSUME NEW j \in 0 .. (b + 1) - 1
            PROVE  /\ outlen' - (b + 1) + j \in DOMAIN outbuf'
                   /\ outbuf'[outlen' - (b + 1) + j] = count - (b + 1) + 1 + j
        <5>1. outlen' - (b + 1) + j = Top.reg - b + j
          BY <1>2, <3>1
        <5>2. CASE j = b
          BY <1>2, <1>10, <2>1, <5>1, <5>2
        <5>3. CASE j # b
          <6>1. j \in 0 .. b - 1
            BY <5>3
          <6>2. outbuf'[Top.reg - b + j] = (count - 1) - b + 1 + j
            BY <2>3, <6>1
          <6> QED
            BY <1>2, <2>3, <5>1, <6>1, <6>2
        <5> QED
          BY <5>2, <5>3
      <4>3. b + 1 = count - Top.first \/ (b + 1 = outlen' /\ b + 1 <= count - Top.first)
        BY <1>2, <2>3, <3>1
      <4> QED
        BY <1>1, <1>5, <1>7, <4>1, <4>2, <4>3 DEF Kept
    <3>3. b + 1 \in 0 .. outlen'
      BY <1>2, <3>1
    <3> QED
      BY <1>1, <1>2, <1>5, <1>7, <2>1, <2>5, <3>2, <3>3 DEF WholeOK, Putting, Written
  <2>6. CASE f.pc = "put"
    <3>1. StoredOK'
      BY <1>1, <1>5, <1>7, <1>10, <2>1 DEF StoredOK
    <3> QED
      BY <1>1, <1>2, <1>5, <1>7, <2>1, <2>4, <2>6, <3>1 DEF WholeOK, Between, Written
  <2> QED
    BY <1>5, <2>5, <2>6
<1>13. OrderOK'
  <2> SUFFICES ASSUME signals = 0 PROVE OrderOK'
    BY <1>1 DEF OrderOK
  <2>1. Top.ch = count /\ Held(Top.reg, count - 1) /\ ~Top.hit
    BY <1>1, TopIs DEF IInv, OrderOK, Putting, NestOK
  <2>2. /\ Top.reg <= count - 1
        /\ \A i \in 0 .. Top.reg - 1 : i \in DOMAIN outbuf' /\ outbuf'[i] = (count - 1) - Top.reg + 1 + i
        /\ \A i \in 1 .. Len(out) : out[i] <= (count - 1) - Top.reg
    BY <1>2, <1>10, <2>1 DEF Held
  <2>3. CASE f.pc = "check"
    <3>1. outlen' = Top.reg + 1
      BY <1>1, <1>5, <1>7, <1>11, <2>1, <2>3 DEF IInv, KnownOK
    <3>2. \A i \in 0 .. Top.reg : i \in DOMAIN outbuf' /\ outbuf'[i] = (count - 1) - Top.reg + 1 + i
      <4>1. ASSUME NEW i \in 0 .. Top.reg
            PROVE  i \in DOMAIN outbuf' /\ outbuf'[i] = (count - 1) - Top.reg + 1 + i
        <5>1. CASE i = Top.reg
          BY <1>2, <1>10, <2>1, <5>1
        <5>2. CASE i # Top.reg
          <6>1. i \in 0 .. Top.reg - 1
            BY <1>2, <5>2
          <6> QED
            BY <2>2, <6>1
        <5> QED
          BY <5>1, <5>2
      <4> QED
        BY <4>1
    <3>3. Held(outlen, count)'
      <4>1. outlen' <= count' /\ (count - 1) - Top.reg = count' - outlen'
        <5>1. count' = count
          BY <1>1
        <5>2. Top.reg <= count - 1
          BY <2>2
        <5> QED
          BY <1>2, <3>1, <5>1, <5>2
      <4>2. \A i \in 0 .. outlen' - 1 : i \in DOMAIN outbuf' /\ outbuf'[i] = count' - outlen' + 1 + i
        BY <1>2, <3>1, <3>2, <4>1
      <4> QED
        BY <1>1, <2>2, <4>1, <4>2 DEF Held
    <3> QED
      BY <1>1, <1>5, <1>7, <2>3, <3>3 DEF IInv, OrderOK, Putting, Written, SameBelow
  <2>4. CASE f.pc = "put"
    <3>1. Held(Top.reg, count - 1)' /\ StoredOK'
      BY <1>1, <1>5, <1>7, <1>10, <2>1, <2>2 DEF Held, StoredOK
    <3> QED
      BY <1>1, <1>5, <1>7, <2>1, <2>4, <3>1 DEF IInv, OrderOK, Between, Written, SameBelow
  <2> QED
    BY <1>5, <2>3, <2>4
<1>14. BoundsOK'
  <2> SUFFICES ASSUME MaxNest <= 1 PROVE BoundsOK'
    BY DEF BoundsOK
  <2>1. Len(frames) \in {1, 2} /\ (Len(frames) = 1 => Top = frames[1])
    BY <1>1, OneOrTwo DEF IInv
  <2>2. CASE Len(frames) = 1
    <3>1. /\ Top.reg < Size - 1 /\ Top.known < Size /\ outlen \in {0, Top.known}
      BY <1>1, <2>1, <2>2 DEF IInv, BoundsOK
    <3>2. frames'[1] = f /\ Len(frames') = 1
      BY <1>7, <2>2 DEF SameBelow
    <3> QED
      BY <1>1, <1>2, <1>5, <2>2, <3>1, <3>2 DEF BoundsOK
  <2>3. CASE Len(frames) = 2
    <3>1. frames'[1] = frames[1] /\ Len(frames') = 2
      BY <1>7, <2>3 DEF SameBelow
    <3> QED
      BY <1>1, <1>2, <1>5, <1>7, <2>3, <3>1 DEF IInv, BoundsOK
  <2> QED
    BY <2>1, <2>2, <2>3
<1> QED
  BY <1>8, <1>9, <1>12, <1>13, <1>14 DEF IInv

\* A step of the call on top from one place between bytes to another.
LEMMA BetweenKept ==
  ASSUME IInv, Between, NEW f \in Frame, AtTop(f),
         f.pc \in {"emit", "check", "flush", "last"},
         f.first = Top.first, f.hit = Top.hit,
         UNCHANGED <<outlen, outbuf, count, out, signals, short>>
  PROVE  TypeOK' /\ NestOK' /\ WholeOK' /\ OrderOK' /\ SameBelow /\ Top' = f
<1>1. SameBelow /\ Top' = f
  BY AtTopIs DEF IInv, Between
<1>2. TypeOK' /\ NestOK'
  BY <1>1, NestKept DEF IInv, TypeOK, SameBelow, IsSeq
<1>3. WholeOK'
  <2> SUFFICES ASSUME ~Top'.hit, short' = 0 PROVE WholeOK'
    BY DEF WholeOK
  <2>1. Top.first <= count
    BY <1>1 DEF IInv, WholeOK, Between
  <2>2. PICK b \in 0 .. outlen : Kept(b, outlen, count)
    BY <1>1 DEF IInv, WholeOK, Between
  <2>3. Kept(b, outlen, count)'
    BY <1>1, <2>2 DEF Kept, Ends
  <2> QED
    BY <1>1, <2>1, <2>3 DEF WholeOK, Putting, Written
<1>4. OrderOK'
  <2> SUFFICES ASSUME signals = 0 PROVE OrderOK'
    BY DEF OrderOK
  <2>1. Held(outlen, count)
    BY DEF IInv, OrderOK
  <2>2. Held(outlen, count)'
    BY <2>1 DEF Held
  <2> QED
    BY <1>1, <2>2 DEF IInv, OrderOK, Putting, Written, SameBelow
<1> QED
  BY <1>1, <1>2, <1>3, <1>4

\* A buffer that is full is flushed, any other is not.
LEMMA CheckInv == IInv /\ Check => IInv'
<1> SUFFICES ASSUME IInv, Check PROVE IInv'
  OBVIOUS
<1>1. PICK n \in Seen :
        AtTop([Top EXCEPT !.pc = IF Full(n) THEN "flush" ELSE "emit", !.known = n])
  BY DEF Check
<1>2. Active /\ Top.pc = "check" /\ UNCHANGED <<outlen, outbuf, count, out, signals, short>>
  BY DEF Check
<1>3. /\ Top \in Frame /\ n \in Nat /\ (n = outlen \/ (n = Top.known /\ outlen = 0))
      /\ ~Top.hit => n = outlen
      /\ outlen \in Nat
  BY <1>2, SeenIs DEF IInv, TypeOK
<1> DEFINE p == IF Full(n) THEN "flush" ELSE "emit"
           f == [Top EXCEPT !.pc = p, !.known = n]
<1>4. f \in Frame
  <2>1. p \in PCs
    BY DEF PCs
  <2> QED
    BY <1>3, <2>1, Fields
<1>5. f.pc = p /\ f.known = n /\ f.reg = Top.reg /\ f.first = Top.first /\ f.hit = Top.hit
  BY <1>3 DEF Frame
<1>6. p \in {"emit", "flush"} /\ (p = "emit" => n < Size - 1)
  BY <1>3, OutBufAssumption DEF Full
<1>7. AtTop(f)
  BY <1>1
<1> HIDE DEF f, p
<1>8. TypeOK' /\ NestOK' /\ WholeOK' /\ OrderOK' /\ SameBelow /\ Top' = f
  BY <1>2, <1>4, <1>5, <1>6, <1>7, BetweenKept DEF Between
<1>9. KnownOK'
  BY <1>2, <1>3, <1>5, <1>6, <1>8 DEF KnownOK, SameBelow
<1>10. BoundsOK'
  <2> SUFFICES ASSUME MaxNest <= 1 PROVE BoundsOK'
    BY DEF BoundsOK
  <2>1. Len(frames) \in {1, 2} /\ (Len(frames) = 1 => Top = frames[1])
    BY <1>2, OneOrTwo DEF IInv
  <2>2. CASE Len(frames) = 1
    <3>1. Top.known < Size /\ outlen \in {0, Top.known}
      BY <1>2, <2>1, <2>2 DEF IInv, BoundsOK
    <3>2. frames'[1] = f /\ Len(frames') = 1
      BY <1>8, <2>2 DEF SameBelow
    <3>3. n < Size /\ outlen \in {0, n}
      BY <1>3, <3>1, OutBufAssumption
    <3> QED
      BY <1>2, <1>5, <1>6, <2>2, <3>2, <3>3 DEF BoundsOK
  <2>3. CASE Len(frames) = 2
    <3>1. frames'[1] = frames[1] /\ Len(frames') = 2
      BY <1>8, <2>3 DEF SameBelow
    <3>2. ~Top.hit /\ n = outlen
      BY <1>2, <1>3, <2>3 DEF IInv, BoundsOK
    <3> QED
      BY <1>2, <1>3, <1>5, <1>6, <1>8, <2>3, <3>1, <3>2, OutBufAssumption DEF IInv, BoundsOK
  <2> QED
    BY <2>1, <2>2, <2>3
<1> QED
  BY <1>8, <1>9, <1>10 DEF IInv

\* The call has emitted everything and flushes.
LEMMA LastFlushInv == IInv /\ LastFlush => IInv'
<1> SUFFICES ASSUME IInv, LastFlush PROVE IInv'
  OBVIOUS
<1>1. Active /\ Top.pc = "emit" /\ UNCHANGED <<outlen, outbuf, count, out, signals, short>>
  BY DEF LastFlush
<1> DEFINE f == [Top EXCEPT !.pc = "last"]
<1>2. Top \in Frame
  BY <1>1, SeenIs
<1>3. f \in Frame /\ f.pc = "last"
  <2>1. f \in Frame
    BY <1>2, OneField DEF PCs
  <2>2. f.pc = "last"
    BY <1>2 DEF Frame
  <2> QED
    BY <2>1, <2>2
<1>4. f.known = Top.known /\ f.first = Top.first /\ f.hit = Top.hit
  BY <1>2 DEF Frame
<1>5. AtTop(f)
  BY DEF LastFlush
<1> HIDE DEF f
<1>6. TypeOK' /\ NestOK' /\ WholeOK' /\ OrderOK' /\ SameBelow /\ Top' = f
  BY <1>1, <1>3, <1>4, <1>5, BetweenKept DEF Between
<1>7. KnownOK'
  BY <1>1, <1>3, <1>4, <1>6 DEF IInv, KnownOK, SameBelow
<1>8. BoundsOK'
  <2> SUFFICES ASSUME MaxNest <= 1 PROVE BoundsOK'
    BY DEF BoundsOK
  <2>1. Len(frames) \in {1, 2} /\ (Len(frames) = 1 => Top = frames[1])
    BY <1>1, OneOrTwo DEF IInv
  <2>2. CASE Len(frames) = 1
    <3>1. frames'[1] = f /\ Len(frames') = 1
      BY <1>6, <2>2 DEF SameBelow
    <3> QED
      BY <1>1, <1>3, <1>4, <2>1, <2>2, <3>1 DEF IInv, BoundsOK
  <2>3. CASE Len(frames) = 2
    <3>1. frames'[1] = frames[1] /\ Len(frames') = 2
      BY <1>6, <2>3 DEF SameBelow
    <3> QED
      BY <1>1, <1>3, <1>4, <1>6, <2>3, <3>1 DEF IInv, BoundsOK
  <2> QED
    BY <2>1, <2>2, <2>3
<1> QED
  BY <1>6, <1>7, <1>8 DEF IInv

-----------------------------------------------------------------------------
(* flush.                                                                  *)

\* All of the text of the call on top is out, if nothing interrupted it, and
\* nothing is left to write if no signal ever came.
AllOut ==
  /\ ~Top.hit /\ short = 0 => Top.first <= count /\ Ends(Top.first, count)
  /\ signals = 0 => Held(0, count)

\* Where a flush ends, in the middle of a call or with it.
LEMMA ResumeInv ==
  ASSUME IInv, Active, Resume, AllOut, outlen' = 0,
         UNCHANGED <<outbuf, count, out, signals, short>>
  PROVE  IInv'
<1>0. Top \in Frame /\ count \in Nat /\ IsSeq(out)
  BY SeenIs DEF IInv, TypeOK
<1>1. CASE Top.pc \in {"last", "reset_last"}
  <2>1. Popped
    BY <1>1, PopIs DEF IInv, Resume
  <2>2. TypeOK' /\ NestOK'
    BY <2>1, NestPopped DEF IInv, TypeOK, Popped, IsSeq
  <2>3. Active' => Top'.hit /\ signals # 0
    <3> SUFFICES ASSUME Active' PROVE Top'.hit /\ signals # 0
      OBVIOUS
    <3>1. Len(frames') \in 1 .. Len(frames) - 1 /\ Top' = frames[Len(frames')]
      BY <2>1 DEF Popped
    <3>2. Top'.hit
      BY <3>1 DEF IInv, NestOK
    <3>3. Len(frames') \in 1 .. Len(frames)
      BY <2>1, <3>1 DEF Popped
    <3> QED
      BY <3>1, <3>2, <3>3 DEF IInv, NestOK
  <2>4. KnownOK' /\ WholeOK'
    BY <2>3 DEF KnownOK, WholeOK
  <2>5. OrderOK'
    <3>1. signals = 0 => Held(0, count)'
      BY DEF AllOut, Held
    <3> QED
      BY <2>3, <3>1 DEF IInv, OrderOK, Between, Putting
  <2>6. BoundsOK'
    <3> SUFFICES ASSUME MaxNest <= 1 PROVE BoundsOK'
      BY DEF BoundsOK
    <3>1. Len(frames) \in {1, 2}
      BY OneOrTwo DEF IInv
    <3>2. Active' => frames'[1] = frames[1]
      BY <2>1, <3>1 DEF Popped
    <3> QED
      BY <2>1, <3>1, <3>2 DEF IInv, BoundsOK, Popped
  <2> QED
    BY <2>2, <2>4, <2>5, <2>6 DEF IInv
<1>2. CASE Top.pc \notin {"last", "reset_last"}
  <2> DEFINE f == [Top EXCEPT !.pc = "emit", !.known = 0]
  <2>1. f \in Frame
    <3>1. "emit" \in PCs /\ 0 \in Nat \cup {Unknown}
      BY DEF PCs
    <3> QED
      BY <1>0, <3>1, Fields
  <2>2. f.pc = "emit" /\ f.known = 0 /\ f.first = Top.first /\ f.hit = Top.hit
    BY <1>0 DEF Frame
  <2>3. AtTop(f)
    BY <1>2 DEF Resume
  <2> HIDE DEF f
  <2>4. SameBelow /\ Top' = f
    BY <2>1, <2>3, AtTopIs DEF IInv
  <2>5. TypeOK' /\ NestOK' /\ KnownOK'
    BY <2>2, <2>4, NestKept DEF IInv, TypeOK, SameBelow, IsSeq, KnownOK
  <2>6. WholeOK'
    <3> SUFFICES ASSUME ~Top'.hit, short' = 0 PROVE WholeOK'
      BY DEF WholeOK
    <3>1. Top.first <= count /\ Ends(Top.first, count) /\ Top.first \in Nat
      BY <1>0, <2>2, <2>4 DEF AllOut, Frame
    <3>2. Ends(Top.first, count - 0)'
      BY <1>0, <2>2, <2>4, <3>1 DEF Ends
    <3>3. Kept(0, outlen, count)'
      BY <1>0, <2>2, <2>4, <3>1, <3>2 DEF Kept
    <3> QED
      BY <2>2, <2>4, <3>1, <3>3 DEF WholeOK, Putting, Written
  <2>7. OrderOK'
    <3>1. signals = 0 => Held(outlen, count)'
      BY DEF AllOut, Held
    <3> QED
      BY <2>2, <2>4, <3>1 DEF IInv, OrderOK, Putting, Written, SameBelow
  <2>8. BoundsOK'
    <3> SUFFICES ASSUME MaxNest <= 1 PROVE BoundsOK'
      BY DEF BoundsOK
    <3>1. Len(frames) \in {1, 2} /\ (Len(frames) = 1 => Top = frames[1])
      BY OneOrTwo DEF IInv
    <3>2. CASE Len(frames) = 1
      <4>1. frames'[1] = f /\ Len(frames') = 1
        BY <2>4, <3>2 DEF SameBelow
      <4> QED
        BY <2>2, <4>1, OutBufAssumption DEF BoundsOK
    <3>3. CASE Len(frames) = 2
      <4>1. frames'[1] = frames[1] /\ Len(frames') = 2
        BY <2>4, <3>3 DEF SameBelow
      <4> QED
        BY <2>2, <2>4, <3>3, <4>1, OutBufAssumption DEF IInv, BoundsOK
    <3> QED
      BY <3>1, <3>2, <3>3
  <2> QED
    BY <2>5, <2>6, <2>7, <2>8 DEF IInv
<1> QED
  BY <1>1, <1>2

\* Where a flush finds nothing, everything is out.
LEMMA EmptyIsOut ==
  ASSUME IInv, FlushEmpty
  PROVE  AllOut /\ outlen = 0
<1>1. Active /\ Between /\ 0 \in Seen
  BY DEF FlushEmpty, Between
<1>2. outlen = 0 /\ count \in Nat /\ Top \in Frame
  BY <1>1, SeenIs DEF IInv, TypeOK
<1>3. ~Top.hit /\ short = 0 => Top.first <= count /\ Ends(Top.first, count)
  <2> SUFFICES ASSUME ~Top.hit, short = 0 PROVE Top.first <= count /\ Ends(Top.first, count)
    OBVIOUS
  <2>1. PICK b \in 0 .. outlen : Kept(b, outlen, count)
    BY <1>1 DEF IInv, WholeOK
  <2>2. b = 0 /\ count - b = count
    BY <1>2
  <2>3. Ends(Top.first, count)
    BY <2>1, <2>2 DEF Kept
  <2> QED
    BY <1>1, <2>3 DEF IInv, WholeOK
<1>4. signals = 0 => Held(0, count)
  BY <1>1, <1>2 DEF IInv, OrderOK
<1> QED
  BY <1>2, <1>3, <1>4 DEF AllOut

\* Such a flush returns at once.
LEMMA FlushEmptyInv == IInv /\ FlushEmpty => IInv'
<1> SUFFICES ASSUME IInv, FlushEmpty PROVE IInv'
  OBVIOUS
<1>1. Active /\ Resume /\ UNCHANGED <<outlen, outbuf, count, out, signals, short>>
  BY DEF FlushEmpty
<1> QED
  BY <1>1, EmptyIsOut, ResumeInv

\* Where a flush is about to reset the length, everything is out.
LEMMA ResetIsOut ==
  ASSUME IInv, FlushReset
  PROVE  AllOut
<1>1. Written
  BY DEF FlushReset, Written
<1> QED
  BY <1>1 DEF IInv, WholeOK, OrderOK, AllOut, Written

\* The buffer is empty again.
LEMMA FlushResetInv == IInv /\ FlushReset => IInv'
<1> SUFFICES ASSUME IInv, FlushReset PROVE IInv'
  OBVIOUS
<1>1. Active /\ Resume /\ outlen' = 0 /\ UNCHANGED <<outbuf, count, out, signals, short>>
  BY DEF FlushReset
<1> QED
  BY <1>1, ResetIsOut, ResumeInv

\* What the kernel took of bytes: a prefix, all of them unless this write was
\* one of the short ones.
Took(bytes, k) ==
  /\ IsSeq(out)' /\ Len(out') = Len(out) + k
  /\ \A i \in 1 .. Len(out) : out'[i] = out[i]
  /\ \A i \in 1 .. k : out'[Len(out) + i] = bytes[i]
  /\ short' \in Nat /\ (short' = 0 => k = Len(bytes) /\ short = 0)

\* A write takes a prefix, and a short one is counted.
LEMMA WriteIs ==
  ASSUME IsSeq(out), short \in Nat, NEW bytes, IsSeq(bytes), Write(bytes)
  PROVE  \E k \in 0 .. Len(bytes) : Took(bytes, k)
<1> DEFINE n == Len(bytes)
<1>0. n \in Nat
  BY DEF IsSeq
<1>1. PICK k \in 0 .. n :
        /\ out' = out \o SubSeq(bytes, 1, k)
        /\ short' = IF k < n THEN short + 1 ELSE short
  BY DEF Write
<1> DEFINE S == {out[i] : i \in 1 .. Len(out)} \cup {bytes[i] : i \in 1 .. n}
           part == SubSeq(bytes, 1, k)
<1>2. out \in Seq(S) /\ bytes \in Seq(S)
  <2>1. \A i \in 1 .. Len(out) : out[i] \in S
    OBVIOUS
  <2>2. \A i \in 1 .. n : bytes[i] \in S
    OBVIOUS
  <2> HIDE DEF S
  <2>3. out \in [1 .. Len(out) -> S] /\ bytes \in [1 .. n -> S] /\ Len(out) \in Nat
    BY <2>1, <2>2 DEF IsSeq
  <2> QED
    BY <2>3, SeqDef
<1> HIDE DEF S
<1>3. part \in Seq(S) /\ Len(part) = k /\ \A i \in 1 .. k : part[i] = bytes[i]
  <2>1. \A i \in 1 .. k : bytes[i] \in S
    BY <1>0, <1>2, LenProperties
  <2>2. k \in Int /\ 1 \in Int
    BY <1>0
  <2>3. /\ SubSeq(bytes, 1, k) \in Seq(S)
        /\ Len(SubSeq(bytes, 1, k)) = IF 1 <= k THEN k - 1 + 1 ELSE 0
        /\ \A i \in 1 .. k - 1 + 1 : SubSeq(bytes, 1, k)[i] = bytes[1 + i - 1]
    BY <2>1, <2>2, SubSeqProperties
  <2> QED
    BY <1>0, <2>2, <2>3
<1> HIDE DEF part
<1>4. /\ out \o part \in Seq(S) /\ Len(out \o part) = Len(out) + Len(part)
      /\ \A i \in 1 .. Len(out) + Len(part) :
           (out \o part)[i] = IF i <= Len(out) THEN out[i] ELSE part[i - Len(out)]
  BY <1>2, <1>3, ConcatProperties
<1>5. out' = out \o part /\ Len(out) \in Nat
  BY <1>1 DEF part, IsSeq
<1>6. IsSeq(out)' /\ Len(out') = Len(out) + k
  BY <1>3, <1>4, <1>5, LenProperties DEF IsSeq
<1>7. \A i \in 1 .. Len(out) : out'[i] = out[i]
  BY <1>3, <1>4, <1>5
<1>8. \A i \in 1 .. k : out'[Len(out) + i] = bytes[i]
  <2> SUFFICES ASSUME NEW i \in 1 .. k PROVE out'[Len(out) + i] = bytes[i]
    OBVIOUS
  <2>1. Len(out) + i \in 1 .. Len(out) + Len(part) /\ ~(Len(out) + i <= Len(out))
        /\ (Len(out) + i) - Len(out) = i
    BY <1>3, <1>5
  <2> QED
    BY <1>3, <1>4, <1>5, <2>1
<1> QED
  <2>1. Took(bytes, k)
    <3>1. short' \in Nat /\ (short' = 0 => k = Len(bytes) /\ short = 0)
      BY <1>0, <1>1
    <3> QED
      BY <1>6, <1>7, <1>8, <3>1 DEF Took
  <2> QED
    BY <2>1

\* What is written is what the buffer held.
LEMMA FlushWriteInv == IInv /\ FlushWrite => IInv'
<1> SUFFICES ASSUME IInv, FlushWrite PROVE IInv'
  OBVIOUS
<1>1. /\ Active /\ Top.pc \in {"flush", "last"}
      /\ UNCHANGED <<outlen, outbuf, count, signals>>
  BY DEF FlushWrite
<1>2. PICK n \in Seen : n > 0 /\ Write([i \in 1 .. n |-> outbuf[i - 1]])
  BY DEF FlushWrite
<1>3. /\ Top \in Frame /\ n \in Nat /\ (~Top.hit => n = outlen)
      /\ count \in Nat /\ outlen \in Nat /\ short \in Nat /\ IsSeq(out) /\ Len(out) \in Nat
      /\ Top.first \in Nat
  BY <1>1, SeenIs DEF IInv, TypeOK, IsSeq, Frame
<1>4. PICK k \in 0 .. n :
        /\ IsSeq(out)' /\ Len(out') = Len(out) + k
        /\ \A i \in 1 .. Len(out) : out'[i] = out[i]
        /\ \A i \in 1 .. k : out'[Len(out) + i] = outbuf[i - 1]
        /\ short' \in Nat /\ (short' = 0 => k = n /\ short = 0)
  <2> DEFINE bytes == [i \in 1 .. n |-> outbuf[i - 1]]
  <2>1. Len(bytes) = n /\ IsSeq(bytes) /\ \A i \in 1 .. n : bytes[i] = outbuf[i - 1]
    BY <1>3 DEF IsSeq
  <2>2. Write(bytes)
    BY <1>2
  <2> HIDE DEF bytes
  <2>3. PICK k \in 0 .. n : Took(bytes, k)
    BY <1>3, <2>1, <2>2, WriteIs
  <2>4. ASSUME NEW i \in 1 .. k PROVE out'[Len(out) + i] = outbuf[i - 1]
    <3>1. i \in 1 .. n
      BY <1>3
    <3> QED
      BY <2>1, <2>3, <3>1 DEF Took
  <2> QED
    BY <2>1, <2>3, <2>4 DEF Took
<1> DEFINE p == IF Top.pc = "flush" THEN "reset" ELSE "reset_last"
           f == [Top EXCEPT !.pc = p]
<1>5. f \in Frame
  BY <1>3, OneField DEF PCs
<1>6. f.pc = p /\ f.known = Top.known /\ f.first = Top.first /\ f.hit = Top.hit
  BY <1>3 DEF Frame
<1>7. AtTop(f)
  BY DEF FlushWrite
<1>8. p \in {"reset", "reset_last"}
  OBVIOUS
<1> HIDE DEF f, p
<1>9. SameBelow /\ Top' = f
  BY <1>1, <1>5, <1>7, AtTopIs DEF IInv
<1>10. TypeOK' /\ NestOK' /\ KnownOK'
  <2>1. TypeOK'
    BY <1>1, <1>3, <1>4, <1>9 DEF IInv, TypeOK, SameBelow
  <2>2. NestOK'
    BY <1>1, <1>6, <1>9, NestKept DEF IInv
  <2>3. KnownOK'
    BY <1>1, <1>6, <1>8, <1>9 DEF IInv, KnownOK, SameBelow
  <2> QED
    BY <2>1, <2>2, <2>3
<1>11. WholeOK'
  <2> SUFFICES ASSUME ~Top'.hit, short' = 0 PROVE WholeOK'
    BY DEF WholeOK
  <2>1. n = outlen /\ k = n /\ Top.first <= count
    BY <1>1, <1>3, <1>4, <1>6, <1>9 DEF IInv, WholeOK
  <2>2. PICK b \in 0 .. n : Kept(b, n, count)
    BY <1>1, <1>4, <1>6, <1>9, <2>1 DEF IInv, WholeOK, Between
  <2> DEFINE m == count - Top.first
  <2>3. /\ b = m \/ (b = n /\ b <= m)
        /\ \A j \in 0 .. b - 1 : outbuf[n - b + j] = count - b + 1 + j
        /\ Ends(Top.first, count - b)
    BY <2>2 DEF Kept
  <2>4. (count - b) - Top.first = m - b /\ m \in Nat /\ b <= m
    BY <1>3, <2>1, <2>3
  <2>5. /\ m - b <= Len(out)
        /\ \A j \in 1 .. m - b : out[Len(out) - (m - b) + j] = Top.first + j
    BY <2>3, <2>4 DEF Ends
  <2> HIDE DEF m
  <2>6. ASSUME NEW j \in 1 .. m
        PROVE  out'[Len(out) + n - m + j] = Top.first + j
    <3>1. count = Top.first + m
      BY <1>3 DEF m
    <3>2. CASE j <= m - b
      <4>1. b = n
        BY <2>3, <2>4, <3>2
      <4>2. j \in 1 .. m - b /\ Len(out) + n - m + j = Len(out) - (m - b) + j
            /\ Len(out) - (m - b) + j \in 1 .. Len(out)
        BY <1>3, <2>4, <2>5, <3>2, <4>1
      <4> QED
        BY <1>4, <2>5, <4>2
    <3>3. CASE j > m - b
      <4> DEFINE i == j - (m - b)
      <4>1. i \in 1 .. b /\ n - b + i \in 1 .. n /\ i - 1 \in 0 .. b - 1
        BY <1>3, <2>4, <3>3
      <4>2. outbuf[n - b + (i - 1)] = Top.first + j
        <5>1. count - b + 1 + (i - 1) = Top.first + j
          <6>1. /\ i = j - (m - b) /\ count = Top.first + m
                /\ Top.first \in Nat /\ m \in Nat /\ b \in Nat /\ j \in Nat
            BY <1>3, <2>4, <3>1
          <6> HIDE DEF i
          <6> QED
            BY <6>1
        <5> HIDE DEF i
        <5>2. outbuf[n - b + (i - 1)] = count - b + 1 + (i - 1)
          BY <2>3, <4>1
        <5> QED
          BY <5>1, <5>2
      <4>3. Len(out) + n - m + j = Len(out) + (n - b + i) /\ n - b + (i - 1) = (n - b + i) - 1
        BY <1>3, <2>4
      <4> HIDE DEF i
      <4> QED
        BY <1>4, <2>1, <4>1, <4>2, <4>3
    <3> QED
      BY <2>4, <3>2, <3>3
  <2>7. Len(out') - m = Len(out) + n - m /\ m <= Len(out')
    BY <1>3, <1>4, <2>1, <2>4, <2>5
  <2>8. Ends(Top.first, count)'
    <3>1. Top'.first = Top.first /\ count' - Top'.first = m
      BY <1>1, <1>6, <1>9 DEF m
    <3>2. \A j \in 1 .. m : out'[Len(out') - m + j] = Top.first + j
      BY <2>6, <2>7
    <3> QED
      BY <2>7, <3>1, <3>2 DEF Ends
  <2> QED
    BY <1>1, <1>6, <1>8, <1>9, <2>1, <2>8 DEF WholeOK, Between, Putting
<1>12. OrderOK'
  <2> SUFFICES ASSUME signals = 0 PROVE OrderOK'
    BY <1>1 DEF OrderOK
  <2>1. n = outlen /\ Held(n, count)
    BY <1>1, <1>3, TopIs DEF IInv, OrderOK, Between, NestOK
  <2>2. /\ \A i \in 1 .. Len(out) : out[i] \in Nat /\ out[i] <= count - n
        /\ \A i, j \in 1 .. Len(out) : i < j => out[i] < out[j]
    BY <2>1 DEF IInv, OrderOK, Held
  <2>3. ASSUME NEW i \in Len(out) + 1 .. Len(out')
        PROVE  out'[i] = count - n + (i - Len(out))
    <3>1. i - Len(out) \in 1 .. k /\ Len(out) + (i - Len(out)) = i
      BY <1>3, <1>4
    <3>2. out'[i] = outbuf[(i - Len(out)) - 1]
      BY <1>4, <3>1
    <3>3. (i - Len(out)) - 1 \in 0 .. n - 1
      BY <3>1, <1>3
    <3> QED
      BY <1>3, <2>1, <3>2, <3>3 DEF Held
  <2>4. ASSUME NEW i \in 1 .. Len(out')
        PROVE  out'[i] \in Nat /\ out'[i] <= count
    <3>1. CASE i <= Len(out)
      BY <1>3, <1>4, <2>2, <3>1
    <3>2. CASE i > Len(out)
      <4>1. i \in Len(out) + 1 .. Len(out') /\ i - Len(out) \in 1 .. n
        BY <1>3, <1>4, <3>2
      <4>2. n <= count
        BY <2>1 DEF Held
      <4> QED
        BY <1>3, <2>3, <4>1, <4>2
    <3> QED
      BY <1>3, <3>1, <3>2
  <2>5. ASSUME NEW i \in 1 .. Len(out'), NEW j \in 1 .. Len(out'), i < j
        PROVE  out'[i] < out'[j]
    <3>1. CASE j <= Len(out)
      BY <1>3, <1>4, <2>2, <2>5, <3>1
    <3>2. CASE i <= Len(out) /\ j > Len(out)
      <4>1. j \in Len(out) + 1 .. Len(out') /\ i \in 1 .. Len(out)
        BY <1>3, <1>4, <3>2
      <4>2. out'[i] \in Nat /\ out'[i] <= count - n /\ out'[j] = count - n + (j - Len(out))
        BY <1>4, <2>2, <2>3, <4>1
      <4> QED
        BY <1>3, <3>2, <4>2
    <3>3. CASE i > Len(out)
      <4>1. i \in Len(out) + 1 .. Len(out') /\ j \in Len(out) + 1 .. Len(out')
        BY <1>3, <1>4, <2>5, <3>3
      <4>2. out'[i] = count - n + (i - Len(out)) /\ out'[j] = count - n + (j - Len(out))
        BY <2>3, <4>1
      <4> QED
        BY <1>3, <2>5, <4>2
    <3> QED
      BY <1>3, <3>1, <3>2, <3>3
  <2>6. Held(0, count)'
    BY <1>1, <1>3, <2>4 DEF Held
  <2> QED
    BY <1>8, <1>6, <1>9, <2>4, <2>5, <2>6 DEF OrderOK, Between, Putting
<1>13. BoundsOK'
  <2> SUFFICES ASSUME MaxNest <= 1 PROVE BoundsOK'
    BY DEF BoundsOK
  <2>1. Len(frames) \in {1, 2} /\ (Len(frames) = 1 => Top = frames[1])
    BY <1>1, OneOrTwo DEF IInv
  <2>2. CASE Len(frames) = 1
    <3>1. frames'[1] = f /\ Len(frames') = 1
      BY <1>9, <2>2 DEF SameBelow
    <3> QED
      BY <1>1, <1>6, <1>8, <2>1, <2>2, <3>1 DEF IInv, BoundsOK
  <2>3. CASE Len(frames) = 2
    <3>1. frames'[1] = frames[1] /\ Len(frames') = 2
      BY <1>9, <2>3 DEF SameBelow
    <3> QED
      BY <1>1, <1>6, <1>8, <1>9, <2>3, <3>1 DEF IInv, BoundsOK
  <2> QED
    BY <2>1, <2>2, <2>3
<1> QED
  BY <1>10, <1>11, <1>12, <1>13 DEF IInv

\* The direct writers find the buffer empty.
LEMMA PutcharInv == IInv /\ Putchar => IInv'
<1> SUFFICES ASSUME IInv, Putchar PROVE IInv'
  OBVIOUS
<1>1. /\ ~Active /\ count' = count + 1 /\ Write(<<count + 1>>)
      /\ UNCHANGED <<outlen, outbuf, frames, signals>>
  BY DEF Putchar
<1>2. count \in Nat /\ short \in Nat /\ IsSeq(out) /\ Len(out) \in Nat
  BY DEF IInv, TypeOK, IsSeq
<1>3. PICK k \in 0 .. 1 :
        /\ IsSeq(out)' /\ Len(out') = Len(out) + k
        /\ \A i \in 1 .. Len(out) : out'[i] = out[i]
        /\ \A i \in 1 .. k : out'[Len(out) + i] = count + 1
        /\ short' \in Nat /\ (short' = 0 => k = 1 /\ short = 0)
  <2> DEFINE bytes == <<count + 1>>
  <2>1. Len(bytes) = 1 /\ bytes[1] = count + 1 /\ bytes = [i \in 1 .. 1 |-> bytes[i]]
    OBVIOUS
  <2>2. Write(bytes)
    BY <1>1
  <2> HIDE DEF bytes
  <2>3. PICK k \in 0 .. 1 : Took(bytes, k)
    <3>1. IsSeq(bytes)
      BY <2>1 DEF IsSeq
    <3> QED
      BY <1>2, <2>1, <2>2, <3>1, WriteIs
  <2>4. ASSUME NEW i \in 1 .. k PROVE out'[Len(out) + i] = count + 1
    <3>1. i = 1
      OBVIOUS
    <3> QED
      BY <2>1, <2>3, <3>1 DEF Took
  <2>5. /\ IsSeq(out)' /\ Len(out') = Len(out) + k
        /\ \A i \in 1 .. Len(out) : out'[i] = out[i]
        /\ short' \in Nat /\ (short' = 0 => k = 1 /\ short = 0)
    BY <2>1, <2>3 DEF Took
  <2> QED
    BY <2>4, <2>5
<1>4. ~Active'
  BY <1>1 DEF Active
<1>5. TypeOK' /\ NestOK' /\ KnownOK' /\ WholeOK' /\ BoundsOK'
  BY <1>1, <1>2, <1>3, <1>4
     DEF IInv, TypeOK, NestOK, KnownOK, WholeOK, BoundsOK, Top, Active
<1>6. OrderOK'
  <2> SUFFICES ASSUME signals = 0 PROVE OrderOK'
    BY <1>1 DEF OrderOK
  <2>1. /\ \A i \in 1 .. Len(out) : out[i] \in Nat /\ out[i] <= count
        /\ \A i, j \in 1 .. Len(out) : i < j => out[i] < out[j]
    <3>1. Held(0, count)
      BY <1>1 DEF IInv, OrderOK
    <3> QED
      BY <1>2, <3>1 DEF IInv, OrderOK, Held
  <2>2. ASSUME NEW i \in 1 .. Len(out')
        PROVE  i \in 1 .. Len(out) \/ (i = Len(out) + 1 /\ out'[i] = count + 1)
    <3> SUFFICES ASSUME i \notin 1 .. Len(out) PROVE i = Len(out) + 1 /\ out'[i] = count + 1
      OBVIOUS
    <3>1. k = 1 /\ i = Len(out) + 1
      BY <1>2, <1>3
    <3> QED
      BY <1>3, <3>1
  <2>3. ASSUME NEW i \in 1 .. Len(out') PROVE out'[i] \in Nat /\ out'[i] <= count + 1
    BY <1>2, <1>3, <2>1, <2>2
  <2>4. ASSUME NEW i \in 1 .. Len(out'), NEW j \in 1 .. Len(out'), i < j
        PROVE  out'[i] < out'[j]
    <3>1. i \in 1 .. Len(out)
      BY <1>2, <1>3, <2>4
    <3>2. out'[i] = out[i] /\ out[i] \in Nat /\ out[i] <= count
      BY <1>3, <2>1, <3>1
    <3>3. CASE j \in 1 .. Len(out)
      BY <1>3, <2>1, <2>4, <3>1, <3>3
    <3>4. CASE j \notin 1 .. Len(out)
      BY <1>2, <2>2, <3>2, <3>4
    <3> QED
      BY <3>3, <3>4
  <2>5. Held(0, count)'
    BY <1>1, <1>2, <2>3 DEF Held
  <2> QED
    BY <1>4, <2>3, <2>4, <2>5 DEF OrderOK, Between, Putting
<1> QED
  BY <1>5, <1>6 DEF IInv

-----------------------------------------------------------------------------
(* The invariant, and what follows from it.                                *)

\* At the start nothing is buffered.
LEMMA InitInv == Init => IInv
<1> SUFFICES ASSUME Init PROVE IInv
  OBVIOUS
<1>1. /\ outlen = 0 /\ count = 0 /\ signals = 0 /\ short = 0
      /\ frames = <<>> /\ out = <<>> /\ Len(frames) = 0 /\ Len(out) = 0 /\ ~Active
  BY DEF Init, Active
<1>2. TypeOK
  BY <1>1, EmptySeq DEF TypeOK, IsSeq
<1>3. NestOK /\ KnownOK /\ WholeOK /\ BoundsOK
  BY <1>1, OutBufAssumption DEF NestOK, KnownOK, WholeOK, BoundsOK
<1>4. OrderOK
  BY <1>1 DEF OrderOK, Held, Between, Putting
<1> QED
  BY <1>2, <1>3, <1>4 DEF IInv

\* Every step keeps the invariant.
LEMMA NextInv == IInv /\ [Next]_vars => IInv'
<1> SUFFICES ASSUME IInv, [Next]_vars PROVE IInv'
  OBVIOUS
<1>1. CASE UNCHANGED vars
  BY <1>1 DEF vars, IInv, TypeOK, IsSeq, NestOK, KnownOK, WholeOK, OrderOK, BoundsOK,
              Between, Putting, Written, Kept, Held, Ends, StoredOK, Active, Top
<1>2. CASE Puts
  BY <1>2, PutsInv
<1>3. CASE Putchar
  BY <1>3, PutcharInv
<1>4. CASE Signal
  BY <1>4, SignalInv
<1>5. CASE Fetch
  BY <1>5, FetchInv
<1>6. CASE Bump
  BY <1>6, BumpInv
<1>7. CASE Store
  BY <1>7, StoreInv
<1>8. CASE Check
  BY <1>8, CheckInv
<1>9. CASE LastFlush
  BY <1>9, LastFlushInv
<1>10. CASE FlushEmpty
  BY <1>10, FlushEmptyInv
<1>11. CASE FlushWrite
  BY <1>11, FlushWriteInv
<1>12. CASE FlushReset
  BY <1>12, FlushResetInv
<1> QED
  BY <1>1, <1>2, <1>3, <1>4, <1>5, <1>6, <1>7, <1>8, <1>9, <1>10, <1>11, <1>12
     DEF Next, Running, Terminating

\* So it holds always.
LEMMA Invariance == Spec => []IInv
<1>1. Init => IInv
  BY InitInv
<1>2. IInv /\ [Next]_vars => IInv'
  BY NextInv
<1> QED
  BY <1>1, <1>2, PTL DEF Spec

\* No call of the program leaves a byte in the buffer, however many handlers
\* printed in the middle of it and however little write took.
THEOREM HeldBackNothingHolds == Spec => []HeldBackNothing
<1>1. IInv => HeldBackNothing
  BY DEF IInv, KnownOK, HeldBackNothing
<1> QED
  BY <1>1, Invariance, PTL

\* Without signals the buffered and the direct writers keep the order of the
\* program's calls, and write nothing twice.
THEOREM InOrderHolds == Spec => []InOrder
<1>1. IInv => InOrder
  BY DEF IInv, OrderOK, InOrder
<1> QED
  BY <1>1, Invariance, PTL

\* A sequence that ends in the numbers from after lo up to hi has them as a
\* suffix.
LEMMA EndsIsSuffix ==
  ASSUME NEW lo \in Nat, NEW hi \in Nat, lo <= hi, IsSeq(out), Ends(lo, hi)
  PROVE  IsSuffix([i \in 1 .. hi - lo |-> lo + i], out)
<1> DEFINE s == [i \in 1 .. hi - lo |-> lo + i]
           m == hi - lo
<1>1. Len(s) = m /\ m \in Nat /\ Len(out) \in Nat /\ m <= Len(out)
  BY DEF IsSeq, Ends
<1>2. \A i \in 1 .. m : s[i] = lo + i
  OBVIOUS
<1>3. \A j \in 1 .. m : out[Len(out) - m + j] = lo + j
  BY DEF Ends
<1> HIDE DEF s, m
<1> DEFINE rs == Reverse(s)
           ro == Reverse(out)
<1>4. /\ rs = [i \in 1 .. m |-> s[(m - i) + 1]] /\ Len(rs) = m
      /\ ro = [i \in 1 .. Len(out) |-> out[(Len(out) - i) + 1]] /\ Len(ro) = Len(out)
  BY <1>1 DEF Reverse
<1>5. ASSUME NEW i \in 1 .. m PROVE rs[i] = ro[i]
  <2>1. rs[i] = s[(m - i) + 1] /\ ro[i] = out[(Len(out) - i) + 1]
    BY <1>1, <1>4
  <2>2. (m - i) + 1 \in 1 .. m /\ (Len(out) - i) + 1 = Len(out) - m + ((m - i) + 1)
    BY <1>1
  <2> QED
    BY <1>2, <1>3, <2>1, <2>2
<1> HIDE DEF rs, ro
<1>6. SubSeq(rs, 1, m) = SubSeq(ro, 1, m)
  BY <1>1, <1>5
<1>7. IsPrefix(rs, ro)
  BY <1>1, <1>4, <1>6 DEF IsPrefix
<1> QED
  BY <1>7 DEF IsSuffix, rs, ro, s

\* A call that returns without having been interrupted has put its text out in
\* one piece, at the end of everything printed so far.
THEOREM WholeCallsHolds == Spec => WholeCalls
<1>1. IInv /\ [Next]_vars
        => [Active /\ Len(frames') < Len(frames) /\ ~Top.hit /\ short' = 0
              => IsSuffix([i \in 1 .. count - Top.first |-> Top.first + i], out')]_vars
  <2> SUFFICES ASSUME IInv, Next, Active, Len(frames') < Len(frames), ~Top.hit, short' = 0
               PROVE  IsSuffix([i \in 1 .. count - Top.first |-> Top.first + i], out')
    BY DEF vars
  <2>1. /\ Len(frames) \in Nat \ {0} /\ Top \in Frame /\ Len(Front(frames)) = Len(frames) - 1
        /\ Front(frames) \in Seq(Frame)
    BY TopIs DEF IInv
  <2>2. ASSUME NEW f, AtTop(f) PROVE FALSE
    <3>1. frames' = Append(Front(frames), f)
      BY <2>1, <2>2 DEF AtTop
    <3>2. Len(frames') = Len(Front(frames)) + 1
      BY <2>1, <3>1
    <3> QED
      BY <2>1, <3>2
  <2>3. ~Signal
    <3> SUFFICES ASSUME Signal PROVE FALSE
      OBVIOUS
    <3>1. PICK n \in Nat : frames' = Front(frames) \o <<[Top EXCEPT !.hit = TRUE], Call(n)>>
      BY OutBufAssumption DEF Signal
    <3> DEFINE r == [Top EXCEPT !.hit = TRUE]
               c == Call(n)
    <3> HIDE DEF r, c
    <3>2. Len(Front(frames) \o <<r, c>>) = Len(Front(frames)) + 2
      BY <2>1
    <3> QED
      BY <2>1, <3>1, <3>2 DEF r, c
  <2>4. ~Puts /\ ~Putchar /\ ~Terminating
    BY DEF Puts, Putchar, Terminating
  <2>5. ~Fetch /\ ~Bump /\ ~Store /\ ~Check /\ ~LastFlush /\ ~FlushWrite
    BY <2>2 DEF Fetch, Bump, Store, Check, LastFlush, FlushWrite
  <2>6. FlushEmpty \/ FlushReset
    BY <2>3, <2>4, <2>5 DEF Next, Running
  <2>7. AllOut /\ out' = out /\ short = 0
    BY <2>6, EmptyIsOut, ResetIsOut DEF FlushEmpty, FlushReset
  <2>8. Top.first <= count /\ Ends(Top.first, count)
    BY <2>7 DEF AllOut
  <2>9. Top.first \in Nat /\ count \in Nat /\ IsSeq(out)
    BY <2>1 DEF IInv, TypeOK, Frame
  <2> QED
    BY <2>7, <2>8, <2>9, EndsIsSuffix
<1> QED
  BY <1>1, Invariance, PTL DEF Spec, WholeCalls

\* While handlers are not interrupted by handlers, no byte is stored past the
\* end of outbuf, whenever the signal comes and whatever copy of outlen the
\* interrupted call goes on with.
THEOREM InBoundsHolds == MaxNest <= 1 => (Spec => []InBounds)
<1> SUFFICES ASSUME MaxNest <= 1 PROVE Spec => []InBounds
  OBVIOUS
<1>1. IInv => InBounds
  <2> SUFFICES ASSUME IInv, NEW i \in 1 .. Len(frames), frames[i].pc = "put"
               PROVE  frames[i].reg < Size
    BY DEF InBounds
  <2>1. Active
    BY EmptySeq DEF Active
  <2>2. Len(frames) \in {1, 2} /\ Top = frames[Len(frames)]
    BY <2>1, TopIs, OneOrTwo DEF IInv
  <2>3. frames[1].pc = "put" => frames[1].reg < Size - 1
    BY <2>1 DEF IInv, BoundsOK
  <2>4. frames[1] \in Frame
    BY <2>1, <2>2, TopIs DEF IInv
  <2>5. CASE i = 1
    BY <2>3, <2>4, <2>5, OutBufAssumption DEF Frame
  <2>6. CASE i = 2
    BY <2>2, <2>6 DEF IInv, BoundsOK
  <2> QED
    BY <2>2, <2>5, <2>6
<1> QED
  BY <1>1, Invariance, PTL
-----------------------------------------------------------------------------
(* What handlers cost.  A signal loses the byte that the call it hits has   *)
(* under way, and no other: what lies in the buffer the handler flushes.    *)

IsOut(x) == \E i \in 1 .. Len(out) : out[i] = x

\* A byte waits in the buffer, where the call on top is not about to store.
Storing == Active /\ Top.pc = "put" /\ "store" \in Top.todo
Waits(x) ==
  \E i \in 0 .. outlen - 1 :
    i \in DOMAIN outbuf /\ outbuf[i] = x /\ ~(Storing /\ i = Top.reg)

\* The byte of the call on top, as long as what is done of its two steps has
\* not been undone by a handler.
UnderWay(x) ==
  /\ Active /\ Top.pc = "put" /\ x = Top.ch
  /\ "store" \in Top.todo \/ (Top.reg \in DOMAIN outbuf /\ outbuf[Top.reg] = x)
  /\ "bump" \in Top.todo \/ outlen = Top.reg + 1

Lost == {x \in 1 .. count : ~IsOut(x) /\ ~Waits(x) /\ ~UnderWay(x)}

\* A byte under way is stored where the buffer ends, unless a handler has
\* emptied it; what is about to be thrown away is out.
PutOK ==
  Active /\ Top.pc = "put" =>
    outlen \in {0, IF "bump" \in Top.todo THEN Top.reg ELSE Top.reg + 1}
ResetOK == Written /\ short = 0 => \A x : Waits(x) => IsOut(x)
FewLost == short = 0 => Cardinality(Lost) <= signals

LostOK == PutOK /\ ResetOK /\ FewLost
LInv == IInv /\ LostOK

\* Lost bytes are some of those printed.
LEMMA LostIsFinite ==
  ASSUME TypeOK
  PROVE  IsFiniteSet(Lost) /\ Cardinality(Lost) \in Nat
<1>1. IsFiniteSet(1 .. count)
  BY FS_Interval DEF TypeOK
<1>2. Lost \subseteq 1 .. count
  BY DEF Lost
<1> QED
  BY <1>1, <1>2, FS_Subset, FS_CardinalityType

\* A step after which no byte is lost that was not before.
NoMoreLost ==
  /\ signals' = signals
  /\ short' = 0 => short = 0 /\ Lost' \subseteq Lost

\* It keeps the bound.
LEMMA FewLostKept ==
  ASSUME TypeOK, FewLost, NoMoreLost
  PROVE  FewLost'
<1> SUFFICES ASSUME short' = 0 PROVE Cardinality(Lost') <= signals'
  BY DEF FewLost
<1>1. short = 0 /\ Lost' \subseteq Lost /\ signals' = signals
  BY DEF NoMoreLost
<1>2. PICK A : A = Lost'
  OBVIOUS
<1>3. Cardinality(A) <= Cardinality(Lost) /\ Cardinality(A) \in Nat
  BY <1>1, <1>2, LostIsFinite, FS_Subset, FS_CardinalityType
<1>4. Cardinality(Lost) <= signals /\ signals \in Nat
  BY <1>1 DEF FewLost, TypeOK
<1> QED
  BY <1>1, <1>2, <1>3, <1>4, LostIsFinite

\* A flush that is over: what was in the buffer is out.
LEMMA ResumeLost ==
  ASSUME LInv, Active, Top.pc # "put", Resume, outlen' = 0,
         UNCHANGED <<count, out, signals, short>>,
         short = 0 => \A x : Waits(x) => IsOut(x)
  PROVE  LostOK'
<1>1. PutOK' /\ ResetOK'
  BY DEF PutOK, ResetOK, Waits
<1>2. short = 0 => Lost' \subseteq Lost
  BY DEF Lost, IsOut, UnderWay
<1>3. FewLost'
  BY <1>2, FewLostKept DEF NoMoreLost, LInv, LostOK, IInv
<1> QED
  BY <1>1, <1>3 DEF LostOK

\* At the start nothing has been printed.
LEMMA InitLost == Init => LostOK
<1> SUFFICES ASSUME Init PROVE LostOK
  OBVIOUS
<1>1. Lost = {} /\ ~Active /\ signals = 0
  BY DEF Init, Lost, Active
<1>2. Cardinality(Lost) = 0
  BY <1>1, FS_EmptySet
<1> QED
  BY <1>1, <1>2 DEF LostOK, PutOK, ResetOK, FewLost, Written

\* A call starts with nothing under way.
LEMMA PutsLost == LInv /\ Puts => LostOK'
<1> SUFFICES ASSUME LInv, Puts PROVE LostOK'
  OBVIOUS
<1>1. PICK n \in Nat : frames' = <<Call(n)>>
  BY OutBufAssumption DEF Puts
<1>2. ~Active /\ UNCHANGED <<outlen, outbuf, count, out, signals, short>>
  BY DEF Puts
<1> DEFINE c == Call(n)
<1>3. c.pc = "emit"
  BY CallIs DEF LInv, IInv
<1> HIDE DEF c
<1>4. Top' = c
  BY <1>1 DEF Top, Last, c
<1>5. outlen = 0
  BY <1>2 DEF LInv, IInv, KnownOK
<1>6. PutOK' /\ ResetOK'
  BY <1>3, <1>4 DEF PutOK, ResetOK, Written
<1>7. Lost' \subseteq Lost
  BY <1>2, <1>5 DEF Lost, IsOut, Waits, UnderWay
<1> QED
  BY <1>2, <1>6, <1>7, FewLostKept DEF LInv, LostOK, IInv, NoMoreLost

\* What putchar prints is out, or its write was short.
LEMMA PutcharLost == LInv /\ Putchar => LostOK'
<1> SUFFICES ASSUME LInv, Putchar PROVE LostOK'
  OBVIOUS
<1>1. /\ ~Active /\ ~Active' /\ count' = count + 1 /\ Write(<<count + 1>>)
      /\ outlen = 0 /\ outlen' = 0 /\ UNCHANGED <<outbuf, frames, signals>>
      /\ count \in Nat /\ short \in Nat /\ IsSeq(out)
  BY DEF Putchar, Active, LInv, IInv, KnownOK, TypeOK
<1> DEFINE b == <<count + 1>>
<1>2. Len(b) = 1 /\ b[1] = count + 1 /\ IsSeq(b)
  <2>1. Len(b) = 1 /\ b = [i \in 1 .. 1 |-> b[i]]
    OBVIOUS
  <2> QED
    BY <2>1 DEF IsSeq
<1> HIDE DEF b
<1>3. PICK k \in 0 .. 1 : Took(b, k)
  BY <1>1, <1>2, WriteIs DEF b
<1>4. PutOK' /\ ResetOK'
  BY <1>1 DEF PutOK, ResetOK, Written
<1>5. short' = 0 => short = 0 /\ Lost' \subseteq Lost
  <2> SUFFICES ASSUME short' = 0 PROVE short = 0 /\ Lost' \subseteq Lost
    OBVIOUS
  <2>1. short = 0 /\ k = 1 /\ Len(out) \in Nat
    BY <1>1, <1>2, <1>3 DEF Took, IsSeq
  <2>2. ASSUME NEW x, IsOut(x) PROVE IsOut(x)'
    BY <1>3, <2>1, <2>2 DEF Took, IsOut
  <2>3. ASSUME NEW x, x = count + 1 PROVE IsOut(x)'
    <3>1. Len(out') = Len(out) + 1 /\ out'[Len(out) + 1] = count + 1
      BY <1>2, <1>3, <2>1 DEF Took
    <3>2. Len(out) + 1 \in 1 .. Len(out')
      BY <2>1, <3>1
    <3> QED
      BY <2>3, <3>1, <3>2 DEF IsOut
  <2>4. \A x : ~Waits(x) /\ ~UnderWay(x)
    BY <1>1 DEF Waits, UnderWay
  <2>5. ASSUME NEW x \in 1 .. count', ~IsOut(x)' PROVE x \in Lost
    <3>1. x # count + 1
      BY <2>3, <2>5
    <3>2. x \in 1 .. count
      BY <1>1, <3>1
    <3> QED
      BY <2>2, <2>4, <2>5, <3>2 DEF Lost
  <2> QED
    BY <2>1, <2>5 DEF Lost
<1> QED
  BY <1>1, <1>4, <1>5, FewLostKept DEF LInv, LostOK, IInv, NoMoreLost


\* What was under way when the signal came may be lost, nothing else.
LEMMA SignalLost == LInv /\ Signal => LostOK'
<1> SUFFICES ASSUME LInv, Signal PROVE LostOK'
  OBVIOUS
<1>1. /\ Active /\ UNCHANGED <<outlen, outbuf, count, out, short>>
      /\ signals' = signals + 1 /\ signals \in Nat /\ TypeOK
  BY DEF Signal, LInv, IInv, TypeOK
<1>2. Top'.pc = "emit"
  <2>1. PICK n \in Nat : frames' = Front(frames) \o <<[Top EXCEPT !.hit = TRUE], Call(n)>>
    BY OutBufAssumption DEF Signal
  <2> DEFINE c == Call(n)
             r == [Top EXCEPT !.hit = TRUE]
  <2>2. c.pc = "emit" /\ Front(frames) \in Seq(Frame) /\ c \in Frame /\ r \in Frame
    BY <1>1, TopIs, CallIs, OneField
  <2> HIDE DEF c, r
  <2> DEFINE t == <<r, c>>
  <2>3. t \in Seq(Frame) /\ Len(t) = 2 /\ t[2] = c
    BY <2>2
  <2>4. frames' = Front(frames) \o t
    BY <2>1 DEF r, c
  <2> HIDE DEF t
  <2>5. Len(frames') = Len(Front(frames)) + 2 /\ frames'[Len(Front(frames)) + 2] = c
    <3>1. Len(Front(frames)) \in Nat
      BY <2>2, LenProperties
    <3>2. /\ Len(Front(frames) \o t) = Len(Front(frames)) + Len(t)
          /\ \A i \in 1 .. Len(Front(frames)) + Len(t) :
               (Front(frames) \o t)[i] = IF i <= Len(Front(frames)) THEN Front(frames)[i]
                                         ELSE t[i - Len(Front(frames))]
      BY <2>2, <2>3, ConcatProperties
    <3> QED
      BY <2>3, <2>4, <3>1, <3>2
  <2> QED
    BY <2>2, <2>5 DEF Top, Last
<1>3. PutOK' /\ ResetOK'
  BY <1>2 DEF PutOK, ResetOK, Written
<1>4. Lost' \subseteq Lost \cup {Top.ch}
  <2> SUFFICES ASSUME NEW x \in 1 .. count, ~IsOut(x)', ~Waits(x)', x # Top.ch
               PROVE  x \in Lost
    BY <1>1 DEF Lost
  <2>1. ~IsOut(x)
    BY <1>1 DEF IsOut
  <2>2. ~Waits(x)
    BY <1>1, <1>2 DEF Waits, Storing
  <2> QED
    BY <2>1, <2>2 DEF Lost, UnderWay
<1>5. FewLost'
  <2> SUFFICES ASSUME short = 0 PROVE Cardinality(Lost') <= signals + 1
    BY <1>1 DEF FewLost
  <2>1. PICK A : A = Lost'
    OBVIOUS
  <2>2. PICK c : c = Top.ch
    OBVIOUS
  <2>3. IsFiniteSet(Lost) /\ Cardinality(Lost) \in Nat /\ Cardinality(Lost) <= signals
    BY <1>1, LostIsFinite DEF LInv, LostOK, FewLost
  <2>4. /\ IsFiniteSet(Lost \cup {c}) /\ Cardinality(Lost \cup {c}) \in Nat
        /\ Cardinality(Lost \cup {c}) <= Cardinality(Lost) + 1
    BY <2>3, FS_AddElement, FS_CardinalityType
  <2>5. Cardinality(A) <= Cardinality(Lost \cup {c}) /\ Cardinality(A) \in Nat
    BY <1>4, <2>1, <2>2, <2>4, FS_Subset, FS_CardinalityType
  <2> QED
    BY <1>1, <2>1, <2>3, <2>4, <2>5
<1> QED
  BY <1>3, <1>5 DEF LostOK

\* A byte fetched is under way; the place of the byte before is settled.
LEMMA FetchLost == LInv /\ Fetch => LostOK'
<1> SUFFICES ASSUME LInv, Fetch PROVE LostOK'
  OBVIOUS
<1>1. PICK r \in Seen :
        AtTop([Top EXCEPT !.pc = "put", !.left = @ - 1, !.reg = r,
                          !.ch = count + 1, !.todo = {"bump", "store"}])
  BY DEF Fetch
<1>2. /\ Active /\ Top.pc = "emit" /\ Top.left > 0
      /\ count' = count + 1 /\ UNCHANGED <<outlen, outbuf, out, signals, short>>
  BY DEF Fetch
<1>3. /\ r \in Nat /\ Top \in Frame /\ (r = outlen \/ outlen = 0)
      /\ count \in Nat /\ outlen \in Nat /\ TypeOK
  BY <1>2, SeenIs DEF LInv, IInv, TypeOK
<1> DEFINE f == [Top EXCEPT !.pc = "put", !.left = Top.left - 1, !.reg = r,
                            !.ch = count + 1, !.todo = {"bump", "store"}]
<1>4. f \in Frame
  <2>1. Top.left - 1 \in Nat /\ count + 1 \in Nat
    BY <1>2, <1>3 DEF Frame
  <2>2. "put" \in PCs /\ {"bump", "store"} \in SUBSET {"bump", "store"}
    BY DEF PCs
  <2> QED
    BY <1>3, <2>1, <2>2, Fields
<1>5. f.pc = "put" /\ f.reg = r /\ f.ch = count + 1 /\ f.todo = {"bump", "store"}
  BY <1>3 DEF Frame
<1>6. AtTop(f)
  BY <1>1
<1> HIDE DEF f
<1>7. Active' /\ Top' = f
  BY <1>2, <1>3, <1>4, <1>6, AtTopIs DEF SameBelow
<1>8. PutOK' /\ ResetOK'
  BY <1>2, <1>3, <1>5, <1>7 DEF PutOK, ResetOK, Written
<1>9. Lost' \subseteq Lost
  <2> SUFFICES ASSUME NEW x \in 1 .. count', ~IsOut(x)', ~Waits(x)', ~UnderWay(x)'
               PROVE  x \in Lost
    BY DEF Lost
  <2>1. x # count + 1
    BY <1>5, <1>7 DEF UnderWay
  <2>2. x \in 1 .. count
    BY <1>2, <1>3, <2>1
  <2>3. ~IsOut(x)
    BY <1>2 DEF IsOut
  <2>4. ~Waits(x)
    <3> SUFFICES ASSUME NEW i \in 0 .. outlen - 1, i \in DOMAIN outbuf, outbuf[i] = x
                 PROVE  Waits(x)'
      BY DEF Waits
    <3>1. i # r
      BY <1>3
    <3> QED
      BY <1>2, <1>5, <1>7, <3>1 DEF Waits, Storing
  <2>5. ~UnderWay(x)
    BY <1>2 DEF UnderWay
  <2> QED
    BY <2>2, <2>3, <2>4, <2>5 DEF Lost
<1> QED
  BY <1>2, <1>3, <1>8, <1>9, FewLostKept DEF LInv, LostOK, NoMoreLost

\* Raising the length takes nothing out of the buffer, and the byte under way
\* waits in it if it is stored already.
LEMMA BumpLost == LInv /\ Bump => LostOK'
<1> SUFFICES ASSUME LInv, Bump PROVE LostOK'
  OBVIOUS
<1>1. /\ Active /\ Top.pc = "put" /\ "bump" \in Top.todo
      /\ outlen' = Top.reg + 1 /\ UNCHANGED <<outbuf, count, out, signals, short>>
  BY DEF Bump
<1>2. /\ Top \in Frame /\ Top.reg \in Nat
      /\ Top.todo \in SUBSET {"bump", "store"}
      /\ count \in Nat /\ outlen \in Nat /\ TypeOK
  BY <1>1, SeenIs DEF LInv, IInv, TypeOK, Frame
<1> DEFINE f == [Top EXCEPT !.pc = Settled("bump"), !.todo = Top.todo \ {"bump"},
                            !.known = Top.reg + 1]
<1>3. Settled("bump") \in PCs
  BY DEF Settled, PCs
<1>4. f \in Frame
  <2>1. Top.todo \ {"bump"} \in SUBSET {"bump", "store"} /\ Top.reg + 1 \in Nat \cup {Unknown}
    BY <1>2
  <2> QED
    BY <1>2, <1>3, <2>1, Fields
<1>5. /\ f.pc = (IF Top.todo = {"bump"} THEN "check" ELSE "put")
      /\ f.todo = Top.todo \ {"bump"} /\ f.reg = Top.reg /\ f.ch = Top.ch
  BY <1>2 DEF Frame, Settled
<1>6. AtTop(f)
  BY DEF Bump
<1> HIDE DEF f
<1>7. Active' /\ Top' = f
  BY <1>1, <1>2, <1>4, <1>6, AtTopIs DEF SameBelow
<1>8. PutOK' /\ ResetOK'
  BY <1>1, <1>5, <1>7 DEF PutOK, ResetOK, Written
<1>9. Lost' \subseteq Lost
  <2> SUFFICES ASSUME NEW x \in 1 .. count, ~IsOut(x)', ~Waits(x)', ~UnderWay(x)'
               PROVE  x \in Lost
    BY <1>1 DEF Lost
  <2>1. ~IsOut(x)
    BY <1>1 DEF IsOut
  <2>2. outlen <= Top.reg
    BY <1>1, <1>2 DEF LInv, LostOK, PutOK
  <2>3. ~Waits(x)
    <3> SUFFICES ASSUME NEW i \in 0 .. outlen - 1, i \in DOMAIN outbuf, outbuf[i] = x
                 PROVE  Waits(x)'
      BY DEF Waits
    <3>1. i # Top.reg /\ i \in 0 .. outlen' - 1
      BY <1>1, <1>2, <2>2
    <3> QED
      BY <1>1, <1>5, <1>7, <3>1 DEF Waits, Storing
  <2>4. ~UnderWay(x)
    <3> SUFFICES ASSUME x = Top.ch,
                        \/ "store" \in Top.todo
                        \/ Top.reg \in DOMAIN outbuf /\ outbuf[Top.reg] = x
                 PROVE  Waits(x)' \/ UnderWay(x)'
      BY DEF UnderWay
    <3>1. CASE "store" \in Top.todo
      BY <1>1, <1>5, <1>7, <3>1 DEF UnderWay
    <3>2. CASE "store" \notin Top.todo
      <4>1. /\ Top.reg \in 0 .. outlen' - 1 /\ Top.reg \in DOMAIN outbuf'
            /\ outbuf'[Top.reg] = x /\ ~Storing'
        BY <1>1, <1>2, <1>5, <1>7, <3>2 DEF Storing
      <4> QED
        BY <4>1 DEF Waits
    <3> QED
      BY <3>1, <3>2
  <2> QED
    BY <2>1, <2>3, <2>4 DEF Lost
<1> QED
  BY <1>1, <1>2, <1>8, <1>9, FewLostKept DEF LInv, LostOK, NoMoreLost

\* The place the byte is stored at held none that waits.
LEMMA StoreLost == LInv /\ Store => LostOK'
<1> SUFFICES ASSUME LInv, Store PROVE LostOK'
  OBVIOUS
<1>1. /\ Active /\ Top.pc = "put" /\ "store" \in Top.todo
      /\ outbuf' = [i \in DOMAIN outbuf \cup {Top.reg} |-> IF i = Top.reg THEN Top.ch ELSE outbuf[i]]
      /\ UNCHANGED <<outlen, count, out, signals, short>>
  BY DEF Store
<1>2. /\ Top \in Frame /\ Top.reg \in Nat
      /\ Top.todo \in SUBSET {"bump", "store"}
      /\ count \in Nat /\ outlen \in Nat /\ TypeOK
  BY <1>1, SeenIs DEF LInv, IInv, TypeOK, Frame
<1> DEFINE f == [Top EXCEPT !.pc = Settled("store"), !.todo = Top.todo \ {"store"}]
<1>3. Settled("store") \in PCs
  BY DEF Settled, PCs
<1>4. f \in Frame
  BY <1>2, <1>3, Fields
<1>5. /\ f.pc = (IF Top.todo = {"store"} THEN "check" ELSE "put")
      /\ f.todo = Top.todo \ {"store"} /\ f.reg = Top.reg /\ f.ch = Top.ch
  BY <1>2 DEF Frame, Settled
<1>6. AtTop(f)
  BY DEF Store
<1> HIDE DEF f
<1>7. Active' /\ Top' = f
  BY <1>1, <1>2, <1>4, <1>6, AtTopIs DEF SameBelow
<1>8. PutOK' /\ ResetOK'
  BY <1>1, <1>5, <1>7 DEF PutOK, ResetOK, Written, LInv, LostOK
<1>9. Lost' \subseteq Lost
  <2> SUFFICES ASSUME NEW x \in 1 .. count, ~IsOut(x)', ~Waits(x)', ~UnderWay(x)'
               PROVE  x \in Lost
    BY <1>1 DEF Lost
  <2>1. ~IsOut(x)
    BY <1>1 DEF IsOut
  <2>2. ~Waits(x)
    <3> SUFFICES ASSUME NEW i \in 0 .. outlen - 1, i \in DOMAIN outbuf,
                        outbuf[i] = x, i # Top.reg
                 PROVE  Waits(x)'
      BY <1>1 DEF Waits, Storing
    <3>1. i \in DOMAIN outbuf' /\ outbuf'[i] = x
      BY <1>1
    <3> QED
      BY <1>1, <1>5, <1>7, <3>1 DEF Waits, Storing
  <2>3. ~UnderWay(x)
    <3> SUFFICES ASSUME x = Top.ch, "bump" \in Top.todo \/ outlen = Top.reg + 1
                 PROVE  Waits(x)' \/ UnderWay(x)'
      BY DEF UnderWay
    <3>1. Top.reg \in DOMAIN outbuf' /\ outbuf'[Top.reg] = x
      BY <1>1
    <3>2. CASE "bump" \in Top.todo
      BY <1>1, <1>5, <1>7, <3>1, <3>2 DEF UnderWay
    <3>3. CASE outlen = Top.reg + 1
      <4>1. Top.reg \in 0 .. outlen' - 1 /\ ~Storing'
        BY <1>1, <1>2, <1>5, <1>7, <3>3 DEF Storing
      <4> QED
        BY <3>1, <4>1 DEF Waits
    <3> QED
      BY <3>2, <3>3
  <2> QED
    BY <2>1, <2>2, <2>3 DEF Lost
<1> QED
  BY <1>1, <1>2, <1>8, <1>9, FewLostKept DEF LInv, LostOK, NoMoreLost

\* A step of the call on top that is no put and no write.
LEMMA QuietLost ==
  ASSUME LInv, Top.pc \in {"emit", "check"}, Active',
         Top'.pc \in {"emit", "flush", "last"},
         UNCHANGED <<outlen, outbuf, count, out, signals, short>>
  PROVE  LostOK'
<1>1. PutOK' /\ ResetOK'
  BY DEF PutOK, ResetOK, Written
<1>2. Lost' \subseteq Lost
  BY DEF Lost, IsOut, Waits, Storing, UnderWay
<1> QED
  BY <1>1, <1>2, FewLostKept DEF LInv, IInv, LostOK, NoMoreLost

\* emit's test changes nothing.
LEMMA CheckLost == LInv /\ Check => LostOK'
<1> SUFFICES ASSUME LInv, Check PROVE LostOK'
  OBVIOUS
<1>1. PICK n \in Seen :
        AtTop([Top EXCEPT !.pc = IF Full(n) THEN "flush" ELSE "emit", !.known = n])
  BY DEF Check
<1>2. Active /\ Top.pc = "check" /\ UNCHANGED <<outlen, outbuf, count, out, signals, short>>
  BY DEF Check
<1>3. Top \in Frame /\ n \in Nat
  BY <1>2, SeenIs DEF LInv
<1> DEFINE p == IF Full(n) THEN "flush" ELSE "emit"
           f == [Top EXCEPT !.pc = p, !.known = n]
<1>4. f \in Frame /\ f.pc \in {"flush", "emit"}
  <2>1. p \in PCs
    BY DEF PCs
  <2>2. f \in Frame
    BY <1>3, <2>1, Fields
  <2> QED
    BY <1>3, <2>2 DEF Frame
<1>5. AtTop(f)
  BY <1>1
<1> HIDE DEF f
<1>6. Active' /\ Top' = f
  BY <1>2, <1>4, <1>5, AtTopIs DEF SameBelow, LInv, IInv
<1> QED
  BY <1>2, <1>4, <1>6, QuietLost

\* Nor does the end of the text.
LEMMA LastFlushLost == LInv /\ LastFlush => LostOK'
<1> SUFFICES ASSUME LInv, LastFlush PROVE LostOK'
  OBVIOUS
<1>1. Active /\ Top.pc = "emit" /\ UNCHANGED <<outlen, outbuf, count, out, signals, short>>
  BY DEF LastFlush
<1> DEFINE f == [Top EXCEPT !.pc = "last"]
<1>2. Top \in Frame
  BY <1>1, SeenIs DEF LInv
<1>3. f \in Frame /\ f.pc = "last"
  <2>1. f \in Frame
    BY <1>2, OneField DEF PCs
  <2> QED
    BY <1>2, <2>1 DEF Frame
<1>4. AtTop(f)
  BY DEF LastFlush
<1> HIDE DEF f
<1>5. Active' /\ Top' = f
  BY <1>1, <1>3, <1>4, AtTopIs DEF SameBelow, LInv, IInv
<1> QED
  BY <1>1, <1>3, <1>5, QuietLost

\* A flush that finds an empty buffer has nothing to lose.
LEMMA FlushEmptyLost == LInv /\ FlushEmpty => LostOK'
<1> SUFFICES ASSUME LInv, FlushEmpty PROVE LostOK'
  OBVIOUS
<1>1. /\ Active /\ Top.pc # "put" /\ Resume /\ outlen = 0
      /\ UNCHANGED <<outlen, outbuf, count, out, signals, short>>
  BY EmptyIsOut DEF FlushEmpty, LInv
<1>2. \A x : ~Waits(x)
  BY <1>1 DEF Waits
<1> QED
  BY <1>1, <1>2, ResumeLost

\* What a flush throws away is out.
LEMMA FlushResetLost == LInv /\ FlushReset => LostOK'
<1> SUFFICES ASSUME LInv, FlushReset PROVE LostOK'
  OBVIOUS
<1>1. /\ Active /\ Top.pc # "put" /\ Resume /\ outlen' = 0 /\ Written
      /\ UNCHANGED <<outbuf, count, out, signals, short>>
  BY DEF FlushReset, Written
<1>2. short = 0 => \A x : Waits(x) => IsOut(x)
  BY <1>1 DEF LInv, LostOK, ResetOK
<1> QED
  BY <1>1, <1>2, ResumeLost

\* A write that takes everything puts all that waits out.
LEMMA FlushWriteLost == LInv /\ FlushWrite => LostOK'
<1> SUFFICES ASSUME LInv, FlushWrite PROVE LostOK'
  OBVIOUS
<1>1. /\ Active /\ Top.pc \in {"flush", "last"}
      /\ UNCHANGED <<outlen, outbuf, count, signals>>
  BY DEF FlushWrite
<1>2. PICK n \in Seen : n > 0 /\ Write([i \in 1 .. n |-> outbuf[i - 1]])
  BY DEF FlushWrite
<1>3. /\ Top \in Frame /\ n \in Nat /\ (n = outlen \/ outlen = 0)
      /\ short \in Nat /\ outlen \in Nat /\ IsSeq(out) /\ Len(out) \in Nat /\ TypeOK
  BY <1>1, SeenIs DEF LInv, IInv, TypeOK, IsSeq
<1> DEFINE bytes == [i \in 1 .. n |-> outbuf[i - 1]]
<1>4. Len(bytes) = n /\ IsSeq(bytes) /\ \A i \in 1 .. n : bytes[i] = outbuf[i - 1]
  BY <1>3 DEF IsSeq
<1>5. Write(bytes)
  BY <1>2
<1> HIDE DEF bytes
<1>6. PICK k \in 0 .. n : Took(bytes, k)
  BY <1>3, <1>4, <1>5, WriteIs
<1>7. short' = 0 =>
        /\ short = 0
        /\ \A x : IsOut(x) \/ Waits(x) => IsOut(x)'
  <2> SUFFICES ASSUME short' = 0
               PROVE  short = 0 /\ \A x : IsOut(x) \/ Waits(x) => IsOut(x)'
    OBVIOUS
  <2>1. short = 0 /\ k = n
    BY <1>4, <1>6 DEF Took
  <2>2. ASSUME NEW x, IsOut(x) PROVE IsOut(x)'
    <3>1. PICK i \in 1 .. Len(out) : out[i] = x
      BY <2>2 DEF IsOut
    <3>2. i \in 1 .. Len(out') /\ out'[i] = x
      BY <1>3, <1>6, <3>1 DEF Took
    <3> QED
      BY <3>2 DEF IsOut
  <2>3. ASSUME NEW x, Waits(x) PROVE IsOut(x)'
    <3>1. PICK i \in 0 .. outlen - 1 : outbuf[i] = x
      BY <2>3 DEF Waits
    <3>2. i + 1 \in 1 .. n /\ (i + 1) - 1 = i
      BY <1>3
    <3>3. bytes[i + 1] = x
      BY <1>4, <3>1, <3>2
    <3>4. Len(out) + (i + 1) \in 1 .. Len(out') /\ out'[Len(out) + (i + 1)] = x
      BY <1>3, <1>6, <2>1, <3>2, <3>3 DEF Took
    <3> QED
      BY <3>4 DEF IsOut
  <2> QED
    BY <2>1, <2>2, <2>3
<1> DEFINE p == IF Top.pc = "flush" THEN "reset" ELSE "reset_last"
           f == [Top EXCEPT !.pc = p]
<1>8. f \in Frame /\ f.pc \in {"reset", "reset_last"}
  <2>1. f \in Frame
    BY <1>3, OneField DEF PCs
  <2> QED
    BY <1>3, <2>1 DEF Frame
<1>9. AtTop(f)
  BY DEF FlushWrite
<1> HIDE DEF f
<1>10. Active' /\ Top' = f
  BY <1>1, <1>3, <1>8, <1>9, AtTopIs DEF SameBelow
<1>11. \A x : Waits(x)' => Waits(x)
  BY <1>1, <1>8, <1>10 DEF Waits, Storing
<1>12. PutOK' /\ ResetOK'
  BY <1>7, <1>8, <1>10, <1>11 DEF PutOK, ResetOK
<1>13. short' = 0 => Lost' \subseteq Lost
  BY <1>1, <1>7 DEF Lost, UnderWay
<1> QED
  BY <1>1, <1>3, <1>7, <1>12, <1>13, FewLostKept DEF LInv, LostOK, NoMoreLost

\* No step loses more bytes than it delivers signals.
LEMMA NextLost == LInv /\ [Next]_vars => LInv'
<1> SUFFICES ASSUME LInv, [Next]_vars PROVE LInv'
  OBVIOUS
<1>1. IInv'
  BY NextInv DEF LInv
<1>2. CASE UNCHANGED vars
  <2>1. UNCHANGED <<outlen, outbuf, frames, count, out, signals, short>>
    BY <1>2 DEF vars
  <2>2. Lost' = Lost /\ PutOK' /\ ResetOK'
    BY <2>1 DEF Lost, IsOut, Waits, Storing, UnderWay, Active, Top, PutOK, ResetOK, Written,
                LInv, LostOK
  <2> QED
    BY <1>1, <2>1, <2>2 DEF LInv, LostOK, FewLost
<1> QED
  BY <1>1, <1>2, PutsLost, PutcharLost, SignalLost, FetchLost, BumpLost, StoreLost, CheckLost,
     LastFlushLost, FlushEmptyLost, FlushWriteLost, FlushResetLost
     DEF Next, Running, Terminating, LInv

\* While write takes what it is given, a signal costs at most one byte of all
\* that is printed, however deep handlers are nested and whichever order and
\* registers the compiler chose for the two steps of emit (stdio.c:29).
THEOREM LostBoundHolds == Spec => []LostBound
<1>1. Init => LInv
  BY InitInv, InitLost DEF LInv
<1>2. LInv /\ [Next]_vars => LInv'
  BY NextLost
<1>3. LInv => LostBound
  <2> SUFFICES ASSUME LInv, ~Active, short = 0
               PROVE  Cardinality((1 .. count) \ ToSet(out)) <= signals
    BY DEF LostBound
  <2>1. outlen = 0 /\ IsSeq(out)
    BY DEF LInv, IInv, KnownOK, TypeOK
  <2>2. DOMAIN out = 1 .. Len(out)
    BY <2>1 DEF IsSeq
  <2>3. \A x : IsOut(x) <=> x \in ToSet(out)
    BY <2>2 DEF IsOut, ToSet
  <2>4. \A x : ~Waits(x) /\ ~UnderWay(x)
    BY <2>1 DEF Waits, UnderWay
  <2>5. Lost = (1 .. count) \ ToSet(out)
    BY <2>3, <2>4 DEF Lost
  <2> QED
    BY <2>5 DEF LInv, LostOK, FewLost
<1> QED
  BY <1>1, <1>2, <1>3, PTL DEF Spec
=============================================================================
