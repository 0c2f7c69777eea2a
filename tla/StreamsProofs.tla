---------------------------- MODULE StreamsProofs ----------------------------
(***************************************************************************)
(* The safety of the FILE streams for any number of FILEs, descriptors and *)
(* items, any length of a line, and a kernel that fails whenever it likes. *)
(***************************************************************************)
EXTENDS Streams, TLAPS

-----------------------------------------------------------------------------
(* The inductive invariant.                                                *)

\* A record of the shape call has; its fields are typed where they are used.
CallShape(c) ==
  c = [stream |-> c.stream, fd |-> c.fd, size |-> c.size, s |-> c.s,
       text |-> c.text, cause |-> c.cause]

TypeOK ==
  /\ Std \in DOMAIN files /\ DOMAIN files \subseteq Files \cup {Std}
  /\ files \in [DOMAIN files -> [fd : Nat, eof : BOOLEAN, err : BOOLEAN]]
  /\ stuck \subseteq fds
  /\ pc \in {"idle", "alloc", "undo", "gets", "perror"}
  /\ CallShape(call)
  /\ pc \in {"alloc", "undo"} => call.fd \in Fds
  /\ owed \in [Files \cup {Std} -> Seq(Bytes)]

Opening == pc \in {"alloc", "undo"}

\* The descriptors that count as open are those of FILEs, each of one, and the
\* one fopen has in its hands.
FdsOK ==
  /\ \A d : d \in fds \ stuck <=> \/ \E f \in Own : files[f].fd = d
                                  \/ Opening /\ call.fd = d
  /\ \A f, g \in Own : files[f].fd = files[g].fd => f = g
  /\ Opening => \A f \in Own : files[f].fd # call.fd

\* In the middle of fgets, what the stream owes is what the array holds.
OwedOK ==
  /\ pc = "gets" =>
       /\ call.stream \in DOMAIN files
       /\ call.size \in Nat /\ call.s \in Seq(Bytes) /\ Len(call.s) < call.size
       /\ owed[call.stream] = call.s
  /\ \A f \in Files \cup {Std} : f # call.stream \/ pc # "gets" => owed[f] = <<>>

\* While fopen gives the descriptor back, errno is malloc's; FailureNamed
\* speaks of the calls that returned.
ErrnoOK ==
  /\ pc = "undo" /\ quiet => errno = ENOMEM
  /\ FailureNamed

\* The text perror is to write was looked up while errno was the call's.
ToldOK ==
  /\ pc = "perror" /\ call.cause # 0 => call.text = ErrorText[call.cause]
  /\ PerrorTells

IInv == TypeOK /\ FdsOK /\ OwedOK /\ ErrnoOK /\ ToldOK /\ EofExplained

-----------------------------------------------------------------------------
(* Lemmas that several actions need.                                       *)

\* The errors are told apart from success.
LEMMA Errors ==
  /\ ENOENT # 0 /\ EIO # 0 /\ EBADF # 0 /\ ENOMEM # 0
  /\ \A e \in {ENOENT, EIO, EBADF} : Syscall(-e) => errno' = e /\ quiet' = TRUE
  /\ \A raw \in Nat : Syscall(raw) => UNCHANGED <<errno, quiet>>
<1>1. \A e \in 1 .. 4095 : -e < 0 /\ -e >= -4095 /\ -(-e) = e
  OBVIOUS
<1>2. ASSUME NEW e \in {ENOENT, EIO, EBADF}, Syscall(-e)
      PROVE  errno' = e /\ quiet' = TRUE
  BY <1>1, <1>2 DEF Syscall, ENOENT, EIO, EBADF
<1>3. ASSUME NEW raw \in Nat, Syscall(raw)
      PROVE  UNCHANGED <<errno, quiet>>
  BY <1>3 DEF Syscall
<1>4. ENOENT # 0 /\ EIO # 0 /\ EBADF # 0 /\ ENOMEM # 0
  BY DEF ENOENT, EIO, EBADF, ENOMEM
<1> QED
  BY <1>2, <1>3, <1>4

\* A FILE may change its flags, no other field.
LEMMA FlagsKeepFiles ==
  ASSUME TypeOK, NEW f \in DOMAIN files, NEW e \in BOOLEAN, NEW r \in BOOLEAN,
         files' = [files EXCEPT ![f] = [fd |-> files[f].fd, eof |-> e, err |-> r]]
  PROVE  /\ DOMAIN files' = DOMAIN files
         /\ files' \in [DOMAIN files -> [fd : Nat, eof : BOOLEAN, err : BOOLEAN]]
         /\ \A g \in DOMAIN files : files'[g].fd = files[g].fd
         /\ files'[f].eof = e /\ files'[f].err = r
<1>1. [fd |-> files[f].fd, eof |-> e, err |-> r] \in [fd : Nat, eof : BOOLEAN, err : BOOLEAN]
  BY DEF TypeOK
<1>2. files'[f] = [fd |-> files[f].fd, eof |-> e, err |-> r]
  BY DEF TypeOK
<1>3. \A g \in DOMAIN files : g # f => files'[g] = files[g]
  BY DEF TypeOK
<1> QED
  BY <1>1, <1>2, <1>3 DEF TypeOK

\* A FILE is its three fields.
LEMMA RecordFlags ==
  ASSUME NEW r \in [fd : Nat, eof : BOOLEAN, err : BOOLEAN], NEW b
  PROVE  /\ [r EXCEPT !.eof = b] = [fd |-> r.fd, eof |-> b, err |-> r.err]
         /\ [r EXCEPT !.err = b] = [fd |-> r.fd, eof |-> r.eof, err |-> b]
         /\ [r EXCEPT !.eof = b, !.err = b] = [fd |-> r.fd, eof |-> b, err |-> b]
<1>1. [r EXCEPT !.eof = b] = [fd |-> r.fd, eof |-> b, err |-> r.err]
  OBVIOUS
<1>2. [r EXCEPT !.err = b] = [fd |-> r.fd, eof |-> r.eof, err |-> b]
  OBVIOUS
<1>3. [r EXCEPT !.eof = b, !.err = b] = [fd |-> r.fd, eof |-> b, err |-> b]
  <2>1. [r EXCEPT !.eof = b, !.err = b] = [[r EXCEPT !.eof = b] EXCEPT !.err = b]
    OBVIOUS
  <2>2. \A q : q = [fd |-> r.fd, eof |-> b, err |-> r.err]
                => [q EXCEPT !.err = b] = [fd |-> r.fd, eof |-> b, err |-> b]
    OBVIOUS
  <2> QED
    BY <1>1, <2>1, <2>2
<1> QED
  BY <1>1, <1>2, <1>3

\* The ways a flag is set, or both are cleared, are such changes.
LEMMA FlagsSet ==
  ASSUME TypeOK, NEW f \in DOMAIN files, NEW b \in BOOLEAN
  PROVE  /\ files[f].eof \in BOOLEAN /\ files[f].err \in BOOLEAN
         /\ [files EXCEPT ![f].eof = b]
              = [files EXCEPT ![f] = [fd |-> files[f].fd, eof |-> b, err |-> files[f].err]]
         /\ [files EXCEPT ![f].err = b]
              = [files EXCEPT ![f] = [fd |-> files[f].fd, eof |-> files[f].eof, err |-> b]]
         /\ [files EXCEPT ![f].eof = b, ![f].err = b]
              = [files EXCEPT ![f] = [fd |-> files[f].fd, eof |-> b, err |-> b]]
<1>1. files[f] \in [fd : Nat, eof : BOOLEAN, err : BOOLEAN]
  BY DEF TypeOK
<1>2. /\ [files[f] EXCEPT !.eof = b] = [fd |-> files[f].fd, eof |-> b, err |-> files[f].err]
      /\ [files[f] EXCEPT !.err = b] = [fd |-> files[f].fd, eof |-> files[f].eof, err |-> b]
      /\ [files[f] EXCEPT !.eof = b, !.err = b] = [fd |-> files[f].fd, eof |-> b, err |-> b]
  BY <1>1, RecordFlags
<1>3. /\ [files EXCEPT ![f].eof = b] = [files EXCEPT ![f] = [files[f] EXCEPT !.eof = b]]
      /\ [files EXCEPT ![f].err = b] = [files EXCEPT ![f] = [files[f] EXCEPT !.err = b]]
      /\ [files EXCEPT ![f].eof = b, ![f].err = b]
           = [files EXCEPT ![f] = [files[f] EXCEPT !.eof = b, !.err = b]]
  BY DEF TypeOK
<1> QED
  BY <1>1, <1>2, <1>3

\* Where no descriptor moves, FILEs and descriptors stay paired.
LEMMA FdsKept ==
  ASSUME FdsOK, UNCHANGED <<fds, stuck>>, ~Opening, ~Opening',
         DOMAIN files' = DOMAIN files,
         \A g \in DOMAIN files : files'[g].fd = files[g].fd
  PROVE  FdsOK'
<1>1. Own' = Own /\ \A g \in Own : files'[g].fd = files[g].fd
  BY DEF Own
<1> QED
  BY <1>1 DEF FdsOK

\* Outside fgets the bytes owed to a caller are those owed before.
LEMMA OwedKept ==
  ASSUME OwedOK, owed' = owed, pc # "gets", pc' # "gets"
  PROVE  OwedOK'
BY DEF OwedOK

\* A result that is good, or says what failed if errno does, or blames a
\* stream whose flags tell.
Sound(result) ==
  /\ result.said = ""
  /\ ~result.ok /\ result.cause # 0 /\ quiet' => errno' = Named(result)
  /\ ~result.ok /\ ~result.torn =>
       \A f \in result.on :
         f \in DOMAIN files' /\ IF result.cause = 0 THEN files'[f].eof ELSE files'[f].err

\* The results the functions give are sound.
LEMMA Results ==
  /\ Sound(Good)
  /\ \A t : Sound([Good EXCEPT !.torn = t])
  /\ Sound(Failed(0))
  /\ \A e : errno' = e => Sound(Failed(e))
  /\ errno' = EIO => Sound(FailedTwice(ENOMEM, EIO))
  /\ \A f \in DOMAIN files' : files'[f].eof => Sound(ReadNothing(f, 0))
  /\ \A f \in DOMAIN files' : files'[f].err /\ errno' = EIO => Sound(ReadNothing(f, EIO))
  /\ \A f : Sound([ReadNothing(f, 0) EXCEPT !.torn = TRUE])
  /\ \A f \in DOMAIN files' : files'[f].eof => \A t : Sound([ReadNothing(f, 0) EXCEPT !.torn = t])
<1> USE DEF Sound, Good, Named
<1>1. Sound(Good) /\ \A t : Sound([Good EXCEPT !.torn = t])
  OBVIOUS
<1>2. Sound(Failed(0)) /\ \A e : errno' = e => Sound(Failed(e))
  BY DEF Failed
<1>3. errno' = EIO => Sound(FailedTwice(ENOMEM, EIO))
  BY DEF FailedTwice, EIO
<1>4. /\ \A f \in DOMAIN files' : files'[f].eof => Sound(ReadNothing(f, 0))
      /\ \A f \in DOMAIN files' : files'[f].err /\ errno' = EIO => Sound(ReadNothing(f, EIO))
  BY DEF ReadNothing, EIO
<1>5. /\ \A f : Sound([ReadNothing(f, 0) EXCEPT !.torn = TRUE])
      /\ \A f \in DOMAIN files' :
           files'[f].eof => \A t : Sound([ReadNothing(f, 0) EXCEPT !.torn = t])
  BY DEF ReadNothing
<1> QED
  BY <1>1, <1>2, <1>3, <1>4, <1>5

\* What a call that returns such a result leaves behind.
LEMMA ReturnOK ==
  ASSUME NEW result, Sound(result), Return(result)
  PROVE  ErrnoOK' /\ ToldOK' /\ EofExplained' /\ CallShape(call)' /\ pc' = "idle"
<1>1. pc' = "idle" /\ last' = result /\ call' = NoCall
  BY DEF Return
<1>2. ErrnoOK'
  BY <1>1 DEF Sound, ErrnoOK, FailureNamed
<1>3. ToldOK'
  BY <1>1 DEF Sound, ToldOK, PerrorTells
<1>4. EofExplained'
  BY <1>1 DEF Sound, EofExplained
<1>5. CallShape(call)'
  BY <1>1 DEF CallShape, NoCall
<1> QED
  BY <1>1, <1>2, <1>3, <1>4, <1>5

\* read failed or delivered: the FILEs keep their descriptors.
LEMMA ReadKeepsFiles ==
  ASSUME TypeOK, NEW f \in DOMAIN files, NEW s,
         ReadFails(f) \/ (Len(s) \in Nat /\ ReadGot(f, s))
  PROVE  /\ DOMAIN files' = DOMAIN files
         /\ files' \in [DOMAIN files -> [fd : Nat, eof : BOOLEAN, err : BOOLEAN]]
         /\ \A g \in DOMAIN files : files'[g].fd = files[g].fd
         /\ ReadFails(f) => files'[f].err /\ errno' = EIO
         /\ ReadGot(f, s) /\ s = <<>> => files'[f].eof
         /\ ReadGot(f, s) /\ s # <<>> => files' = files
<1>1. files' = [files EXCEPT ![f].err = TRUE]
        => /\ DOMAIN files' = DOMAIN files
           /\ files' \in [DOMAIN files -> [fd : Nat, eof : BOOLEAN, err : BOOLEAN]]
           /\ \A g \in DOMAIN files : files'[g].fd = files[g].fd
           /\ files'[f].err
  BY FlagsSet, FlagsKeepFiles
<1>2. files' = [files EXCEPT ![f].eof = TRUE]
        => /\ DOMAIN files' = DOMAIN files
           /\ files' \in [DOMAIN files -> [fd : Nat, eof : BOOLEAN, err : BOOLEAN]]
           /\ \A g \in DOMAIN files : files'[g].fd = files[g].fd
           /\ files'[f].eof
  BY FlagsSet, FlagsKeepFiles
<1>3. files' = files
        => /\ DOMAIN files' = DOMAIN files
           /\ files' \in [DOMAIN files -> [fd : Nat, eof : BOOLEAN, err : BOOLEAN]]
           /\ \A g \in DOMAIN files : files'[g].fd = files[g].fd
  BY DEF TypeOK
<1>4. ReadFails(f) => files' = [files EXCEPT ![f].err = TRUE] /\ errno' = EIO
  BY Errors DEF ReadFails
<1>5. ReadGot(f, s) => files' = IF s = <<>> THEN [files EXCEPT ![f].eof = TRUE] ELSE files
  BY DEF ReadGot
<1> QED
  BY <1>1, <1>2, <1>3, <1>4, <1>5

\* The sequences read may deliver.
LEMMA UpToSeq ==
  ASSUME NEW n \in Nat, NEW s \in UpTo(n)
  PROVE  s \in Seq(Bytes) /\ Len(s) \in Nat /\ (Len(s) = 0 => s = <<>>)
<1>1. PICK k \in 0 .. n : s \in [1 .. k -> Bytes]
  BY DEF UpTo
<1> QED
  BY <1>1

\* A call that returns at once, with the FILEs, descriptors and debts it found.
LEMMA QuickReturn ==
  ASSUME IInv, pc = "idle", NEW result, Sound(result), Return(result),
         UNCHANGED <<fds, stuck, owed>>,
         DOMAIN files' = DOMAIN files,
         files' \in [DOMAIN files -> [fd : Nat, eof : BOOLEAN, err : BOOLEAN]],
         \A g \in DOMAIN files : files'[g].fd = files[g].fd
  PROVE  IInv'
<1>1. /\ ErrnoOK' /\ ToldOK' /\ EofExplained' /\ CallShape(call)' /\ pc' = "idle"
  BY ReturnOK
<1>2. TypeOK'
  BY <1>1 DEF IInv, TypeOK
<1>3. FdsOK'
  BY <1>1, FdsKept DEF IInv, Opening
<1>4. OwedOK'
  BY <1>1, OwedKept DEF IInv
<1> QED
  BY <1>1, <1>2, <1>3, <1>4 DEF IInv

-----------------------------------------------------------------------------
(* The proof of the invariant, action by action.                           *)

\* At the start the standard streams are open, and nothing has failed or is owed.
LEMMA InitInv == Init => IInv
<1> SUFFICES ASSUME Init PROVE IInv
  OBVIOUS
<1> USE DEF Init
<1>1. TypeOK
  <2>1. Fresh(0) \in [fd : Nat, eof : BOOLEAN, err : BOOLEAN] /\ CallShape(NoCall)
    BY DEF Fresh, CallShape, NoCall
  <2>2. owed \in [Files \cup {Std} -> Seq(Bytes)]
    OBVIOUS
  <2> QED
    BY <2>1, <2>2 DEF TypeOK
<1>2. FdsOK
  BY DEF FdsOK, Own, Opening
<1>3. OwedOK
  BY DEF OwedOK
<1>4. ErrnoOK /\ ToldOK /\ EofExplained
  BY DEF ErrnoOK, FailureNamed, ToldOK, PerrorTells, EofExplained, Good
<1> QED
  BY <1>1, <1>2, <1>3, <1>4 DEF IInv

\* fopen refuses a mode: nothing was opened.
LEMMA FopenRefuseInv == IInv /\ FopenRefuse => IInv'
BY QuickReturn, Results DEF FopenRefuse, IInv, TypeOK

\* open failed, and errno tells, or gave a descriptor that has no FILE yet.
LEMMA FopenOpenInv == IInv /\ FopenOpen => IInv'
<1> SUFFICES ASSUME IInv, FopenOpen PROVE IInv'
  OBVIOUS
<1> USE DEF FopenOpen
<1>1. CASE Syscall(-ENOENT) /\ Return(Failed(ENOENT)) /\ UNCHANGED fds
  <2>1. errno' = ENOENT
    BY <1>1, Errors
  <2> QED
    BY <1>1, <2>1, QuickReturn, Results DEF IInv, TypeOK
<1>2. CASE \E fd \in Fds \ fds :
             /\ Syscall(fd) /\ fds' = fds \cup {fd}
             /\ pc' = "alloc" /\ call' = [NoCall EXCEPT !.fd = fd] /\ UNCHANGED last
  <2>1. PICK fd \in Fds \ fds :
             /\ Syscall(fd) /\ fds' = fds \cup {fd}
             /\ pc' = "alloc" /\ call' = [NoCall EXCEPT !.fd = fd] /\ UNCHANGED last
    BY <1>2
  <2>2. UNCHANGED <<errno, quiet, files, stuck, owed, last>> /\ call'.fd = fd
    BY <2>1, Errors, StreamsAssumption DEF NoCall
  <2>3. TypeOK'
    BY <2>1, <2>2 DEF IInv, TypeOK, CallShape, NoCall
  <2>4. FdsOK'
    <3>1. \A f \in Own : files[f].fd # fd
      BY <2>1 DEF IInv, FdsOK
    <3>2. Own' = Own /\ Opening' /\ ~Opening
      BY <2>1, <2>2 DEF Own, Opening
    <3>3. fds' \ stuck' = (fds \ stuck) \cup {fd}
      BY <2>1, <2>2 DEF IInv, TypeOK
    <3> QED
      BY <2>2, <3>1, <3>2, <3>3 DEF IInv, FdsOK
  <2>5. OwedOK'
    BY <2>1, <2>2, OwedKept DEF IInv
  <2>6. ErrnoOK' /\ ToldOK' /\ EofExplained'
    BY <2>1, <2>2 DEF IInv, ErrnoOK, FailureNamed, ToldOK, PerrorTells, EofExplained, Own
  <2> QED
    BY <2>3, <2>4, <2>5, <2>6 DEF IInv
<1> QED
  BY <1>1, <1>2

\* The new FILE takes the descriptor over that fopen held.
LEMMA FopenDoneInv == IInv /\ FopenDone => IInv'
<1> SUFFICES ASSUME IInv, FopenDone PROVE IInv'
  OBVIOUS
<1> USE DEF FopenDone
<1>1. PICK f \in Files \ DOMAIN files :
        /\ files' = [g \in DOMAIN files \cup {f} |->
                       IF g = f THEN Fresh(call.fd) ELSE files[g]]
        /\ owed' = [owed EXCEPT ![f] = <<>>]
  OBVIOUS
<1>2. ErrnoOK' /\ ToldOK' /\ EofExplained' /\ CallShape(call)' /\ pc' = "idle"
  BY ReturnOK, Results
<1>3. TypeOK'
  <2>1. call.fd \in Nat
    BY StreamsAssumption DEF IInv, TypeOK
  <2>2. Fresh(call.fd) \in [fd : Nat, eof : BOOLEAN, err : BOOLEAN]
    BY <2>1 DEF Fresh
  <2>3. files' \in [DOMAIN files' -> [fd : Nat, eof : BOOLEAN, err : BOOLEAN]]
    BY <1>1, <2>2 DEF IInv, TypeOK
  <2> QED
    BY <1>1, <1>2, <2>3 DEF IInv, TypeOK
<1>4. FdsOK'
  <2>1. Own' = Own \cup {f} /\ f \notin Own
    BY <1>1, StreamsAssumption DEF Own, IInv, TypeOK
  <2>2. files'[f].fd = call.fd /\ \A g \in Own : files'[g].fd = files[g].fd
    BY <1>1, <2>1 DEF Fresh, Own
  <2>3. Opening /\ ~Opening'
    BY <1>2 DEF Opening
  <2>4. \A d : (\E g \in Own' : files'[g].fd = d) <=> (\E g \in Own : files[g].fd = d) \/ call.fd = d
    BY <2>1, <2>2
  <2>5. \A g, h \in Own' : files'[g].fd = files'[h].fd => g = h
    <3>1. \A g \in Own : files'[g].fd # files'[f].fd
      BY <2>2, <2>3 DEF IInv, FdsOK
    <3>2. \A g, h \in Own : files[g].fd = files[h].fd => g = h
      BY DEF IInv, FdsOK
    <3>3. \A g, h \in Own : files'[g].fd = files'[h].fd => g = h
      BY <2>2, <3>2
    <3> QED
      BY <2>1, <3>1, <3>3
  <2> QED
    BY <2>3, <2>4, <2>5 DEF IInv, FdsOK
<1>5. OwedOK'
  BY <1>1, <1>2 DEF IInv, TypeOK, OwedOK
<1> QED
  BY <1>2, <1>3, <1>4, <1>5 DEF IInv

\* malloc failed: the descriptor is still without a FILE.
LEMMA FopenNoMemoryInv == IInv /\ FopenNoMemory => IInv'
<1> SUFFICES ASSUME IInv, FopenNoMemory PROVE IInv'
  OBVIOUS
<1> USE DEF FopenNoMemory
<1>1. TypeOK'
  BY DEF IInv, TypeOK
<1>2. FdsOK'
  <2>1. Own' = Own /\ Opening /\ Opening'
    BY DEF Own, Opening
  <2> QED
    BY <2>1 DEF IInv, FdsOK
<1>3. OwedOK'
  BY OwedKept DEF IInv
<1>4. ErrnoOK' /\ ToldOK' /\ EofExplained'
  BY DEF IInv, ErrnoOK, FailureNamed, ToldOK, PerrorTells, EofExplained, Own
<1> QED
  BY <1>1, <1>2, <1>3, <1>4 DEF IInv

\* What close leaves of a descriptor, whether it fails or not.
LEMMA CloseDrops ==
  ASSUME NEW fd, NEW raw, CloseFd(fd, raw), stuck \subseteq fds, fd \in fds \ stuck
  PROVE  stuck' \subseteq fds' /\ fds' \ stuck' = (fds \ stuck) \ {fd}
BY DEF CloseFd

\* fopen closes the descriptor that got no FILE.
LEMMA FopenUndoInv == IInv /\ FopenUndo => IInv'
<1> SUFFICES ASSUME IInv, FopenUndo PROVE IInv'
  OBVIOUS
<1> USE DEF FopenUndo
<1>0. call.fd \in fds \ stuck
  BY DEF IInv, FdsOK, Opening
<1>1. stuck' \subseteq fds' /\ fds' \ stuck' = (fds \ stuck) \ {call.fd}
  BY <1>0, CloseDrops DEF IInv, TypeOK
<1>2. ErrnoOK' /\ ToldOK' /\ EofExplained' /\ CallShape(call)' /\ pc' = "idle"
  <2>1. CASE CloseFd(call.fd, 0) /\ Return(Failed(ENOMEM))
    <3>1. UNCHANGED <<errno, quiet>>
      BY <2>1 DEF CloseFd, Syscall
    <3>2. quiet' => errno' = ENOMEM
      BY <3>1 DEF IInv, ErrnoOK
    <3>3. Sound(Failed(ENOMEM))
      BY <3>2 DEF Sound, Failed, Good, Named, ENOMEM
    <3> QED
      BY <2>1, <3>3, ReturnOK
  <2>2. CASE CloseFd(call.fd, -EIO) /\ Return(FailedTwice(ENOMEM, EIO))
    <3>1. errno' = EIO
      BY <2>2, Errors DEF CloseFd
    <3> QED
      BY <2>2, <3>1, Results, ReturnOK
  <2> QED
    BY <2>1, <2>2
<1>3. TypeOK'
  BY <1>1, <1>2 DEF IInv, TypeOK
<1>4. FdsOK'
  <2>1. Own' = Own /\ Opening /\ ~Opening'
    BY <1>2 DEF Own, Opening
  <2> QED
    BY <1>1, <2>1 DEF IInv, FdsOK
<1>5. OwedOK'
  BY <1>2, OwedKept DEF IInv
<1> QED
  BY <1>2, <1>3, <1>4, <1>5 DEF IInv

\* fclose gives up the FILE and its descriptor together.
LEMMA FcloseInv == IInv /\ Fclose => IInv'
<1> SUFFICES ASSUME IInv, Fclose PROVE IInv'
  OBVIOUS
<1> USE DEF Fclose
<1>1. CASE Return(Good) /\ UNCHANGED <<files, fds, stuck, errno, quiet>>
  BY <1>1, QuickReturn, Results DEF IInv, TypeOK
<1>2. CASE \E f \in DOMAIN files \ {Std} :
             /\ files' = [g \in DOMAIN files \ {f} |-> files[g]]
             /\ \/ CloseFd(files[f].fd, 0) /\ Return(Good)
                \/ CloseFd(files[f].fd, -EIO) /\ Return(Failed(EIO))
  <2>1. PICK f \in DOMAIN files \ {Std} :
             /\ files' = [g \in DOMAIN files \ {f} |-> files[g]]
             /\ \/ CloseFd(files[f].fd, 0) /\ Return(Good)
                \/ CloseFd(files[f].fd, -EIO) /\ Return(Failed(EIO))
    BY <1>2
  <2>2. f \in Own /\ files[f].fd \in fds \ stuck
    BY DEF Own, IInv, FdsOK
  <2>3. stuck' \subseteq fds' /\ fds' \ stuck' = (fds \ stuck) \ {files[f].fd}
    BY <2>1, <2>2, CloseDrops DEF IInv, TypeOK
  <2>4. ErrnoOK' /\ ToldOK' /\ EofExplained' /\ CallShape(call)' /\ pc' = "idle"
    <3>1. CloseFd(files[f].fd, -EIO) => errno' = EIO
      BY Errors DEF CloseFd
    <3> QED
      BY <2>1, <3>1, Results, ReturnOK
  <2>5. TypeOK'
    BY <2>1, <2>3, <2>4 DEF IInv, TypeOK
  <2>6. FdsOK'
    <3>1. Own' = Own \ {f} /\ \A g \in Own' : files'[g] = files[g]
      BY <2>1 DEF Own
    <3>2. ~Opening /\ ~Opening'
      BY <2>4 DEF Opening
    <3> QED
      BY <2>2, <2>3, <3>1, <3>2 DEF IInv, FdsOK
  <2>7. OwedOK'
    BY <2>4, OwedKept DEF IInv
  <2> QED
    BY <2>4, <2>5, <2>6, <2>7 DEF IInv
<1> QED
  BY <1>1, <1>2

\* clearerr takes back what the flags tell of a failure.
LEMMA ClearerrInv == IInv /\ Clearerr => IInv'
<1> SUFFICES ASSUME IInv, Clearerr PROVE IInv'
  OBVIOUS
<1>1. PICK f \in DOMAIN files : files' = [files EXCEPT ![f].eof = FALSE, ![f].err = FALSE]
  BY DEF Clearerr
<1> QED
  BY <1>1, QuickReturn, Results, FlagsSet, FlagsKeepFiles DEF Clearerr, IInv

\* Fewer bytes than an item is none, or a torn one.
LEMMA FreadInv == IInv /\ Fread => IInv'
<1> SUFFICES ASSUME IInv, Fread PROVE IInv'
  OBVIOUS
<1>1. PICK f \in DOMAIN files, size \in ItemSizes, nmemb \in {1, 2} :
        \/ ReadFails(f) /\ Return(ReadNothing(f, EIO))
        \/ \E s \in UpTo(size * nmemb) :
             /\ ReadGot(f, s)
             /\ Return([(IF Len(s) < size THEN ReadNothing(f, 0) ELSE Good)
                          EXCEPT !.torn = Len(s) % size # 0])
  BY DEF Fread
<1>2. pc = "idle" /\ UNCHANGED <<fds, stuck, owed>> /\ size \in Nat \ {0}
      /\ size * nmemb \in Nat /\ TypeOK
  BY StreamsAssumption DEF Fread, IInv
<1>3. CASE ReadFails(f) /\ Return(ReadNothing(f, EIO))
  <2>1. /\ DOMAIN files' = DOMAIN files
        /\ files' \in [DOMAIN files -> [fd : Nat, eof : BOOLEAN, err : BOOLEAN]]
        /\ \A g \in DOMAIN files : files'[g].fd = files[g].fd
        /\ files'[f].err /\ errno' = EIO
    BY <1>2, <1>3, ReadKeepsFiles
  <2>2. Sound(ReadNothing(f, EIO))
    BY <2>1, Results
  <2> QED
    BY <1>2, <1>3, <2>1, <2>2, QuickReturn
<1>4. ASSUME NEW s \in UpTo(size * nmemb), ReadGot(f, s),
             Return([(IF Len(s) < size THEN ReadNothing(f, 0) ELSE Good)
                       EXCEPT !.torn = Len(s) % size # 0])
      PROVE  IInv'
  <2> DEFINE result == [(IF Len(s) < size THEN ReadNothing(f, 0) ELSE Good)
                          EXCEPT !.torn = Len(s) % size # 0]
  <2>1. Len(s) \in Nat /\ (Len(s) = 0 => s = <<>>)
    BY <1>2, UpToSeq
  <2>2. /\ DOMAIN files' = DOMAIN files
        /\ files' \in [DOMAIN files -> [fd : Nat, eof : BOOLEAN, err : BOOLEAN]]
        /\ \A g \in DOMAIN files : files'[g].fd = files[g].fd
        /\ s = <<>> => files'[f].eof
    BY <1>2, <1>4, <2>1, ReadKeepsFiles
  <2>3. CASE Len(s) >= size
    <3>1. result = [Good EXCEPT !.torn = Len(s) % size # 0]
      BY <1>2, <2>1, <2>3
    <3> QED
      BY <1>2, <1>4, <2>2, <3>1, Results, QuickReturn
  <2>4. CASE 0 < Len(s) /\ Len(s) < size
    <3>1. Len(s) % size # 0
      BY <1>2, <2>1, <2>4
    <3>2. result = [ReadNothing(f, 0) EXCEPT !.torn = TRUE]
      BY <2>4, <3>1
    <3> QED
      BY <1>2, <1>4, <2>2, <3>2, Results, QuickReturn
  <2>5. CASE Len(s) = 0
    <3>1. result = [ReadNothing(f, 0) EXCEPT !.torn = Len(s) % size # 0]
      BY <1>2, <2>5
    <3>2. files'[f].eof
      BY <2>1, <2>2, <2>5
    <3>3. Sound(result)
      BY <2>2, <3>1, <3>2, Results
    <3> QED
      BY <1>2, <1>4, <2>2, <3>3, QuickReturn
  <2> QED
    BY <1>2, <2>1, <2>3, <2>4, <2>5
<1> QED
  BY <1>1, <1>3, <1>4

\* fgets starts with nothing read, or has no room for anything.
LEMMA FgetsInv == IInv /\ Fgets => IInv'
<1> SUFFICES ASSUME IInv, Fgets PROVE IInv'
  OBVIOUS
<1>0. pc = "idle" /\ UNCHANGED <<files, fds, stuck, errno, quiet, owed>>
  BY DEF Fgets
<1>1. PICK f \in DOMAIN files, n \in Lines :
        IF n = 0 THEN Return(Failed(0))
        ELSE /\ pc' = "gets" /\ UNCHANGED last
             /\ call' = [NoCall EXCEPT !.stream = f, !.size = n]
  BY DEF Fgets
<1>2. CASE n = 0
  BY <1>0, <1>1, <1>2, QuickReturn, Results DEF IInv, TypeOK
<1>3. CASE n # 0
  <2>1. /\ CallShape(call') /\ call'.stream = f /\ call'.size = n /\ call'.s = <<>>
        /\ pc' = "gets" /\ UNCHANGED last
    BY <1>1, <1>3 DEF CallShape, NoCall
  <2>2. TypeOK'
    BY <1>0, <2>1 DEF IInv, TypeOK
  <2>3. FdsOK'
    BY <1>0, <2>1, FdsKept DEF IInv, Opening
  <2>4. OwedOK'
    <3>1. n \in Nat /\ n > 0
      BY <1>3, StreamsAssumption
    <3>2. \A g \in Files \cup {Std} : owed[g] = <<>>
      BY <1>0 DEF IInv, OwedOK
    <3> QED
      BY <1>0, <2>1, <3>1, <3>2 DEF IInv, TypeOK, OwedOK
  <2>5. ErrnoOK' /\ ToldOK' /\ EofExplained'
    BY <1>0, <2>1 DEF IInv, ErrnoOK, FailureNamed, ToldOK, PerrorTells, EofExplained, Own
  <2> QED
    BY <2>2, <2>3, <2>4, <2>5 DEF IInv
<1> QED
  BY <1>2, <1>3

\* Delivering what was read settles the debt.
LEMMA DeliverAll ==
  ASSUME TypeOK, NEW s \in Seq(Bytes), Deliver(s, s)
  PROVE  owed' = [owed EXCEPT ![call.stream] = <<>>]
<1>1. IsPrefix(s, s) /\ SubSeq(s, Len(s) + 1, Len(s)) = <<>>
  BY DEF IsPrefix
<1> QED
  BY <1>1 DEF Deliver

\* The end of fgets: the array is the program's, and nothing is owed any more.
LEMMA FgetsReturns ==
  ASSUME IInv, pc = "gets", NEW s \in Seq(Bytes), Deliver(s, s),
         NEW result, Sound(result), Return(result),
         UNCHANGED <<fds, stuck>>,
         DOMAIN files' = DOMAIN files,
         files' \in [DOMAIN files -> [fd : Nat, eof : BOOLEAN, err : BOOLEAN]],
         \A g \in DOMAIN files : files'[g].fd = files[g].fd
  PROVE  IInv'
<1>1. /\ ErrnoOK' /\ ToldOK' /\ EofExplained' /\ CallShape(call)' /\ pc' = "idle"
  BY ReturnOK
<1>2. owed' = [owed EXCEPT ![call.stream] = <<>>]
  BY DeliverAll DEF IInv
<1>3. TypeOK'
  <2>1. owed' \in [Files \cup {Std} -> Seq(Bytes)]
    <3>1. owed \in [Files \cup {Std} -> Seq(Bytes)]
      BY DEF IInv, TypeOK
    <3>2. <<>> \in Seq(Bytes)
      OBVIOUS
    <3> QED
      BY <1>2, <3>1, <3>2
  <2> QED
    BY <1>1, <2>1 DEF IInv, TypeOK
<1>4. FdsOK'
  BY <1>1, FdsKept DEF IInv, Opening
<1>5. OwedOK'
  BY <1>1, <1>2 DEF IInv, TypeOK, OwedOK
<1> QED
  BY <1>1, <1>3, <1>4, <1>5 DEF IInv

\* What fgets relies on between two bytes.
LEMMA InFgets ==
  ASSUME IInv, pc = "gets"
  PROVE  /\ TypeOK /\ call.stream \in DOMAIN files
         /\ call.size \in Nat /\ call.s \in Seq(Bytes) /\ Len(call.s) \in Nat
         /\ owed[call.stream] = call.s
BY DEF IInv, OwedOK

\* Where read ends or fails, the bytes read before it are returned.
LEMMA FgetsEofInv == IInv /\ FgetsEof => IInv'
<1> SUFFICES ASSUME IInv, FgetsEof PROVE IInv'
  OBVIOUS
<1> USE DEF FgetsEof, Room
<1>1. /\ DOMAIN files' = DOMAIN files
      /\ files' \in [DOMAIN files -> [fd : Nat, eof : BOOLEAN, err : BOOLEAN]]
      /\ \A g \in DOMAIN files : files'[g].fd = files[g].fd
      /\ ReadFails(call.stream) => files'[call.stream].err /\ errno' = EIO
      /\ ReadGot(call.stream, <<>>) => files'[call.stream].eof
      /\ call.stream \in DOMAIN files'
  <2>1. Len(<<>>) \in Nat
    OBVIOUS
  <2> QED
    BY <2>1, InFgets, ReadKeepsFiles
<1>2. PICK result : Sound(result) /\ Return(result)
  <2>1. CASE ReadFails(call.stream) /\ EndLine(EIO)
    BY <1>1, <2>1, Results DEF EndLine
  <2>2. CASE ReadGot(call.stream, <<>>) /\ EndLine(0)
    BY <1>1, <2>2, Results DEF EndLine
  <2> QED
    BY <2>1, <2>2
<1>3. Deliver(call.s, call.s)
  BY InFgets
<1> QED
  BY <1>1, <1>2, <1>3, InFgets, FgetsReturns

\* The byte read is appended to those read before.
LEMMA FgetsCharInv == IInv /\ FgetsChar => IInv'
<1> SUFFICES ASSUME IInv, FgetsChar PROVE IInv'
  OBVIOUS
<1>0. pc = "gets" /\ Len(call.s) < call.size - 1 /\ UNCHANGED <<fds, stuck>>
  BY DEF FgetsChar, Room
<1>1. PICK c \in Bytes :
        /\ ReadGot(call.stream, <<c>>)
        /\ IF c = "newline"
           THEN Deliver(Append(call.s, c), Append(owed[call.stream], c)) /\ Return(Good)
           ELSE /\ call' = [call EXCEPT !.s = Append(@, c)]
                /\ owed' = [owed EXCEPT ![call.stream] = Append(owed[call.stream], c)]
                /\ UNCHANGED <<pc, last>>
  BY DEF FgetsChar
<1>2. UNCHANGED <<files, errno, quiet>>
  <2>1. Len(<<c>>) = 1 /\ <<c>> # <<>>
    OBVIOUS
  <2> QED
    BY <1>1, <2>1, Errors DEF ReadGot
<1>3. /\ Append(call.s, c) \in Seq(Bytes)
      /\ Len(Append(call.s, c)) = Len(call.s) + 1
      /\ owed[call.stream] = call.s
  BY <1>0, InFgets
<1>4. CASE c = "newline"
  <2>1. Sound(Good)
    BY Results
  <2> QED
    BY <1>0, <1>1, <1>2, <1>3, <1>4, <2>1, FgetsReturns DEF IInv, TypeOK
<1>5. CASE c # "newline"
  <2>1. /\ call' = [call EXCEPT !.s = Append(@, c)]
        /\ owed' = [owed EXCEPT ![call.stream] = Append(call.s, c)]
        /\ UNCHANGED <<pc, last>>
    BY <1>1, <1>3, <1>5
  <2>2. /\ CallShape(call') /\ call'.stream = call.stream /\ call'.size = call.size
        /\ call'.s = Append(call.s, c) /\ call'.cause = call.cause
    BY <2>1 DEF IInv, TypeOK, CallShape
  <2>3. TypeOK'
    BY <1>0, <1>2, <1>3, <2>1, <2>2 DEF IInv, TypeOK
  <2>4. FdsOK'
    BY <1>0, <1>2, <2>1, FdsKept DEF IInv, Opening
  <2>5. OwedOK'
    <3>1. Len(call'.s) < call'.size /\ call'.s \in Seq(Bytes)
      BY <1>0, <1>3, <2>2, InFgets
    <3>2. owed'[call'.stream] = call'.s
      BY <1>0, <2>1, <2>2, InFgets DEF TypeOK
    <3> QED
      BY <1>0, <1>2, <2>1, <2>2, <3>1, <3>2, InFgets DEF IInv, TypeOK, OwedOK
  <2>6. ErrnoOK' /\ ToldOK' /\ EofExplained'
    BY <1>0, <1>2, <2>1 DEF IInv, ErrnoOK, FailureNamed, ToldOK, PerrorTells, EofExplained, Own
  <2> QED
    BY <2>3, <2>4, <2>5, <2>6 DEF IInv
<1> QED
  BY <1>4, <1>5

\* A full buffer is returned.
LEMMA FgetsFullInv == IInv /\ FgetsFull => IInv'
<1> SUFFICES ASSUME IInv, FgetsFull PROVE IInv'
  OBVIOUS
<1> USE DEF FgetsFull
<1>1. Sound(Good)
  BY Results
<1>2. Deliver(call.s, call.s)
  BY InFgets
<1> QED
  BY <1>1, <1>2, InFgets, FgetsReturns DEF TypeOK

\* fwrite reads nothing and leaves the FILEs alone unless the write fails.
LEMMA FwriteInv == IInv /\ Fwrite => IInv'
<1> SUFFICES ASSUME IInv, Fwrite PROVE IInv'
  OBVIOUS
<1>1. PICK f \in DOMAIN files, size \in ItemSizes, nmemb \in {1, 2} :
        \/ /\ Syscall(-EIO) /\ Return(Failed(EIO))
           /\ files' = [files EXCEPT ![f].err = TRUE]
        \/ \E n \in 0 .. size * nmemb :
             /\ Syscall(n)
             /\ Return([Good EXCEPT !.torn = n % size # 0])
             /\ UNCHANGED files
  BY DEF Fwrite
<1>2. pc = "idle" /\ UNCHANGED <<fds, stuck, owed>>
  BY DEF Fwrite
<1>3. CASE /\ Syscall(-EIO) /\ Return(Failed(EIO))
           /\ files' = [files EXCEPT ![f].err = TRUE]
  <2>1. Sound(Failed(EIO))
    BY <1>3, Errors, Results
  <2>2. ReadFails(f)
    BY <1>3 DEF ReadFails
  <2> QED
    BY <1>2, <1>3, <2>1, <2>2, ReadKeepsFiles, QuickReturn DEF IInv
<1>4. CASE \E n : Return([Good EXCEPT !.torn = n % size # 0]) /\ UNCHANGED files
  BY <1>2, <1>4, Results, QuickReturn DEF IInv, TypeOK
<1> QED
  BY <1>1, <1>3, <1>4

\* getchar changes no FILE.
LEMMA GetcharInv == IInv /\ Getchar => IInv'
BY Results, QuickReturn, Errors DEF Getchar, IInv, TypeOK

\* errno is still that of the call that failed, or somebody else's and quiet
\* is over.
LEMMA PerrorInv == IInv /\ Perror => IInv'
<1> SUFFICES ASSUME IInv, Perror PROVE IInv'
  OBVIOUS
<1>0. /\ pc = "idle" /\ ~last.ok /\ last.cause # 0 /\ pc' = "perror"
      /\ UNCHANGED <<files, fds, stuck, errno, quiet, last, owed>>
  BY DEF Perror
<1>1. PICK writes \in {2, 4} :
        call' = [NoCall EXCEPT !.size = writes, !.text = ErrorText[errno],
                               !.cause = IF quiet THEN Named(last) ELSE 0]
  BY DEF Perror
<1>2. /\ CallShape(call') /\ call'.text = ErrorText[errno]
      /\ call'.cause = IF quiet THEN Named(last) ELSE 0
  BY <1>1 DEF CallShape, NoCall
<1>3. TypeOK'
  BY <1>0, <1>2 DEF IInv, TypeOK
<1>4. FdsOK'
  BY <1>0, FdsKept DEF IInv, Opening
<1>5. OwedOK'
  BY <1>0, OwedKept DEF IInv
<1>6. ToldOK'
  BY <1>0, <1>2 DEF IInv, ErrnoOK, FailureNamed, ToldOK, PerrorTells
<1>7. ErrnoOK' /\ EofExplained'
  BY <1>0 DEF IInv, ErrnoOK, FailureNamed, EofExplained, Own
<1> QED
  BY <1>3, <1>4, <1>5, <1>6, <1>7 DEF IInv

\* perror writes on: a write that fails changes errno, which perror may.
LEMMA PerrorWriteInv == IInv /\ PerrorWrite => IInv'
<1> SUFFICES ASSUME IInv, PerrorWrite PROVE IInv'
  OBVIOUS
<1>0. /\ pc = "perror" /\ call' = [call EXCEPT !.size = @ - 1]
      /\ UNCHANGED <<files, fds, stuck, pc, last, owed>>
  BY DEF PerrorWrite
<1>1. CallShape(call') /\ call'.text = call.text /\ call'.cause = call.cause
  BY <1>0 DEF IInv, TypeOK, CallShape
<1>2. TypeOK'
  BY <1>0, <1>1 DEF IInv, TypeOK
<1>3. FdsOK'
  BY <1>0, FdsKept DEF IInv, Opening
<1>4. OwedOK'
  BY <1>0, OwedKept DEF IInv
<1>5. ErrnoOK' /\ ToldOK' /\ EofExplained'
  BY <1>0, <1>1 DEF IInv, ErrnoOK, FailureNamed, ToldOK, PerrorTells, EofExplained, Own
<1> QED
  BY <1>2, <1>3, <1>4, <1>5 DEF IInv

\* perror is over.
LEMMA PerrorReturnInv == IInv /\ PerrorReturn => IInv'
<1> SUFFICES ASSUME IInv, PerrorReturn PROVE IInv'
  OBVIOUS
<1>0. /\ pc = "perror" /\ pc' = "idle" /\ call' = NoCall
      /\ last' = [Good EXCEPT !.said = call.text, !.cause = call.cause]
      /\ UNCHANGED <<files, fds, stuck, errno, quiet, owed>>
  BY DEF PerrorReturn, Return
<1>1. last'.ok /\ last'.said = call.text /\ last'.cause = call.cause
  BY <1>0 DEF Good
<1>2. TypeOK'
  BY <1>0 DEF IInv, TypeOK, CallShape, NoCall
<1>3. FdsOK'
  BY <1>0, FdsKept DEF IInv, Opening
<1>4. OwedOK'
  BY <1>0, OwedKept DEF IInv
<1>5. ErrnoOK' /\ ToldOK' /\ EofExplained'
  BY <1>0, <1>1 DEF IInv, ErrnoOK, FailureNamed, ToldOK, PerrorTells, EofExplained
<1> QED
  BY <1>2, <1>3, <1>4, <1>5 DEF IInv

\* Other code may change errno.
LEMMA ElsewhereInv == IInv /\ Elsewhere => IInv'
<1> SUFFICES ASSUME IInv, Elsewhere PROVE IInv'
  OBVIOUS
<1> USE DEF Elsewhere
<1>1. TypeOK'
  BY DEF IInv, TypeOK
<1>2. FdsOK'
  BY DEF IInv, FdsOK, Own, Opening
<1>3. OwedOK'
  BY DEF IInv, OwedOK
<1>4. ErrnoOK' /\ ToldOK' /\ EofExplained'
  BY DEF IInv, ErrnoOK, FailureNamed, ToldOK, PerrorTells, EofExplained, Own
<1> QED
  BY <1>1, <1>2, <1>3, <1>4 DEF IInv

\* Every step keeps the invariant.
LEMMA NextInv == IInv /\ [Next]_vars => IInv'
<1> SUFFICES ASSUME IInv, [Next]_vars PROVE IInv'
  OBVIOUS
<1>1. CASE UNCHANGED vars
  <2>1. UNCHANGED <<files, fds, stuck, errno, quiet, pc, call, last, owed>>
    BY <1>1 DEF vars
  <2>2. TypeOK'
    BY <2>1 DEF IInv, TypeOK, CallShape
  <2>3. FdsOK'
    BY <2>1 DEF IInv, FdsOK, Own, Opening
  <2>4. OwedOK'
    BY <2>1 DEF IInv, OwedOK
  <2>5. ErrnoOK' /\ ToldOK'
    BY <2>1 DEF IInv, ErrnoOK, FailureNamed, ToldOK, PerrorTells
  <2>6. EofExplained'
    BY <2>1 DEF IInv, EofExplained, Own
  <2> QED
    BY <2>2, <2>3, <2>4, <2>5, <2>6 DEF IInv
<1> QED
  BY <1>1, FopenRefuseInv, FopenOpenInv, FopenDoneInv, FopenNoMemoryInv, FopenUndoInv,
     FcloseInv, ClearerrInv, FreadInv, FgetsInv, FgetsEofInv, FgetsCharInv, FgetsFullInv,
     FwriteInv, GetcharInv, PerrorInv, PerrorWriteInv, PerrorReturnInv, ElsewhereInv
     DEF Next

\* So it holds always.
LEMMA Invariance == Spec => []IInv
BY InitInv, NextInv, PTL DEF Spec

-----------------------------------------------------------------------------
(* What follows from it.                                                   *)

\* No way out of fopen and fclose leaks a descriptor or gives one to two FILEs,
\* whether open, malloc and close fail or not (stdio.c:562, 621).
THEOREM PairedHolds == Spec => []Paired
<1>1. IInv => Paired
  BY DEF IInv, FdsOK, Opening, Paired
<1> QED
  BY <1>1, Invariance, PTL

\* Every byte fgets takes from the kernel reaches the program, in order, and
\* the array has room for the terminator (stdio.c:517).
THEOREM ReadOnceHolds == Spec => []ReadOnce
<1>1. IInv => ReadOnce
  BY DEF IInv, TypeOK, OwedOK, ReadOnce
<1> QED
  BY <1>1, Invariance, PTL

\* A read that reports nothing has set ferror if the kernel reported an error,
\* and feof if there was nothing left, unless it read part of an item
\* (stdio.c:517-558 and 645-663).
THEOREM EofExplainedHolds == Spec => []EofExplained
<1>1. IInv => EofExplained
  BY DEF IInv
<1> QED
  BY <1>1, Invariance, PTL

\* errno after a failed call names what failed in it last, while nobody else sets
\* it: the failure that made the call fail, but for an fopen whose close fails as
\* well, where ENOMEM gives way to close's error (stdio.c:604, syscall.c:24).
THEOREM FailureNamedHolds == Spec => []FailureNamed
<1>1. IInv => FailureNamed
  BY DEF IInv, ErrnoOK
<1> QED
  BY <1>1, Invariance, PTL

\* perror's message is that of the call before it, whatever its own writes and
\* handlers do to errno in the middle of it (errno.c:8).
THEOREM PerrorTellsHolds == Spec => []PerrorTells
<1>1. IInv => PerrorTells
  BY DEF IInv, ToldOK
<1> QED
  BY <1>1, Invariance, PTL
=============================================================================
