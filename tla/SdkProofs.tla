------------------------------ MODULE SdkProofs ------------------------------
(***************************************************************************)
(* What a refresh and a build of the SDK leave behind, for any set of      *)
(* sources and headers and any number of versions and refreshes.           *)
(***************************************************************************)
EXTENDS Sdk, TLAPS

-----------------------------------------------------------------------------
(* The inductive invariant.                                                *)

Typed ==
  /\ version \in Nat /\ sdk \in [Files -> Nat]
  /\ refresh \in Nat /\ stamp \in Nat /\ origin \in [Files -> Nat]
  /\ pc \in {"idle", "refresh", "make"}
  /\ DOMAIN obj \subseteq Srcs
  /\ todo \subseteq Files
  /\ pc = "make" => todo \subseteq Srcs
  /\ DOMAIN reading \subseteq (IF pc = "make" THEN todo ELSE {})

\* What the refresh under way has copied bears its number and made the targets
\* that depend on it old.
RefreshOK ==
  /\ stamp <= refresh
  /\ \A f \in Files : origin[f] >= stamp
  /\ pc = "refresh" =>
       /\ ~synced
       /\ \A f \in Files \ todo : origin[f] = refresh
       /\ Srcs \ todo \subseteq older
       /\ Script \in todo \/ LibcSl \in older

\* x is what the compiler makes of s now, as far as the rules of the Makefile
\* know: all of it while nothing was changed by hand.
Fresh(s, x) ==
  /\ s \in raced \/ x.src = sdk[s]
  /\ synced => x = Read(s)

\* An object that is not old is fresh, one the compiler is at will be, and
\* make leaves only such objects behind.
ObjectsOK ==
  /\ \A s \in DOMAIN obj \ older : Fresh(s, obj[s])
  /\ \A s \in DOMAIN reading : Fresh(s, reading[s])
  /\ pc = "make" => \A s \in Srcs \ todo :
       s \in DOMAIN obj /\ (s \in older => s \in raced /\ ~synced)

\* The same of libc.sl and its sources.
LibcOK ==
  libc # None =>
    /\ DOMAIN libc.objs = Libc
    /\ LibcSl \notin older =>
         /\ \A s \in Libc \ older : Fresh(s, libc.objs[s])
         /\ Script \in raced \/ libc.script = sdk[Script]

IInv == Typed /\ RefreshOK /\ ObjectsOK /\ LibcOK

-----------------------------------------------------------------------------
(* Its proof, action by action.                                            *)

\* At the start no command runs and nothing has been built.
LEMMA InitInv == Init => IInv
<1> SUFFICES ASSUME Init PROVE IInv
  OBVIOUS
<1> USE DEF Init
<1>1. Typed
  BY DEF Typed, Files, Srcs
<1>2. RefreshOK
  BY DEF RefreshOK
<1>3. ObjectsOK
  BY DEF ObjectsOK, Fresh, Read, Files, Srcs
<1>4. LibcOK
  BY DEF LibcOK, Fresh, Read, Files, Srcs
<1> QED
  BY <1>1, <1>2, <1>3, <1>4 DEF IInv

\* While no file changes, freshness is not lost unless a race is forgotten or
\* a refresh is finished.
LEMMA FreshKept ==
  ASSUME sdk' = sdk, raced \subseteq raced', synced' => synced
  PROVE  \A s, x : Fresh(s, x) => Fresh(s, x)'
BY DEF Fresh, Read

\* A refresh that starts has copied nothing yet.
LEMMA RefreshStartInv == IInv /\ RefreshStart => IInv'
<1> SUFFICES ASSUME IInv, RefreshStart PROVE IInv'
  OBVIOUS
<1> USE DEF RefreshStart
<1>0. \A s, x : Fresh(s, x) => Fresh(s, x)'
  BY FreshKept
<1>1. Typed'
  BY DEF IInv, Typed
<1>2. RefreshOK'
  BY DEF IInv, Typed, RefreshOK, Files, Srcs
<1>3. ObjectsOK'
  BY <1>0 DEF IInv, ObjectsOK
<1>4. LibcOK'
  BY <1>0 DEF IInv, LibcOK
<1> QED
  BY <1>1, <1>2, <1>3, <1>4 DEF IInv

\* The targets that depend on a source are that source's object alone.
LEMMA DependentsOf ==
  /\ \A s \in Srcs : Dependents(s) = {s}
  /\ Dependents(Script) = {LibcSl}
  /\ Script \notin Srcs
  /\ Srcs \subseteq Files /\ Script \in Files /\ LibcSl \notin Srcs
BY SdkAssumption DEF Dependents, Srcs, Files

\* A file that is written makes what depends on it old: the others are as
\* fresh as they were.
LEMMA WriteKeepsFresh ==
  ASSUME Typed, NEW f \in Files, NEW v,
         sdk' = sdk \/ sdk' = [sdk EXCEPT ![f] = v],
         raced \subseteq raced' \cup {f},
         ~synced'
  PROVE  \A s \in Srcs : s # f => \A x : Fresh(s, x) => Fresh(s, x)'
BY DependentsOf DEF Typed, Fresh

\* A file that is copied makes what was built from the older one older.
LEMMA CopyInv == IInv /\ Copy => IInv'
<1> SUFFICES ASSUME IInv, Copy PROVE IInv'
  OBVIOUS
<1> USE DEF Copy
<1>1. PICK f \in todo :
        /\ todo' = todo \ {f}
        /\ origin' = [origin EXCEPT ![f] = refresh]
        /\ \/ version' = version + 1 /\ sdk' = [sdk EXCEPT ![f] = version']
           \/ UNCHANGED <<sdk, version>>
        /\ older' = older \cup Dependents(f)
        /\ raced' = raced \ {f}
  OBVIOUS
<1>2. f \in Files /\ ~synced' /\ version' \in Nat
  BY <1>1 DEF IInv, Typed, RefreshOK
<1>3. Typed'
  BY <1>1, <1>2 DEF IInv, Typed
<1>4. \A s \in Srcs : s # f => \A x : Fresh(s, x) => Fresh(s, x)'
  BY <1>1, <1>2, WriteKeepsFresh DEF IInv
<1>5. RefreshOK'
  BY <1>1, <1>2, DependentsOf DEF IInv, Typed, RefreshOK
<1>6. ObjectsOK'
  BY <1>1, <1>4, DependentsOf DEF IInv, Typed, ObjectsOK
<1>7. LibcOK'
  <2>1. \A s \in Libc \ older' : s # f
    BY <1>1, DependentsOf DEF Srcs
  <2>2. LibcSl \notin older' => f # Script
    BY <1>1, DependentsOf
  <2>3. f # Script => sdk'[Script] = sdk[Script] /\ (Script \in raced => Script \in raced')
    BY <1>1, DependentsOf DEF IInv, Typed
  <2> QED
    BY <1>1, <1>4, <2>1, <2>2, <2>3 DEF IInv, LibcOK, Srcs
<1> QED
  BY <1>3, <1>5, <1>6, <1>7 DEF IInv

\* A copy that fails leaves the stamp as it was.
LEMMA RefreshFailsInv == IInv /\ RefreshFails => IInv'
<1> SUFFICES ASSUME IInv, RefreshFails PROVE IInv'
  OBVIOUS
<1> USE DEF RefreshFails
<1>0. \A s, x : Fresh(s, x) => Fresh(s, x)'
  BY FreshKept
<1>1. Typed'
  BY DEF IInv, Typed
<1>2. RefreshOK'
  BY DEF IInv, RefreshOK
<1>3. ObjectsOK'
  BY <1>0 DEF IInv, ObjectsOK
<1>4. LibcOK'
  BY <1>0 DEF IInv, LibcOK
<1> QED
  BY <1>1, <1>2, <1>3, <1>4 DEF IInv

\* The refresh is complete: every object and libc.sl are old, so nothing is
\* claimed of them although the files count as in step from now on.
LEMMA StampInv == IInv /\ Stamp => IInv'
<1> SUFFICES ASSUME IInv, Stamp PROVE IInv'
  OBVIOUS
<1> USE DEF Stamp
<1>1. Typed'
  BY DEF IInv, Typed
<1>2. RefreshOK'
  BY DEF IInv, Typed, RefreshOK
<1>3. Srcs \subseteq older /\ LibcSl \in older /\ DOMAIN reading = {}
  BY DEF IInv, Typed, RefreshOK
<1>4. ObjectsOK'
  BY <1>3 DEF IInv, Typed, ObjectsOK
<1>5. LibcOK'
  BY <1>3 DEF IInv, LibcOK
<1> QED
  BY <1>1, <1>2, <1>4, <1>5 DEF IInv

\* make has every object before it.
LEMMA MakeStartInv == IInv /\ MakeStart => IInv'
<1> SUFFICES ASSUME IInv, MakeStart PROVE IInv'
  OBVIOUS
<1> USE DEF MakeStart
<1>0. \A s, x : Fresh(s, x) => Fresh(s, x)'
  BY FreshKept
<1>1. Typed'
  BY DEF IInv, Typed, Files
<1>2. RefreshOK'
  BY DEF IInv, RefreshOK
<1>3. ObjectsOK'
  BY <1>0 DEF IInv, ObjectsOK
<1>4. LibcOK'
  BY <1>0 DEF IInv, LibcOK
<1> QED
  BY <1>1, <1>2, <1>3, <1>4 DEF IInv

\* What make leaves alone is up to date.
LEMMA SkipInv == IInv /\ Skip => IInv'
<1> SUFFICES ASSUME IInv, Skip PROVE IInv'
  OBVIOUS
<1> USE DEF Skip
<1>0. \A s, x : Fresh(s, x) => Fresh(s, x)'
  BY FreshKept
<1>1. Typed'
  BY DEF IInv, Typed
<1>2. RefreshOK'
  BY DEF IInv, RefreshOK
<1>3. ObjectsOK'
  BY <1>0 DEF IInv, Typed, ObjectsOK, UpToDate
<1>4. LibcOK'
  BY <1>0 DEF IInv, LibcOK
<1> QED
  BY <1>1, <1>2, <1>3, <1>4 DEF IInv

\* What the compiler has read is what the source is at that moment.
LEMMA CompileReadInv == IInv /\ CompileRead => IInv'
<1> SUFFICES ASSUME IInv, CompileRead PROVE IInv'
  OBVIOUS
<1> USE DEF CompileRead
<1>0. \A s, x : Fresh(s, x) => Fresh(s, x)'
  BY FreshKept
<1>1. PICK s \in todo \ DOMAIN reading : reading' = Set(reading, s, Read(s))
  OBVIOUS
<1>2. /\ DOMAIN reading' = DOMAIN reading \cup {s}
      /\ reading'[s] = Read(s)
      /\ \A t \in DOMAIN reading : reading'[t] = reading[t]
  BY <1>1 DEF Set
<1>3. Typed'
  BY <1>1, <1>2 DEF IInv, Typed
<1>4. RefreshOK'
  BY DEF IInv, RefreshOK
<1>5. Fresh(s, Read(s))
  BY DEF Fresh, Read
<1>6. ObjectsOK'
  BY <1>0, <1>2, <1>5 DEF IInv, ObjectsOK
<1>7. LibcOK'
  BY <1>0 DEF IInv, LibcOK
<1> QED
  BY <1>3, <1>4, <1>6, <1>7 DEF IInv

\* An object written is new, and fresh unless its source has raced.
LEMMA CompileWriteInv == IInv /\ CompileWrite => IInv'
<1> SUFFICES ASSUME IInv, CompileWrite PROVE IInv'
  OBVIOUS
<1> USE DEF CompileWrite
<1>0. \A s, x : Fresh(s, x) => Fresh(s, x)'
  BY FreshKept
<1>1. PICK s \in DOMAIN reading :
        /\ obj' = Set(obj, s, reading[s])
        /\ reading' = Drop(reading, {s}) /\ todo' = todo \ {s}
        /\ older' = (older \ {s}) \cup {t \in {LibcSl} : s \in Libc}
  OBVIOUS
<1>2. /\ DOMAIN obj' = DOMAIN obj \cup {s} /\ obj'[s] = reading[s]
      /\ \A t \in DOMAIN obj : t # s => obj'[t] = obj[t]
  BY <1>1 DEF Set
<1>3. /\ DOMAIN reading' = DOMAIN reading \ {s}
      /\ \A t \in DOMAIN reading' : reading'[t] = reading[t]
  BY <1>1 DEF Drop
<1>4. s \in Srcs
  BY DEF IInv, Typed
<1>5. Typed'
  BY <1>1, <1>2, <1>3, <1>4 DEF IInv, Typed
<1>6. RefreshOK'
  BY DEF IInv, RefreshOK
<1>7. ObjectsOK'
  <2>1. \A t \in DOMAIN obj' \ older' : Fresh(t, obj[t])'
    BY <1>0, <1>1, <1>2 DEF IInv, ObjectsOK
  <2>2. \A t \in DOMAIN reading' : Fresh(t, reading[t])'
    BY <1>0, <1>3 DEF IInv, ObjectsOK
  <2>3. \A t \in Srcs \ todo' : t \in DOMAIN obj' /\ (t \in older' => t \in raced /\ ~synced)
    BY <1>1, <1>2, DependentsOf DEF IInv, ObjectsOK
  <2> QED
    BY <2>1, <2>2, <2>3 DEF ObjectsOK
<1>8. LibcOK'
  <2>1. LibcSl \notin older' => s \notin Libc /\ LibcSl \notin older
    BY <1>1, <1>4, DependentsOf
  <2>2. s \notin Libc => Libc \ older' \subseteq Libc \ older
    BY <1>1
  <2> QED
    BY <1>0, <2>1, <2>2 DEF IInv, LibcOK
<1> QED
  BY <1>5, <1>6, <1>7, <1>8 DEF IInv

\* What libc.sl is linked from, or was and need not be again.
LEMMA Linked ==
  ASSUME IInv, MakeDone
  PROVE  /\ libc' # None => DOMAIN libc'.objs = Libc
         /\ libc' # None => \A s \in Libc \ older : Fresh(s, libc'.objs[s])
         /\ libc' # None => Script \in raced \/ libc'.script = sdk[Script]
         /\ \A s \in Srcs : s \in DOMAIN obj /\ (s \in older => s \in raced /\ ~synced)
<1> USE DEF MakeDone
<1>1. \A s \in Srcs : s \in DOMAIN obj /\ (s \in older => s \in raced /\ ~synced)
  BY DEF IInv, ObjectsOK
<1>2. CASE libc' = [objs |-> [s \in Libc |-> obj[s]], script |-> sdk[Script]]
  BY <1>1, <1>2 DEF IInv, ObjectsOK, Srcs
<1>3. CASE libc' = libc /\ libc # None /\ LibcSl \notin older
  BY <1>1, <1>3 DEF IInv, LibcOK
<1> QED
  BY <1>1, <1>2, <1>3

\* libc.sl is linked from objects that have all been seen to.
LEMMA MakeDoneInv == IInv /\ MakeDone => IInv'
<1> SUFFICES ASSUME IInv, MakeDone PROVE IInv'
  OBVIOUS
<1>0. /\ UNCHANGED <<sdk, origin, stamp, refresh, obj, todo, reading, raced, synced, version>>
      /\ pc = "make" /\ todo = {} /\ pc' = "idle" /\ older' = older \ {LibcSl}
  BY DEF MakeDone
<1>1. \A s, x : Fresh(s, x) => Fresh(s, x)'
  BY <1>0, FreshKept
<1>2. Typed'
  BY <1>0 DEF IInv, Typed
<1>3. RefreshOK'
  BY <1>0 DEF IInv, RefreshOK
<1>4. ObjectsOK'
  BY <1>0, <1>1, DependentsOf DEF IInv, Typed, ObjectsOK
<1>5. LibcOK'
  BY <1>0, <1>1, Linked, DependentsOf DEF LibcOK, Srcs
<1> QED
  BY <1>2, <1>3, <1>4, <1>5 DEF IInv

\* make gives up: what it was at keeps waiting for the next one.
LEMMA MakeFailsInv == IInv /\ MakeFails => IInv'
<1> SUFFICES ASSUME IInv, MakeFails PROVE IInv'
  OBVIOUS
<1> USE DEF MakeFails
<1>0. \A s, x : Fresh(s, x) => Fresh(s, x)'
  BY FreshKept
<1>1. DOMAIN reading' = {}
  BY DEF IInv, Typed, Drop
<1>2. Typed'
  BY <1>1 DEF IInv, Typed
<1>3. RefreshOK'
  BY DEF IInv, RefreshOK
<1>4. ObjectsOK'
  BY <1>0, <1>1 DEF IInv, ObjectsOK
<1>5. LibcOK'
  BY <1>0 DEF IInv, LibcOK
<1> QED
  BY <1>2, <1>3, <1>4, <1>5 DEF IInv

\* Cleaning takes objects away and leaves the others as they are.
LEMMA CleanInv == IInv /\ (Clean \/ Distclean) => IInv'
<1> SUFFICES ASSUME IInv, Clean \/ Distclean PROVE IInv'
  OBVIOUS
<1> USE DEF Clean, Distclean
<1>0. \A s, x : Fresh(s, x) => Fresh(s, x)'
  BY FreshKept
<1>1. DOMAIN obj' \subseteq DOMAIN obj /\ \A s \in DOMAIN obj' : obj'[s] = obj[s]
  BY DEF Drop
<1>2. Typed'
  BY <1>1 DEF IInv, Typed
<1>3. RefreshOK'
  BY DEF IInv, RefreshOK
<1>4. ObjectsOK'
  BY <1>0, <1>1 DEF IInv, ObjectsOK
<1>5. LibcOK'
  BY <1>0 DEF IInv, LibcOK
<1> QED
  BY <1>2, <1>3, <1>4, <1>5 DEF IInv

\* A change by hand while make runs is a race; at any other time it makes what
\* depends on the file old.
LEMMA EditInv == IInv /\ Edit => IInv'
<1> SUFFICES ASSUME IInv, Edit PROVE IInv'
  OBVIOUS
<1> USE DEF Edit
<1>1. PICK f \in Files :
        /\ sdk' = [sdk EXCEPT ![f] = version']
        /\ older' = older \cup Dependents(f)
        /\ raced' = IF pc = "make" THEN raced \cup {f} ELSE raced \ {f}
  OBVIOUS
<1>2. version' \in Nat
  BY DEF IInv, Typed
<1>3. Typed'
  BY <1>1, <1>2 DEF IInv, Typed
<1>4. RefreshOK'
  BY <1>1 DEF IInv, RefreshOK
<1>5. \A s \in Srcs : s # f => \A x : Fresh(s, x) => Fresh(s, x)'
  BY <1>1, WriteKeepsFresh DEF IInv
<1>6. pc = "make" => \A x : Fresh(f, x)'
  BY <1>1 DEF Fresh
<1>7. ObjectsOK'
  <2>1. \A s \in DOMAIN obj' \ older' : Fresh(s, obj[s])'
    BY <1>1, <1>5, DependentsOf DEF IInv, Typed, ObjectsOK
  <2>2. \A s \in DOMAIN reading' : Fresh(s, reading[s])'
    BY <1>5, <1>6 DEF IInv, Typed, ObjectsOK
  <2>3. pc = "make" => \A s \in Srcs \ todo :
          s \in DOMAIN obj /\ (s \in older' => s \in raced' /\ ~synced')
    <3>1. \A s \in Srcs : s \in older' => s \in older \/ s = f
      BY <1>1, DependentsOf DEF Dependents
    <3> QED
      BY <1>1, <3>1 DEF IInv, ObjectsOK
  <2> QED
    BY <2>1, <2>2, <2>3 DEF ObjectsOK
<1>8. LibcOK'
  <2>1. \A s \in Libc \ older' : s # f
    BY <1>1, DependentsOf DEF Srcs
  <2>2. LibcSl \notin older' => f # Script
    BY <1>1, DependentsOf
  <2>3. f # Script => sdk'[Script] = sdk[Script] /\ (Script \in raced => Script \in raced')
    BY <1>1, DependentsOf DEF IInv, Typed
  <2> QED
    BY <1>1, <1>5, <2>1, <2>2, <2>3 DEF IInv, LibcOK, Srcs
<1> QED
  BY <1>3, <1>4, <1>7, <1>8 DEF IInv

\* Every step keeps the invariant.
LEMMA NextInv == IInv /\ [Next]_vars => IInv'
<1> SUFFICES ASSUME IInv, [Next]_vars PROVE IInv'
  OBVIOUS
<1>1. CASE UNCHANGED vars
  BY <1>1 DEF vars, IInv, Typed, RefreshOK, ObjectsOK, LibcOK, Fresh, Read
<1> QED
  BY <1>1, RefreshStartInv, CopyInv, RefreshFailsInv, StampInv, MakeStartInv, SkipInv,
     CompileReadInv, CompileWriteInv, MakeDoneInv, MakeFailsInv, CleanInv, EditInv DEF Next

\* So it holds always.
LEMMA Invariance == Spec => []IInv
BY InitInv, NextInv, PTL DEF Spec

-----------------------------------------------------------------------------
(* What follows from it.                                                   *)

\* VERSION never names a refresh that did not copy every file: the stamp is
\* the script's last command, and a failed cp ends it before (mk-sdk.sh).
THEOREM StampHonestHolds == Spec => []StampHonest
<1>1. IInv => StampHonest
  BY DEF IInv, RefreshOK, StampHonest
<1> QED
  BY <1>1, Invariance, PTL

\* However builds failed before, and whatever was cleaned or changed between
\* them, a "make libs" that succeeds leaves libc.sl linked from the sources and
\* the script as they are, races excepted (Makefile).
THEOREM RebuiltHolds == Spec => Rebuilt
<1>1. IInv /\ MakeSucceeds =>
        /\ DOMAIN libc'.objs = Libc
        /\ \A s \in Libc \ raced : libc'.objs[s].src = sdk[s]
        /\ Script \in raced \/ libc'.script = sdk[Script]
  <2> SUFFICES ASSUME IInv, MakeDone
               PROVE  /\ DOMAIN libc'.objs = Libc
                      /\ \A s \in Libc \ raced : libc'.objs[s].src = sdk[s]
                      /\ Script \in raced \/ libc'.script = sdk[Script]
    BY DEF MakeSucceeds
  <2>1. libc' # None
    BY DEF MakeDone, None, IInv, Typed, Files
  <2> QED
    BY <2>1, Linked DEF Fresh, Srcs
<1>2. IInv /\ [Next]_vars
        => [MakeSucceeds =>
              /\ DOMAIN libc'.objs = Libc
              /\ \A s \in Libc \ raced : libc'.objs[s].src = sdk[s]
              /\ Script \in raced \/ libc'.script = sdk[Script]]_vars
  BY <1>1
<1> QED
  BY <1>2, Invariance, PTL DEF Spec, Rebuilt

\* After a refresh that nothing was changed since, make compiles everything
\* anew, with the new headers, although no rule of the Makefile names one.
THEOREM RefreshReachesHolds == Spec => RefreshReaches
<1>1. IInv /\ MakeSucceeds /\ synced =>
        /\ \A s \in Libc : libc'.objs[s] = Read(s)
        /\ obj'[Crt0] = Read(Crt0)
  <2> SUFFICES ASSUME IInv, MakeDone, synced
               PROVE  /\ \A s \in Libc : libc'.objs[s] = Read(s)
                      /\ obj'[Crt0] = Read(Crt0)
    BY DEF MakeSucceeds
  <2>1. libc' # None
    BY DEF MakeDone, None, IInv, Typed, Files
  <2>2. \A s \in Srcs : s \in DOMAIN obj \ older
    BY Linked
  <2>3. obj' = obj /\ Crt0 \in Srcs
    BY DEF MakeDone, Srcs
  <2> QED
    BY <2>1, <2>2, <2>3, Linked DEF IInv, ObjectsOK, Fresh, Srcs
<1>2. IInv /\ [Next]_vars
        => [MakeSucceeds /\ synced =>
              /\ \A s \in Libc : libc'.objs[s] = Read(s)
              /\ obj'[Crt0] = Read(Crt0)]_vars
  BY <1>1
<1> QED
  BY <1>2, Invariance, PTL DEF Spec, RefreshReaches
=============================================================================
