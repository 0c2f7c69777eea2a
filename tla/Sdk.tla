--------------------------------- MODULE Sdk ---------------------------------
(***************************************************************************)
(* How the SDK's libraries come about: tools/mk-sdk.sh copies headers,     *)
(* sources and linker scripts into sdk/ and stamps VERSION, "make libs"    *)
(* compiles what is older than its source and links sdk/lib/libc.sl.       *)
(* Either may fail at any command and is then started again by hand.       *)
(*                                                                         *)
(* The content of a file is a version number.  Modification times are      *)
(* reduced to what make asks of them: whether a target is older than one   *)
(* of its prerequisites.                                                   *)
(***************************************************************************)
EXTENDS Integers

CONSTANTS Libc,        \* the sources of libc.sl
          Crt0,        \* crt0.c
          Hdrs,
          Script,      \* libc.ld
          AppScript,   \* link.ld, which the rules of libs do not name
          MaxVersion,  \* bound: versions of files
          MaxRefresh   \* bound: runs of mk-sdk.sh

LibcSl == "libc.sl"

ASSUME SdkAssumption ==
  /\ Crt0 \notin Libc /\ (Libc \cup {Crt0}) \cap Hdrs = {}
  /\ Script \notin Libc \cup Hdrs \cup {Crt0}
  /\ AppScript \notin Libc \cup Hdrs \cup {Crt0, Script}
  /\ LibcSl \notin Libc \cup {Crt0}
  /\ MaxVersion \in Nat /\ MaxRefresh \in Nat

Srcs == Libc \cup {Crt0}
Files == Srcs \cup Hdrs \cup {Script, AppScript}

VARIABLES
  sdk,      \* the files below sdk/ -> version
  origin,   \* and the refresh each was copied by, 0 as released
  stamp,    \* the refresh VERSION names
  refresh,  \* runs of mk-sdk.sh so far
  obj,      \* objects: source -> what it was compiled from
  libc,     \* what libc.sl was linked from, or None
  older,    \* the targets older than one of their prerequisites
  pc,       \* "idle", "refresh" or "make"
  todo,     \* files still to copy, or objects make has still to see to
  reading,  \* the compilations under way: source -> what was read
  raced,    \* sources changed while make ran
  synced,   \* no file was changed by hand, or by a refresh that failed, since
            \* the last refresh
  version   \* the last version given out

vars == <<sdk, origin, stamp, refresh, obj, libc, older, pc, todo, reading,
          raced, synced, version>>

None == [objs |-> <<>>, script |-> -1]
Drop(f, S) == [x \in DOMAIN f \ S |-> f[x]]
Set(f, x, v) == [y \in DOMAIN f \cup {x} |-> IF y = x THEN v ELSE f[y]]

Read(s) == [src |-> sdk[s], hdrs |-> [h \in Hdrs |-> sdk[h]]]

\* As released: libraries are built, build/ is not there.
Init ==
  /\ sdk = [f \in Files |-> 0] /\ origin = sdk
  /\ stamp = 0 /\ refresh = 0 /\ version = 0
  /\ obj = [s \in {Crt0} |-> Read(s)]
  /\ libc = [objs |-> [s \in Libc |-> Read(s)], script |-> 0]
  /\ older = {} /\ raced = {} /\ synced = TRUE
  /\ pc = "idle" /\ todo = {} /\ reading = [s \in {} |-> 0]

\* The targets that name f as a prerequisite: the rules of the Makefile know
\* the source of an object and nothing of headers.
Dependents(f) ==
  CASE f \in Srcs -> {f} [] f = Script -> {LibcSl} [] OTHER -> {}

-----------------------------------------------------------------------------
(* mk-sdk.sh.                                                              *)

RefreshStart ==
  /\ pc = "idle" /\ refresh < MaxRefresh
  /\ pc' = "refresh" /\ refresh' = refresh + 1 /\ todo' = Files
  /\ synced' = FALSE
  /\ UNCHANGED <<sdk, origin, stamp, obj, libc, older, reading, raced, version>>

\* Headers first, then sources, then one script and the other.
InTurn(f) ==
  /\ f \in todo
  /\ f \in Srcs => todo \cap Hdrs = {}
  /\ f = Script => todo = {Script, AppScript}
  /\ f = AppScript => todo = {AppScript}

\* cp writes the file and its modification time, changed or not.
BugCopy ==
  /\ pc = "refresh"
  /\ \E f \in todo :
       /\ InTurn(f) /\ todo' = todo \ {f}
       /\ origin' = [origin EXCEPT ![f] = refresh]
       /\ \/ /\ version < MaxVersion /\ version' = version + 1
             /\ sdk' = [sdk EXCEPT ![f] = version']
             /\ older' = older \cup Dependents(f)
          \/ UNCHANGED <<sdk, version, older>>
       /\ raced' = raced \ {f}
  /\ UNCHANGED <<stamp, refresh, obj, libc, pc, reading, synced>>

Copy ==
  /\ pc = "refresh"
  /\ \E f \in todo :
       /\ InTurn(f) /\ todo' = todo \ {f}
       /\ origin' = [origin EXCEPT ![f] = refresh]
       /\ \/ /\ version < MaxVersion /\ version' = version + 1
             /\ sdk' = [sdk EXCEPT ![f] = version']
          \/ UNCHANGED <<sdk, version>>
       /\ older' = older \cup Dependents(f)
       /\ raced' = raced \ {f}
  /\ UNCHANGED <<stamp, refresh, obj, libc, pc, reading, synced>>

BugRefreshFails ==
  /\ pc = "refresh" /\ todo # {}
  /\ \E f \in todo : InTurn(f) /\ todo' = todo \ {f}
  /\ UNCHANGED <<sdk, origin, stamp, refresh, obj, libc, older, pc, reading,
                 raced, synced, version>>

\* set -e: the first cp that fails is the end; what was copied stays.
RefreshFails ==
  /\ pc = "refresh" /\ todo # {}
  /\ pc' = "idle" /\ todo' = {}
  /\ UNCHANGED <<sdk, origin, stamp, refresh, obj, libc, older, reading, raced,
                 synced, version>>

Stamp ==
  /\ pc = "refresh" /\ todo = {}
  /\ stamp' = refresh /\ synced' = TRUE /\ pc' = "idle"
  /\ UNCHANGED <<sdk, origin, refresh, obj, libc, older, todo, reading, raced,
                 version>>

-----------------------------------------------------------------------------
(* make.                                                                   *)

\* make goes through the objects in turn.
MakeStart ==
  /\ pc = "idle" /\ pc' = "make" /\ todo' = Srcs
  /\ UNCHANGED <<sdk, origin, stamp, refresh, obj, libc, older, reading, raced,
                 synced, version>>

UpToDate(s) == s \in DOMAIN obj /\ s \notin older

Skip ==
  /\ pc = "make"
  /\ \E s \in todo \ DOMAIN reading : UpToDate(s) /\ todo' = todo \ {s}
  /\ UNCHANGED <<sdk, origin, stamp, refresh, obj, libc, older, pc, reading,
                 raced, synced, version>>

CompileRead ==
  /\ pc = "make"
  /\ \E s \in todo \ DOMAIN reading :
       ~UpToDate(s) /\ reading' = Set(reading, s, Read(s))
  /\ UNCHANGED <<sdk, origin, stamp, refresh, obj, libc, older, pc, todo, raced,
                 synced, version>>

BugCompileWrite ==
  /\ pc = "make"
  /\ \E s \in DOMAIN reading :
       /\ obj' = Set(obj, s, reading[s])
       /\ reading' = Drop(reading, {s}) /\ todo' = todo \ {s}
       /\ older' = older \ {s}
  /\ UNCHANGED <<sdk, origin, stamp, refresh, libc, pc, raced, synced, version>>

\* The object is newer than its source now, whatever happened to that since
\* the compiler read it.
CompileWrite ==
  /\ pc = "make"
  /\ \E s \in DOMAIN reading :
       /\ obj' = Set(obj, s, reading[s])
       /\ reading' = Drop(reading, {s}) /\ todo' = todo \ {s}
       /\ older' = (older \ {s}) \cup {t \in {LibcSl} : s \in Libc}
  /\ UNCHANGED <<sdk, origin, stamp, refresh, libc, pc, raced, synced, version>>

\* All objects are seen to: libc.sl is linked if it is missing or older.
MakeDone ==
  /\ pc = "make" /\ todo = {}
  /\ IF libc = None \/ LibcSl \in older
     THEN libc' = [objs |-> [s \in Libc |-> obj[s]], script |-> sdk[Script]]
     ELSE UNCHANGED libc
  /\ older' = older \ {LibcSl}
  /\ pc' = "idle"
  /\ UNCHANGED <<sdk, origin, stamp, refresh, obj, todo, reading, raced, synced,
                 version>>

\* A compiler or the linker fails and removes its output.
MakeFails ==
  /\ pc = "make" /\ pc' = "idle"
  /\ todo' = {} /\ reading' = Drop(reading, Srcs)
  /\ \/ UNCHANGED libc
     \/ todo = {} /\ (libc = None \/ LibcSl \in older) /\ libc' = None
  /\ UNCHANGED <<sdk, origin, stamp, refresh, obj, older, raced, synced, version>>

Clean ==
  /\ pc = "idle"
  /\ obj' = Drop(obj, Libc)
  /\ UNCHANGED <<sdk, origin, stamp, refresh, libc, older, pc, todo, reading,
                 raced, synced, version>>

Distclean ==
  /\ pc = "idle"
  /\ obj' = Drop(obj, Srcs) /\ libc' = None
  /\ UNCHANGED <<sdk, origin, stamp, refresh, older, pc, todo, reading, raced,
                 synced, version>>

-----------------------------------------------------------------------------
\* A file is changed by hand, also while make runs.
Edit ==
  /\ pc # "refresh" /\ version < MaxVersion /\ version' = version + 1
  /\ \E f \in Files :
       /\ sdk' = [sdk EXCEPT ![f] = version']
       /\ older' = older \cup Dependents(f)
       /\ raced' = IF pc = "make" THEN raced \cup {f} ELSE raced \ {f}
  /\ synced' = FALSE
  /\ UNCHANGED <<origin, stamp, refresh, obj, libc, pc, todo, reading>>

Next ==
  \/ RefreshStart \/ Copy \/ RefreshFails \/ Stamp
  \/ MakeStart \/ Skip \/ CompileRead \/ CompileWrite \/ MakeDone \/ MakeFails
  \/ Clean \/ Distclean \/ Edit

Spec == Init /\ [][Next]_vars

-----------------------------------------------------------------------------
(* What holds of it.                                                       *)

\* VERSION names a refresh that was complete: every file was copied by it or
\* by a later one.
StampHonest == \A f \in Files : origin[f] >= stamp

MakeSucceeds == MakeDone

\* A "make libs" that succeeds leaves libc.sl linked from its sources, without
\* crt0.o, and the script as they are, after failures, cleanings and edits in
\* any order; a file changed under its hands excepted.
Rebuilt ==
  [][MakeSucceeds =>
       /\ DOMAIN libc'.objs = Libc
       /\ \A s \in Libc \ raced : libc'.objs[s].src = sdk[s]
       /\ Script \in raced \/ libc'.script = sdk[Script]]_vars

\* After a refresh, make builds everything from the new sources with the new
\* headers, although no rule mentions headers: cp makes every source new.
RefreshReaches ==
  [][MakeSucceeds /\ synced =>
       /\ \A s \in Libc : libc'.objs[s] = Read(s)
       /\ obj'[Crt0] = Read(Crt0)]_vars
=============================================================================
