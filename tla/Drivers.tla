------------------------------- MODULE Drivers -------------------------------
(***************************************************************************)
(* The compiler drivers bin/axcc and bin/axtcc and the linker wrapper      *)
(* bin/axld, several of them running at once as under make -j.  A driver   *)
(* compiles its sources one by one into a temporary directory, axtcc with  *)
(* tcc first and with gcc where tcc fails, and links the objects.          *)
(*                                                                         *)
(* Compilers and linker are external.  A source is a record of its name,   *)
(* the base name its object gets, and the compilers that accept it.  The   *)
(* content of an object is the name of the source it was made from.        *)
(***************************************************************************)
EXTENDS Integers, Sequences

CONSTANTS Procs,     \* driver processes
          Commands   \* [driver, c, srcs, out, flags]: what they may be run as

\* The flags the scripts look at, a value with its flag, and some they pass on.
Flags == {"-I", "-D", "-L", "-nostdlib", "-T", "-pie", "-shared", "--hash-style", "-z", "-e"}

\* No process is called as the working directory; axld is given objects only.
ASSUME DriversAssumption ==
  /\ "." \notin Procs
  /\ \A run \in Commands :
       /\ run.driver \in {"axcc", "axtcc", "axld"} /\ run.c \in BOOLEAN
       /\ run.srcs \in Seq([name : STRING, base : STRING, by : SUBSET {"tcc", "gcc"}])
       /\ run.flags \subseteq Flags
       /\ run.driver = "axld" => ~run.c /\ run.srcs = <<>>

VARIABLES
  cmd,     \* the command line of each process
  tools,   \* the compilers installed
  proc,    \* pc; k: the source at hand; with: the settings of the link; and
           \* the exit status
  disk,    \* <<directory, name>> -> content, "." being the working directory
  dirs     \* the temporary directories

vars == <<cmd, tools, proc, disk, dirs>>

\* The exit status of a driver that ends in a traceback.
Raised == 130

Idle == [pc |-> "start", k |-> 1, with |-> {}, status |-> 0]

Init ==
  /\ cmd \in [Procs -> Commands]
  /\ tools \in SUBSET {"tcc", "gcc"}
  /\ proc = [p \in Procs |-> Idle]
  /\ disk = [f \in {} |-> ""] /\ dirs = {}

\* tempfile.mkdtemp: a directory of one's own.
Tmp(p) == p

-----------------------------------------------------------------------------
(* axld: what it adds to the flags it is given.                            *)

BugInjected(flags, out) ==
  {f \in {IF out = "libc.sl" THEN "libc.ld" ELSE "link.ld"} : "-T" \notin flags}
    \cup {f \in {"-pie"} : {"-pie", "-shared"} \cap flags = {}}
    \cup {f \in {"sysv"} : "--hash-style" \notin flags}
    \cup {f \in {"max-page-size"} : "-z" \notin flags}
    \cup {f \in {"_start"} : {"-e", "-shared", "-T"} \cap flags = {}}

Injected(flags, out) ==
  {f \in {IF out = "libc.sl" THEN "libc.ld" ELSE "link.ld"} : "-T" \notin flags}
    \cup {f \in {"-pie"} : {"-pie", "-shared"} \cap flags = {}}
    \cup {f \in {"sysv"} : "--hash-style" \notin flags}
    \cup {f \in {"max-page-size"} : "-z" \notin flags}
    \cup {f \in {"_start"} : {"-e", "-shared"} \cap flags = {}}

\* What the linker is run with.  The drivers keep -I and -D to themselves and
\* put crt0.o and libc.sl in; axcc does so even under -nostdlib.
Settings(c) ==
  LET passed == IF c.driver = "axld" THEN c.flags ELSE c.flags \ {"-I", "-D"}
  IN  passed \cup Injected(passed, c.out)
        \cup {f \in {"crt0.o", "libc.sl"} :
                \/ c.driver = "axcc"
                \/ c.driver = "axtcc" /\ "-nostdlib" \notin c.flags}

-----------------------------------------------------------------------------
(* The processes.                                                          *)

Step(p, pc) == proc' = [proc EXCEPT ![p].pc = pc]
Exit(p, status) == proc' = [proc EXCEPT ![p].pc = "exit", ![p].status = status]

Put(f, v) == disk' = [g \in DOMAIN disk \cup {f} |-> IF g = f THEN v ELSE disk[g]]

\* shutil.rmtree(tmpdir)
BugRemoveTmp(p) == UNCHANGED <<disk, dirs>>
RemoveTmp(p) ==
  /\ disk' = [f \in {g \in DOMAIN disk : g[1] # Tmp(p)} |-> disk[f]]
  /\ dirs' = dirs \ {Tmp(p)}

Source(p) == cmd[p].srcs[proc[p].k]

BugObject(p, k) == <<".", cmd[p].srcs[k].base>>

\* Where the object of source k goes.  With -c and several sources axtcc
\* ignores -o.
Object(p, k) ==
  IF ~cmd[p].c THEN <<Tmp(p), cmd[p].srcs[k].base>>
  ELSE <<".", IF Len(cmd[p].srcs) = 1 /\ cmd[p].out # "" THEN cmd[p].out
              ELSE cmd[p].srcs[k].base>>

\* axcc -c hands its command line to gcc, which with the -o that axcc adds
\* takes one source only.
AxccCompileOnly(p) ==
  /\ proc[p].pc = "start" /\ cmd[p].driver = "axcc" /\ cmd[p].c
  /\ IF "gcc" \in tools /\ Len(cmd[p].srcs) = 1 /\ "gcc" \in cmd[p].srcs[1].by
     THEN Put(Object(p, 1), cmd[p].srcs[1].name) /\ Exit(p, 0)
     ELSE UNCHANGED disk /\ Exit(p, IF "gcc" \in tools THEN 1 ELSE Raised)
  /\ UNCHANGED <<cmd, tools, dirs>>

\* axcc needs the temporary directory only if there is something to compile.
Start(p) ==
  /\ proc[p].pc = "start" /\ ~(cmd[p].driver = "axcc" /\ cmd[p].c)
  /\ dirs' = IF \/ cmd[p].driver = "axtcc" /\ ~cmd[p].c
                \/ cmd[p].driver = "axcc" /\ cmd[p].srcs # <<>>
             THEN dirs \cup {Tmp(p)} ELSE dirs
  /\ Step(p, IF cmd[p].driver = "axld" THEN "link" ELSE "compile")
  /\ UNCHANGED <<cmd, tools, disk>>

Compiler(p) ==
  IF cmd[p].driver = "axtcc" /\ "tcc" \in tools /\ proc[p].pc = "compile"
  THEN "tcc" ELSE "gcc"

\* The compiler accepts the source.
Compile(p) ==
  /\ proc[p].pc \in {"compile", "fallback"} /\ proc[p].k <= Len(cmd[p].srcs)
  /\ Compiler(p) \in tools \cap Source(p).by
  /\ Put(Object(p, proc[p].k), Source(p).name)
  /\ proc' = [proc EXCEPT ![p].pc = "compile", ![p].k = @ + 1]
  /\ UNCHANGED <<cmd, tools, dirs>>

Refused(p) ==
  /\ proc[p].pc \in {"compile", "fallback"} /\ proc[p].k <= Len(cmd[p].srcs)
  /\ Compiler(p) \in tools \ Source(p).by

BugFallBack(p) ==
  /\ Refused(p) /\ Compiler(p) = "tcc"
  /\ proc' = [proc EXCEPT ![p].k = @ + 1]
  /\ UNCHANGED <<cmd, tools, disk, dirs>>

\* tcc does not, and may leave a broken object behind.
FallBack(p) ==
  /\ Refused(p) /\ Compiler(p) = "tcc"
  /\ Put(Object(p, proc[p].k), "broken") \/ UNCHANGED disk
  /\ Step(p, "fallback")
  /\ UNCHANGED <<cmd, tools, dirs>>

\* gcc does not: that is the end of it.
GiveUp(p) ==
  /\ Refused(p) /\ Compiler(p) = "gcc"
  /\ IF cmd[p].c THEN UNCHANGED <<disk, dirs>> ELSE RemoveTmp(p)
  /\ Exit(p, 1)
  /\ UNCHANGED <<cmd, tools>>

\* subprocess.run raises if there is no such program, and Control-C raises
\* anywhere: the traceback ends the driver, nothing is cleaned up.
Traceback(p) ==
  /\ proc[p].pc \in {"compile", "fallback", "link", "clean"}
  /\ Exit(p, Raised)
  /\ UNCHANGED <<cmd, tools, disk, dirs>>

Compiled(p) ==
  /\ proc[p].pc = "compile" /\ proc[p].k > Len(cmd[p].srcs)
  /\ IF cmd[p].c THEN Exit(p, 0) ELSE Step(p, "link")
  /\ UNCHANGED <<cmd, tools, disk, dirs>>

\* The linker fails or succeeds; the driver keeps the exit status for later.
Link(p) ==
  /\ proc[p].pc = "link"
  /\ \/ proc' = [proc EXCEPT ![p].pc = "clean", ![p].status = 1]
     \/ proc' = [proc EXCEPT ![p].pc = "clean", ![p].with = Settings(cmd[p])]
  /\ UNCHANGED <<cmd, tools, disk, dirs>>

CleanUp(p) ==
  /\ proc[p].pc = "clean"
  /\ RemoveTmp(p) /\ Step(p, "exit")
  /\ UNCHANGED <<cmd, tools>>

-----------------------------------------------------------------------------
Driver(p) ==
  \/ AxccCompileOnly(p) \/ Start(p) \/ Compile(p) \/ FallBack(p) \/ GiveUp(p)
  \/ Traceback(p) \/ Compiled(p) \/ Link(p) \/ CleanUp(p)

Exited(p) == proc[p].pc = "exit"
Terminating == (\A p \in Procs : Exited(p)) /\ UNCHANGED vars

Next == (\E p \in Procs : Driver(p)) \/ Terminating

Spec == Init /\ [][Next]_vars

-----------------------------------------------------------------------------
(* What holds of it.                                                       *)

Succeeded(p) == Exited(p) /\ proc[p].status = 0

\* The last of p's sources whose object has the name of source k's.
Namesake(p, k) ==
  CHOOSE j \in 1 .. Len(cmd[p].srcs) :
    /\ Object(p, j) = Object(p, k)
    /\ \A i \in j + 1 .. Len(cmd[p].srcs) : Object(p, i) # Object(p, k)

\* What the linker is given for a source is its whole object, whatever tcc left
\* behind and whichever drivers run at the same time; of sources of the same
\* base name it gets the last one's, for each of them.
LinksItsSources ==
  \A p \in Procs :
    proc[p].pc = "link" =>
      \A k \in 1 .. Len(cmd[p].srcs) :
        /\ Object(p, k) \in DOMAIN disk
        /\ disk[Object(p, k)] = cmd[p].srcs[Namesake(p, k)].name

Objects(p) == {Object(p, k) : k \in 1 .. Len(cmd[p].srcs)}

\* -c reports success only when it leaves an object for every source, that of
\* the last one where base names are the same, if no other driver makes objects
\* of the same names there.
LeavesObjects ==
  [][\A p \in Procs :
       cmd[p].c /\ ~Exited(p) /\ Succeeded(p)'
         /\ (\A q \in Procs \ {p} : Objects(p) \cap Objects(q) = {}) =>
         \A k \in 1 .. Len(cmd[p].srcs) :
           /\ Object(p, k) \in DOMAIN disk'
           /\ disk'[Object(p, k)] = cmd[p].srcs[Namesake(p, k)].name]_vars

\* A driver that ends in an orderly way leaves no temporary directory.
NoLitter ==
  \A p \in Procs : Exited(p) /\ proc[p].status # Raised => Tmp(p) \notin dirs

\* A flag of the user's takes the place of the default it stands for and of no
\* other (axld:68-106): a program that is linked is position independent and has
\* either its own layout, hash table, page size and entry or the one the kernel's
\* loader expects.  Any -z counts as one for the page size.
Choices == {<<"-T", "link.ld">>, <<"--hash-style", "sysv">>, <<"-z", "max-page-size">>,
            <<"-e", "_start">>}
Loadable ==
  \A p \in Procs :
    Succeeded(p) /\ ~cmd[p].c /\ cmd[p].out # "libc.sl" /\ "-shared" \notin cmd[p].flags =>
      /\ "-pie" \in proc[p].with
      /\ \A choice \in Choices : choice[1] \in proc[p].with <=> choice[2] \notin proc[p].with
      /\ \A choice \in Choices : choice[1] \in proc[p].with => choice[1] \in cmd[p].flags

\* README.md: if the output name contains libc, axld uses libc.ld and -shared
\* automatically.
LibcIsShared ==
  \A p \in Procs :
    Succeeded(p) /\ cmd[p].out = "libc.sl" =>
      {"libc.ld", "-shared"} \subseteq proc[p].with
=============================================================================
