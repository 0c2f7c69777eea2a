--------------------------- MODULE DriversProofs ---------------------------
(***************************************************************************)
(* The compiler drivers for any number of processes and any command lines: *)
(* what a link is given, what -c leaves, what is cleaned up and what is    *)
(* put into the program, whichever compilers there are, whatever they      *)
(* refuse and wherever a driver is interrupted.                            *)
(***************************************************************************)
EXTENDS Drivers, FiniteSetTheorems, TLAPS

-----------------------------------------------------------------------------
(* The inductive invariant: where a driver can be, what its temporary      *)
(* directory and its link are then, and which objects it has made.         *)

Places == {"start", "compile", "fallback", "link", "clean", "exit"}
Withs == {{}} \cup {Settings(c) : c \in Commands}

TypeOK ==
  /\ cmd \in [Procs -> Commands]
  /\ proc \in [Procs -> [pc : Places, k : Nat, with : Withs, status : Int]]

Made(p) == 1 .. proc[p].k - 1

\* A driver has got as far as source k, and what it was run for tells how far
\* it can get.
PlaceOK ==
  \A p \in Procs :
    /\ proc[p].k \in 1 .. Len(cmd[p].srcs) + 1
    /\ proc[p].pc = "start" => proc[p].k = 1
    /\ proc[p].pc = "fallback" => proc[p].k <= Len(cmd[p].srcs)
    /\ proc[p].pc = "link" => proc[p].k = Len(cmd[p].srcs) + 1
    /\ proc[p].pc \in {"link", "clean"} => ~cmd[p].c

\* The temporary directory is there from the start to the clean-up at most,
\* and never under -c.
DirsOK ==
  \A p \in Procs :
    Tmp(p) \in dirs =>
      /\ ~cmd[p].c
      /\ proc[p].pc # "start"
      /\ proc[p].pc = "exit" => proc[p].status = Raised

\* A link that succeeded was run with the settings of the command line.
WithOK ==
  \A p \in Procs :
    proc[p].pc \in {"clean", "exit"} /\ proc[p].status = 0 /\ ~cmd[p].c =>
      proc[p].with = Settings(cmd[p])

\* Source i is the last before m to have an object of source j's name.
LastBefore(p, j, i, m) ==
  /\ i \in 1 .. m - 1 /\ Object(p, i) = Object(p, j)
  /\ \A h \in i + 1 .. m - 1 : Object(p, h) # Object(p, j)

\* The object of source j is there and is that of the last source of its name.
Whole(p, j, m) ==
  /\ Object(p, j) \in DOMAIN disk
  /\ \A i \in 1 .. m - 1 : LastBefore(p, j, i, m) => disk[Object(p, j)] = cmd[p].srcs[i].name

\* No other driver makes an object where p does.
Alone(p) == \A q \in Procs \ {p} : Objects(p) \cap Objects(q) = {}

\* What is compiled is there, but for the object that tcc may have broken
\* while gcc has yet to make it anew.
Progress(p) ==
  \A j \in Made(p) :
    \/ proc[p].pc = "fallback" /\ Object(p, j) = Object(p, proc[p].k)
    \/ Whole(p, j, proc[p].k)

ObjectsOK ==
  \A p \in Procs :
    Alone(p) /\ proc[p].pc \in {"compile", "fallback", "link"} => Progress(p)

DInv == TypeOK /\ PlaceOK /\ DirsOK /\ WithOK /\ ObjectsOK

-----------------------------------------------------------------------------
(* Steps as what they do to the record of their process.                   *)

Record(A, B, C, D) == [pc : A, k : B, with : C, status : D]

\* A record of these fields is what its fields are.
LEMMA RecordIs ==
  ASSUME NEW A, NEW B, NEW C, NEW D, NEW r \in Record(A, B, C, D)
  PROVE  /\ r = [pc |-> r.pc, k |-> r.k, with |-> r.with, status |-> r.status]
         /\ r.pc \in A /\ r.k \in B /\ r.with \in C /\ r.status \in D
BY DEF Record

Rec == Record(Places, Nat, Withs, Int)

\* What a change of one field sets and leaves.
LEMMA Sets ==
  ASSUME NEW r \in Rec, NEW x
  PROVE  /\ [r EXCEPT !.pc = x] = [pc |-> x, k |-> r.k, with |-> r.with, status |-> r.status]
         /\ [r EXCEPT !.k = x] = [pc |-> r.pc, k |-> x, with |-> r.with, status |-> r.status]
         /\ [r EXCEPT !.with = x] = [pc |-> r.pc, k |-> r.k, with |-> x, status |-> r.status]
         /\ [r EXCEPT !.status = x] = [pc |-> r.pc, k |-> r.k, with |-> r.with, status |-> x]
<1> DEFINE q1 == [r EXCEPT !.pc = x]
           q2 == [r EXCEPT !.k = x]
           q3 == [r EXCEPT !.with = x]
           q4 == [r EXCEPT !.status = x]
<1>1. q1 \in Record({x}, Nat, Withs, Int) /\ q1.k = r.k /\ q1.with = r.with /\ q1.status = r.status
  BY DEF Record, Rec
<1>2. q2 \in Record(Places, {x}, Withs, Int) /\ q2.pc = r.pc /\ q2.with = r.with /\ q2.status = r.status
  BY DEF Record, Rec
<1>3. q3 \in Record(Places, Nat, {x}, Int) /\ q3.pc = r.pc /\ q3.k = r.k /\ q3.status = r.status
  BY DEF Record, Rec
<1>4. q4 \in Record(Places, Nat, Withs, {x}) /\ q4.pc = r.pc /\ q4.k = r.k /\ q4.with = r.with
  BY DEF Record, Rec
<1> HIDE DEF q1, q2, q3, q4
<1>5. q1 = [pc |-> x, k |-> r.k, with |-> r.with, status |-> r.status]
  BY <1>1, RecordIs
<1>6. q2 = [pc |-> r.pc, k |-> x, with |-> r.with, status |-> r.status]
  BY <1>2, RecordIs
<1>7. q3 = [pc |-> r.pc, k |-> r.k, with |-> x, status |-> r.status]
  BY <1>3, RecordIs
<1>8. q4 = [pc |-> r.pc, k |-> r.k, with |-> r.with, status |-> x]
  BY <1>4, RecordIs
<1> QED
  BY <1>5, <1>6, <1>7, <1>8 DEF q1, q2, q3, q4

\* Process p comes to place x and source n, with w and s; no other moves.
Becomes(p, x, n, w, s) ==
  /\ proc' \in [Procs -> [pc : Places, k : Nat, with : Withs, status : Int]]
  /\ proc'[p].pc = x /\ proc'[p].k = n /\ proc'[p].with = w /\ proc'[p].status = s
  /\ \A q \in Procs \ {p} : proc'[q] = proc[q]

\* The record of one process set as a whole.
LEMMA Updated ==
  ASSUME TypeOK, NEW p \in Procs, NEW x \in Places, NEW n \in Nat, NEW w \in Withs, NEW s \in Int,
         proc' = [proc EXCEPT ![p] = [pc |-> x, k |-> n, with |-> w, status |-> s]]
  PROVE  Becomes(p, x, n, w, s)
<1> DEFINE R == [pc : Places, k : Nat, with : Withs, status : Int]
<1>1. PICK r : r = [pc |-> x, k |-> n, with |-> w, status |-> s]
  OBVIOUS
<1>2. r \in R
  BY <1>1
<1>3. proc \in [Procs -> R] /\ proc' = [proc EXCEPT ![p] = r]
  BY <1>1 DEF TypeOK
<1>4. proc' \in [Procs -> R] /\ proc'[p] = r /\ \A q \in Procs \ {p} : proc'[q] = proc[q]
  BY <1>2, <1>3
<1>5. r.pc = x /\ r.k = n /\ r.with = w /\ r.status = s
  BY <1>1
<1> QED
  BY <1>4, <1>5 DEF Becomes

\* What the record of a process can be.
LEMMA OfProc ==
  ASSUME TypeOK, NEW p \in Procs
  PROVE  /\ proc[p] \in Rec
         /\ proc[p].pc \in Places /\ proc[p].k \in Nat /\ proc[p].with \in Withs
         /\ proc[p].status \in Int
<1>1. proc[p] \in Rec
  BY DEF TypeOK, Record, Rec
<1> QED
  BY <1>1, RecordIs DEF Rec

\* A step to another place changes nothing else.
LEMMA StepBecomes ==
  ASSUME TypeOK, NEW p \in Procs, NEW x \in Places, Step(p, x)
  PROVE  Becomes(p, x, proc[p].k, proc[p].with, proc[p].status)
<1>1. [proc[p] EXCEPT !.pc = x]
        = [pc |-> x, k |-> proc[p].k, with |-> proc[p].with, status |-> proc[p].status]
  BY OfProc, Sets
<1>2. proc' = [proc EXCEPT ![p] = [proc[p] EXCEPT !.pc = x]]
  BY DEF Step
<1> QED
  BY <1>1, <1>2, OfProc, Updated

\* An exit changes the place and the exit status.
LEMMA ExitBecomes ==
  ASSUME TypeOK, NEW p \in Procs, NEW s \in Int, Exit(p, s)
  PROVE  Becomes(p, "exit", proc[p].k, proc[p].with, s)
<1> DEFINE q == [proc[p] EXCEPT !.pc = "exit"]
<1>1. q = [pc |-> "exit", k |-> proc[p].k, with |-> proc[p].with, status |-> proc[p].status]
  BY OfProc, Sets
<1>2. q \in Rec
  BY <1>1, OfProc DEF Record, Rec, Places
<1>3. q.k = proc[p].k /\ q.with = proc[p].with /\ q.pc = "exit"
  BY <1>1
<1> HIDE DEF q
<1>4. [q EXCEPT !.status = s] = [pc |-> q.pc, k |-> q.k, with |-> q.with, status |-> s]
  BY <1>2, Sets
<1>5. proc' = [proc EXCEPT ![p] = [q EXCEPT !.status = s]]
  BY DEF Exit, q
<1>6. "exit" \in Places
  BY DEF Places
<1> QED
  BY <1>3, <1>4, <1>5, <1>6, OfProc, Updated

\* A source that is compiled moves its driver on to the next.
LEMMA CompileBecomes ==
  ASSUME TypeOK, NEW p \in Procs,
         proc' = [proc EXCEPT ![p].pc = "compile", ![p].k = @ + 1]
  PROVE  Becomes(p, "compile", proc[p].k + 1, proc[p].with, proc[p].status)
<1> DEFINE q == [proc[p] EXCEPT !.pc = "compile"]
<1>1. q = [pc |-> "compile", k |-> proc[p].k, with |-> proc[p].with, status |-> proc[p].status]
  BY OfProc, Sets
<1>2. q \in Rec
  BY <1>1, OfProc DEF Record, Rec, Places
<1>3. q.k = proc[p].k /\ q.with = proc[p].with /\ q.pc = "compile" /\ q.status = proc[p].status
  BY <1>1
<1>4. proc' = [proc EXCEPT ![p] = [q EXCEPT !.k = q.k + 1]]
  BY <1>3
<1> HIDE DEF q
<1>5. [q EXCEPT !.k = q.k + 1] = [pc |-> q.pc, k |-> q.k + 1, with |-> q.with, status |-> q.status]
  BY <1>2, Sets
<1>6. "compile" \in Places /\ proc[p].k + 1 \in Nat
  BY OfProc DEF Places
<1> QED
  BY <1>3, <1>4, <1>5, <1>6, OfProc, Updated

\* A link fails with status 1 or keeps the settings it was run with.
LEMMA LinkBecomes ==
  ASSUME TypeOK, NEW p \in Procs, Link(p)
  PROVE  \/ Becomes(p, "clean", proc[p].k, proc[p].with, 1)
         \/ Becomes(p, "clean", proc[p].k, Settings(cmd[p]), proc[p].status)
<1> DEFINE q == [proc[p] EXCEPT !.pc = "clean"]
<1>1. q = [pc |-> "clean", k |-> proc[p].k, with |-> proc[p].with, status |-> proc[p].status]
  BY OfProc, Sets
<1>2. q \in Rec
  BY <1>1, OfProc DEF Record, Rec, Places
<1>3. q.k = proc[p].k /\ q.with = proc[p].with /\ q.pc = "clean" /\ q.status = proc[p].status
  BY <1>1
<1> HIDE DEF q
<1>4. "clean" \in Places /\ 1 \in Int /\ Settings(cmd[p]) \in Withs
  BY DEF Places, Withs, TypeOK
<1>5. CASE proc' = [proc EXCEPT ![p].pc = "clean", ![p].status = 1]
  <2>1. proc' = [proc EXCEPT ![p] = [q EXCEPT !.status = 1]]
    BY <1>5 DEF q
  <2>2. [q EXCEPT !.status = 1] = [pc |-> q.pc, k |-> q.k, with |-> q.with, status |-> 1]
    BY <1>2, Sets
  <2> QED
    BY <1>3, <1>4, <2>1, <2>2, OfProc, Updated
<1>6. CASE proc' = [proc EXCEPT ![p].pc = "clean", ![p].with = Settings(cmd[p])]
  <2> DEFINE w == Settings(cmd[p])
  <2>1. proc' = [proc EXCEPT ![p] = [q EXCEPT !.with = w]]
    BY <1>6 DEF q
  <2> HIDE DEF w
  <2>2. [q EXCEPT !.with = w] = [pc |-> q.pc, k |-> q.k, with |-> w, status |-> q.status]
    BY <1>2, Sets
  <2>3. w \in Withs
    BY <1>4 DEF w
  <2>4. Becomes(p, "clean", proc[p].k, w, proc[p].status)
    BY <1>3, <1>4, <2>1, <2>2, <2>3, OfProc, Updated
  <2> QED
    BY <2>4 DEF w
<1> QED
  BY <1>5, <1>6 DEF Link

-----------------------------------------------------------------------------
(* Objects that no step touches stay what they are.                        *)

\* What a command line can be.
LEMMA OfCmd ==
  ASSUME TypeOK, NEW p \in Procs
  PROVE  /\ cmd[p] \in Commands /\ cmd[p].c \in BOOLEAN
         /\ Len(cmd[p].srcs) \in Nat
         /\ cmd[p].driver = "axld" => ~cmd[p].c /\ Len(cmd[p].srcs) = 0
         /\ cmd[p].driver \in {"axcc", "axtcc", "axld"}
<1>1. cmd[p] \in Commands
  BY DEF TypeOK
<1>2. cmd[p].srcs \in Seq([name : STRING, base : STRING, by : SUBSET {"tcc", "gcc"}])
  BY <1>1, DriversAssumption
<1>3. Len(cmd[p].srcs) \in Nat
  BY <1>2
<1>4. cmd[p].srcs = <<>> => Len(cmd[p].srcs) = 0
  OBVIOUS
<1> QED
  BY <1>1, <1>3, <1>4, DriversAssumption

\* An object lies in the driver's own directory or in the working directory.
LEMMA ObjectIn ==
  ASSUME NEW p, NEW k
  PROVE  /\ Object(p, k)[1] = IF cmd[p].c THEN "." ELSE Tmp(p)
BY DEF Object

Keeps(q) ==
  \A j \in 1 .. Len(cmd[q].srcs) :
    Object(q, j) \in DOMAIN disk =>
      Object(q, j) \in DOMAIN disk' /\ disk'[Object(q, j)] = disk[Object(q, j)]

\* A step that leaves the files alone keeps all objects.
LEMMA KeepsWhenSame == ASSUME disk' = disk, NEW q PROVE Keeps(q)
BY DEF Keeps

\* Another driver's object is another one, if they do not meet.
LEMMA KeepsWhenPut ==
  ASSUME TypeOK, NEW p \in Procs, NEW q \in Procs, q # p, Alone(q),
         NEW i \in 1 .. Len(cmd[p].srcs), NEW v, Put(Object(p, i), v)
  PROVE  Keeps(q)
<1> SUFFICES ASSUME NEW j \in 1 .. Len(cmd[q].srcs), Object(q, j) \in DOMAIN disk
             PROVE  /\ Object(q, j) \in DOMAIN disk'
                    /\ disk'[Object(q, j)] = disk[Object(q, j)]
  BY DEF Keeps
<1>1. Object(q, j) # Object(p, i)
  BY DEF Alone, Objects
<1> DEFINE f == Object(p, i)
           g == Object(q, j)
<1>2. disk' = [e \in DOMAIN disk \cup {f} |-> IF e = f THEN v ELSE disk[e]] /\ g # f /\ g \in DOMAIN disk
  BY <1>1 DEF Put
<1> HIDE DEF f, g
<1>3. g \in DOMAIN disk' /\ disk'[g] = disk[g]
  BY <1>2
<1> QED
  BY <1>3 DEF g

\* A clean-up removes what is in the driver's own directory.
LEMMA KeepsWhenRemoved ==
  ASSUME TypeOK, NEW p \in Procs, NEW q \in Procs, q # p, RemoveTmp(p)
  PROVE  Keeps(q)
<1> SUFFICES ASSUME NEW j \in 1 .. Len(cmd[q].srcs), Object(q, j) \in DOMAIN disk
             PROVE  /\ Object(q, j) \in DOMAIN disk'
                    /\ disk'[Object(q, j)] = disk[Object(q, j)]
  BY DEF Keeps
<1> DEFINE g == Object(q, j)
<1>1. g[1] # p
  BY ObjectIn, DriversAssumption DEF Tmp
<1>2. disk' = [f \in {e \in DOMAIN disk : e[1] # p} |-> disk[f]] /\ g \in DOMAIN disk
  BY DEF RemoveTmp, Tmp
<1> HIDE DEF g
<1>3. g \in DOMAIN disk' /\ disk'[g] = disk[g]
  BY <1>1, <1>2
<1> QED
  BY <1>3 DEF g

\* A driver that does not move on keeps its progress with its objects.
LEMMA SameProgress ==
  ASSUME TypeOK, PlaceOK, NEW q \in Procs, cmd' = cmd, proc'[q].k = proc[q].k,
         proc[q].pc = "fallback" => proc'[q].pc = "fallback",
         Keeps(q), Progress(q)
  PROVE  Progress(q)'
<1>1. PICK k \in 1 .. Len(cmd[q].srcs) + 1 : k = proc[q].k /\ k = proc'[q].k
  BY DEF PlaceOK
<1>2. Len(cmd[q].srcs) \in Nat
  BY OfCmd
<1> SUFFICES ASSUME NEW j \in 1 .. k - 1
             PROVE  \/ proc'[q].pc = "fallback" /\ Object(q, j)' = Object(q, k)'
                    \/ Whole(q, j, k)'
  BY <1>1 DEF Progress, Made
<1>3. \/ proc[q].pc = "fallback" /\ Object(q, j) = Object(q, k)
      \/ Whole(q, j, k)
  BY <1>1 DEF Progress, Made
<1>4. CASE proc[q].pc = "fallback" /\ Object(q, j) = Object(q, k)
  BY <1>4 DEF Object
<1>5. CASE Whole(q, j, k)
  <2>1. j \in 1 .. Len(cmd[q].srcs)
    BY <1>2
  <2>2. Object(q, j) \in DOMAIN disk' /\ disk'[Object(q, j)] = disk[Object(q, j)]
    BY <1>5, <2>1 DEF Keeps, Whole
  <2>3. Object(q, j)' = Object(q, j)
    BY DEF Object
  <2>4. \A i : LastBefore(q, j, i, k)' <=> LastBefore(q, j, i, k)
    BY DEF LastBefore, Object
  <2> QED
    BY <1>5, <2>2, <2>3, <2>4 DEF Whole
<1> QED
  BY <1>3, <1>4, <1>5

\* So the objects of the others are as they were, and only the process that
\* took the step is in question.
LEMMA OthersKept ==
  ASSUME DInv, NEW p \in Procs, cmd' = cmd,
         \A q \in Procs \ {p} : proc'[q] = proc[q] /\ (Alone(q) => Keeps(q)),
         Alone(p) /\ proc'[p].pc \in {"compile", "fallback", "link"} => Progress(p)'
  PROVE  ObjectsOK'
<1>1. \A q \in Procs : Objects(q)' = Objects(q)
  BY DEF Objects, Object
<1>2. \A q \in Procs : Alone(q)' <=> Alone(q)
  BY <1>1 DEF Alone
<1>3. ASSUME NEW q \in Procs, q # p, Alone(q), proc'[q].pc \in {"compile", "fallback", "link"}
      PROVE  Progress(q)'
  <2>1. proc'[q] = proc[q] /\ Keeps(q)
    BY <1>3
  <2>2. Progress(q)
    BY <1>3, <2>1 DEF DInv, ObjectsOK
  <2> QED
    BY <2>1, <2>2, SameProgress DEF DInv
<1> QED
  BY <1>2, <1>3 DEF ObjectsOK

-----------------------------------------------------------------------------
(* Every step preserves the invariant.                                     *)

\* What is left to show of a step of p.
LEMMA MovesOn ==
  ASSUME DInv, NEW p \in Procs, cmd' = cmd, NEW x, NEW n, NEW w, NEW s,
         Becomes(p, x, n, w, s), ObjectsOK',
         n \in 1 .. Len(cmd[p].srcs) + 1,
         x # "start", x = "fallback" => n <= Len(cmd[p].srcs),
         x = "link" => n = Len(cmd[p].srcs) + 1,
         x \in {"link", "clean"} => ~cmd[p].c,
         x \in {"clean", "exit"} /\ s = 0 /\ ~cmd[p].c => w = Settings(cmd[p]),
         \A q \in Procs \ {p} : Tmp(q) \in dirs' => Tmp(q) \in dirs,
         Tmp(p) \in dirs' => ~cmd[p].c /\ (x = "exit" => s = Raised)
  PROVE  DInv'
<1>1. /\ proc'[p].pc = x /\ proc'[p].k = n /\ proc'[p].with = w /\ proc'[p].status = s
      /\ \A q \in Procs \ {p} : proc'[q] = proc[q]
  BY DEF Becomes
<1>2. TypeOK'
  BY DEF Becomes, TypeOK, DInv
<1>3. PlaceOK'
  BY <1>1 DEF PlaceOK, DInv
<1>4. DirsOK'
  <2>1. ASSUME NEW q \in Procs, Tmp(q)' \in dirs'
        PROVE  /\ ~cmd'[q].c /\ proc'[q].pc # "start"
               /\ proc'[q].pc = "exit" => proc'[q].status = Raised
    <3>1. CASE q = p
      BY <1>1, <2>1, <3>1 DEF Tmp
    <3>2. CASE q # p
      BY <1>1, <2>1, <3>2 DEF DInv, DirsOK, Tmp
    <3> QED
      BY <3>1, <3>2
  <2> QED
    BY <2>1 DEF DirsOK, Raised
<1>5. WithOK'
  <2>1. ASSUME NEW q \in Procs, proc'[q].pc \in {"clean", "exit"}, proc'[q].status = 0, ~cmd'[q].c
        PROVE  proc'[q].with = Settings(cmd[q])
    <3>1. CASE q = p
      BY <1>1, <2>1, <3>1
    <3>2. CASE q # p
      BY <1>1, <2>1, <3>2 DEF DInv, WithOK
    <3> QED
      BY <3>1, <3>2
  <2>2. \A q \in Procs : Settings(cmd[q])' = Settings(cmd[q])
    BY DEF Settings, Injected
  <2> QED
    BY <2>1, <2>2 DEF WithOK
<1> QED
  BY <1>2, <1>3, <1>4, <1>5 DEF DInv

\* A step that goes somewhere else with all objects as they were.
LEMMA MovesAlone ==
  ASSUME DInv, NEW p \in Procs, cmd' = cmd, NEW x, NEW w, NEW s,
         Becomes(p, x, proc[p].k, w, s), disk' = disk,
         proc[p].pc = "start" \/ proc[p].pc = "compile" \/ x \notin {"compile", "fallback", "link"}
  PROVE  ObjectsOK'
<1>1. proc'[p].k = proc[p].k /\ proc'[p].pc = x /\ \A q \in Procs \ {p} : proc'[q] = proc[q]
  BY DEF Becomes
<1>2. \A q : Keeps(q)
  BY KeepsWhenSame
<1>3. ASSUME Alone(p), x \in {"compile", "fallback", "link"} PROVE Progress(p)'
  <2>1. CASE proc[p].pc = "start"
    <3>1. proc'[p].k = 1
      BY <1>1, <2>1 DEF DInv, PlaceOK
    <3> QED
      BY <3>1 DEF Progress, Made
  <2>2. CASE proc[p].pc = "compile"
    <3>1. Progress(p)
      BY <1>3, <2>2 DEF DInv, ObjectsOK
    <3> QED
      BY <1>1, <1>2, <2>2, <3>1, SameProgress DEF DInv
  <2> QED
    BY <1>3, <2>1, <2>2
<1> QED
  BY <1>1, <1>2, <1>3, OthersKept

\* No driver has made or promised anything at the start.
LEMMA DInit == Init => DInv
<1> SUFFICES ASSUME Init PROVE DInv
  OBVIOUS
<1>1. cmd \in [Procs -> Commands] /\ dirs = {} /\ proc = [p \in Procs |-> Idle]
  BY DEF Init
<1>2. Idle \in [pc : Places, k : Nat, with : Withs, status : Int]
      /\ Idle.pc = "start" /\ Idle.k = 1
  BY DEF Idle, Places, Withs
<1>3. TypeOK
  BY <1>1, <1>2 DEF TypeOK
<1>4. PlaceOK
  <2> SUFFICES ASSUME NEW p \in Procs
               PROVE  /\ proc[p].k \in 1 .. Len(cmd[p].srcs) + 1
                      /\ proc[p].k = 1 /\ proc[p].pc = "start"
    BY DEF PlaceOK
  <2>1. proc[p].k = 1 /\ proc[p].pc = "start" /\ Len(cmd[p].srcs) \in Nat
    BY <1>1, <1>2, <1>3, OfCmd
  <2>2. 1 \in 1 .. Len(cmd[p].srcs) + 1
    BY <2>1
  <2> QED
    BY <2>1, <2>2
<1>5. DirsOK /\ WithOK /\ ObjectsOK
  BY <1>1, <1>2 DEF DirsOK, WithOK, ObjectsOK
<1> QED
  BY <1>3, <1>4, <1>5 DEF DInv

\* axcc -c is over at once: it owes its objects to nobody any more.
LEMMA AxccCompileOnlyInv ==
  ASSUME DInv, NEW p \in Procs, AxccCompileOnly(p)
  PROVE  DInv'
<1>1. /\ proc[p].pc = "start" /\ cmd[p].c /\ cmd' = cmd /\ dirs' = dirs
      /\ \/ Len(cmd[p].srcs) = 1 /\ Put(Object(p, 1), cmd[p].srcs[1].name) /\ Exit(p, 0)
         \/ disk' = disk /\ (Exit(p, 1) \/ Exit(p, Raised))
  BY DEF AxccCompileOnly
<1>2. PICK s \in Int : Becomes(p, "exit", proc[p].k, proc[p].with, s)
  BY <1>1, ExitBecomes DEF DInv, Raised
<1>3. \A q \in Procs \ {p} : proc'[q] = proc[q] /\ (Alone(q) => Keeps(q))
  BY <1>1, <1>2, KeepsWhenPut, KeepsWhenSame DEF Becomes, DInv
<1>4. ObjectsOK'
  BY <1>1, <1>2, <1>3, OthersKept DEF Becomes
<1>5. Tmp(p) \notin dirs'
  BY <1>1 DEF DInv, DirsOK
<1>6. proc[p].k \in 1 .. Len(cmd[p].srcs) + 1
  BY DEF DInv, PlaceOK
<1> QED
  BY <1>1, <1>2, <1>4, <1>5, <1>6, MovesOn

\* A driver that starts has compiled nothing yet and makes its own directory.
LEMMA StartInv ==
  ASSUME DInv, NEW p \in Procs, Start(p)
  PROVE  DInv'
<1> DEFINE x == IF cmd[p].driver = "axld" THEN "link" ELSE "compile"
<1>1. /\ proc[p].pc = "start" /\ cmd' = cmd /\ disk' = disk /\ Step(p, x)
      /\ dirs' = dirs \/ (~cmd[p].c /\ dirs' = dirs \cup {Tmp(p)})
  BY OfCmd DEF Start, DInv
<1>2. Becomes(p, x, proc[p].k, proc[p].with, proc[p].status)
  BY <1>1, StepBecomes DEF DInv, Places
<1>3. ObjectsOK'
  BY <1>1, <1>2, MovesAlone
<1>4. x = "link" => ~cmd[p].c /\ proc[p].k = Len(cmd[p].srcs) + 1
  BY <1>1, OfCmd DEF DInv, PlaceOK
<1>5. /\ \A q \in Procs \ {p} : Tmp(q) \in dirs' => Tmp(q) \in dirs
      /\ Tmp(p) \in dirs' => ~cmd[p].c
  BY <1>1 DEF Tmp, DInv, DirsOK
<1>6. proc[p].k \in 1 .. Len(cmd[p].srcs) + 1
  BY DEF DInv, PlaceOK
<1>7. x \in {"link", "compile"}
  OBVIOUS
<1> HIDE DEF x
<1> QED
  BY <1>1, <1>2, <1>3, <1>4, <1>5, <1>6, <1>7, MovesOn

\* The compiler makes the object of the source at hand, anew if need be.
LEMMA CompileProgress ==
  ASSUME DInv, NEW p \in Procs, Alone(p), Compile(p), proc'[p].k = proc[p].k + 1,
         proc'[p].pc = "compile"
  PROVE  Progress(p)'
<1>1. PICK k \in 1 .. Len(cmd[p].srcs) : k = proc[p].k
  BY DEF Compile, DInv, PlaceOK
<1>2. proc'[p].k = k + 1 /\ k \in Nat /\ cmd' = cmd /\ Len(cmd[p].srcs) \in Nat
  BY <1>1, OfCmd DEF Compile, DInv
<1>3. disk' = [e \in DOMAIN disk \cup {Object(p, k)} |->
                 IF e = Object(p, k) THEN cmd[p].srcs[k].name ELSE disk[e]]
  BY <1>1 DEF Compile, Put, Source
<1>4. Progress(p)
  BY DEF Compile, DInv, ObjectsOK
<1>5. ASSUME NEW j \in 1 .. k PROVE Whole(p, j, k + 1)'
  <2>1. \A i : Object(p, i)' = Object(p, i)
    BY <1>2 DEF Object
  <2>2. \A i : LastBefore(p, j, i, k + 1)' <=> LastBefore(p, j, i, k + 1)
    BY <1>2 DEF LastBefore, Object
  <2>3. CASE Object(p, j) = Object(p, k)
    <3>1. ASSUME NEW i, LastBefore(p, j, i, k + 1) PROVE i = k
      BY <1>2, <2>3, <3>1 DEF LastBefore
    <3>2. Object(p, j) \in DOMAIN disk' /\ disk'[Object(p, j)] = cmd[p].srcs[k].name
      BY <1>3, <2>3
    <3>3. Object(p, j)' = Object(p, j)
      BY <1>2 DEF Object
    <3> QED
      BY <1>2, <2>2, <3>1, <3>2, <3>3 DEF Whole
  <2>4. CASE Object(p, j) # Object(p, k)
    <3>1. j \in 1 .. k - 1
      BY <1>2, <2>4
    <3>2. Whole(p, j, k)
      BY <1>1, <1>4, <2>4, <3>1 DEF Progress, Made
    <3>3. Object(p, j) \in DOMAIN disk' /\ disk'[Object(p, j)] = disk[Object(p, j)]
      BY <1>3, <2>4, <3>2 DEF Whole
    <3>4. ASSUME NEW i, LastBefore(p, j, i, k + 1) PROVE LastBefore(p, j, i, k)
      <4>1. i # k
        BY <2>4, <3>4 DEF LastBefore
      <4> QED
        BY <1>2, <3>4, <4>1 DEF LastBefore
    <3>5. ASSUME NEW i \in 1 .. k, LastBefore(p, j, i, k + 1)
          PROVE  disk'[Object(p, j)] = cmd[p].srcs[i].name
      <4>1. LastBefore(p, j, i, k)
        BY <3>4, <3>5
      <4>2. i \in 1 .. k - 1
        BY <4>1 DEF LastBefore
      <4> QED
        BY <3>2, <3>3, <4>1, <4>2 DEF Whole
    <3>6. Object(p, j)' = Object(p, j)
      BY <1>2 DEF Object
    <3> QED
      BY <1>2, <2>2, <3>3, <3>5, <3>6 DEF Whole
  <2> QED
    BY <2>3, <2>4
<1> QED
  BY <1>2, <1>5 DEF Progress, Made

\* A new object is whole, and those of its name become whole with it.
LEMMA CompileInv ==
  ASSUME DInv, NEW p \in Procs, Compile(p)
  PROVE  DInv'
<1>1. /\ cmd' = cmd /\ dirs' = dirs /\ proc[p].pc \in {"compile", "fallback"}
      /\ proc[p].k \in 1 .. Len(cmd[p].srcs)
      /\ Put(Object(p, proc[p].k), Source(p).name)
      /\ proc' = [proc EXCEPT ![p].pc = "compile", ![p].k = @ + 1]
  BY DEF Compile, DInv, PlaceOK
<1>2. Becomes(p, "compile", proc[p].k + 1, proc[p].with, proc[p].status)
  BY <1>1, CompileBecomes DEF DInv
<1>3. \A q \in Procs \ {p} : proc'[q] = proc[q] /\ (Alone(q) => Keeps(q))
  BY <1>1, <1>2, KeepsWhenPut DEF Becomes, DInv
<1>4. ObjectsOK'
  BY <1>1, <1>2, <1>3, CompileProgress, OthersKept DEF Becomes
<1>5. proc[p].k + 1 \in 1 .. Len(cmd[p].srcs) + 1
  BY <1>1, OfCmd DEF DInv
<1>6. Tmp(p) \in dirs' => ~cmd[p].c
  BY <1>1 DEF DInv, DirsOK
<1> QED
  BY <1>1, <1>2, <1>4, <1>5, <1>6, MovesOn

\* What tcc breaks is the object that gcc is to make next.
LEMMA FallBackProgress ==
  ASSUME DInv, NEW p \in Procs, Alone(p), FallBack(p), proc'[p].k = proc[p].k,
         proc'[p].pc = "fallback"
  PROVE  Progress(p)'
<1>1. PICK k \in 1 .. Len(cmd[p].srcs) : k = proc[p].k
  BY DEF FallBack, Refused, DInv, PlaceOK
<1>2. proc'[p].k = k /\ k \in Nat /\ cmd' = cmd /\ Len(cmd[p].srcs) \in Nat
  BY <1>1, OfCmd DEF FallBack, DInv
<1>3. \A f : f \in DOMAIN disk /\ f # Object(p, k) => f \in DOMAIN disk' /\ disk'[f] = disk[f]
  BY <1>1 DEF FallBack, Put
<1>4. Progress(p)
  BY DEF FallBack, Refused, DInv, ObjectsOK
<1>5. ASSUME NEW j \in 1 .. k - 1, Object(p, j) # Object(p, k) PROVE Whole(p, j, k)'
  <2>1. Whole(p, j, k)
    BY <1>1, <1>4, <1>5 DEF Progress, Made
  <2>2. Object(p, j) \in DOMAIN disk' /\ disk'[Object(p, j)] = disk[Object(p, j)]
    BY <1>3, <1>5, <2>1 DEF Whole
  <2>3. Object(p, j)' = Object(p, j)
    BY <1>2 DEF Object
  <2>4. \A i : LastBefore(p, j, i, k)' <=> LastBefore(p, j, i, k)
    BY <1>2 DEF LastBefore, Object
  <2> QED
    BY <1>2, <2>1, <2>2, <2>3, <2>4 DEF Whole
<1>6. ASSUME NEW j \in 1 .. k - 1 PROVE Object(p, j)' = Object(p, j) /\ Object(p, k)' = Object(p, k)
  BY <1>2 DEF Object
<1> QED
  BY <1>2, <1>5, <1>6 DEF Progress, Made

\* What tcc breaks is the object of the source gcc is tried on next.
LEMMA FallBackInv ==
  ASSUME DInv, NEW p \in Procs, FallBack(p)
  PROVE  DInv'
<1>1. /\ cmd' = cmd /\ dirs' = dirs /\ proc[p].pc \in {"compile", "fallback"}
      /\ proc[p].k \in 1 .. Len(cmd[p].srcs)
      /\ Put(Object(p, proc[p].k), "broken") \/ disk' = disk
      /\ Step(p, "fallback")
  BY DEF FallBack, Refused, DInv, PlaceOK
<1>2. Becomes(p, "fallback", proc[p].k, proc[p].with, proc[p].status)
  BY <1>1, StepBecomes DEF DInv, Places
<1>3. \A q \in Procs \ {p} : proc'[q] = proc[q] /\ (Alone(q) => Keeps(q))
  BY <1>1, <1>2, KeepsWhenPut, KeepsWhenSame DEF Becomes, DInv
<1>4. ObjectsOK'
  BY <1>1, <1>2, <1>3, FallBackProgress, OthersKept DEF Becomes
<1>5. proc[p].k \in 1 .. Len(cmd[p].srcs) + 1 /\ proc[p].k <= Len(cmd[p].srcs)
  BY <1>1, OfCmd DEF DInv
<1>6. Tmp(p) \in dirs' => ~cmd[p].c
  BY <1>1 DEF DInv, DirsOK
<1> QED
  BY <1>1, <1>2, <1>4, <1>5, <1>6, MovesOn

\* A driver gcc refuses a source of removes its directory unless under -c.
LEMMA GiveUpInv ==
  ASSUME DInv, NEW p \in Procs, GiveUp(p)
  PROVE  DInv'
<1>1. /\ cmd' = cmd /\ proc[p].pc \in {"compile", "fallback"}
      /\ IF cmd[p].c THEN UNCHANGED <<disk, dirs>> ELSE RemoveTmp(p)
      /\ Exit(p, 1)
  BY DEF GiveUp, Refused
<1>2. Becomes(p, "exit", proc[p].k, proc[p].with, 1)
  BY <1>1, ExitBecomes DEF DInv
<1>3. \A q \in Procs \ {p} : proc'[q] = proc[q] /\ (Alone(q) => Keeps(q))
  BY <1>1, <1>2, KeepsWhenRemoved, KeepsWhenSame DEF Becomes, DInv
<1>4. ObjectsOK'
  BY <1>1, <1>2, <1>3, OthersKept DEF Becomes
<1>5. proc[p].k \in 1 .. Len(cmd[p].srcs) + 1
  BY DEF DInv, PlaceOK
<1>6. Tmp(p) \notin dirs' /\ \A q \in Procs \ {p} : Tmp(q) \in dirs' => Tmp(q) \in dirs
  BY <1>1 DEF DInv, DirsOK, RemoveTmp
<1> QED
  BY <1>1, <1>2, <1>4, <1>5, <1>6, MovesOn

\* A traceback leaves everything, and the status tells.
LEMMA TracebackInv ==
  ASSUME DInv, NEW p \in Procs, Traceback(p)
  PROVE  DInv'
<1>1. cmd' = cmd /\ disk' = disk /\ dirs' = dirs /\ Exit(p, Raised)
  BY DEF Traceback
<1>2. Becomes(p, "exit", proc[p].k, proc[p].with, Raised)
  BY <1>1, ExitBecomes DEF DInv, Raised
<1>3. ObjectsOK'
  BY <1>1, <1>2, MovesAlone
<1>4. proc[p].k \in 1 .. Len(cmd[p].srcs) + 1
  BY DEF DInv, PlaceOK
<1>5. Tmp(p) \in dirs' => ~cmd[p].c
  BY <1>1 DEF DInv, DirsOK
<1>6. Raised # 0
  BY DEF Raised
<1> QED
  BY <1>1, <1>2, <1>3, <1>4, <1>5, <1>6, MovesOn

\* The last source is compiled: under -c that is the end, and no directory is there.
LEMMA CompiledInv ==
  ASSUME DInv, NEW p \in Procs, Compiled(p)
  PROVE  DInv'
<1>1. /\ cmd' = cmd /\ disk' = disk /\ dirs' = dirs /\ proc[p].pc = "compile"
      /\ IF cmd[p].c THEN Exit(p, 0) ELSE Step(p, "link")
  BY DEF Compiled
<1>2. proc[p].k = Len(cmd[p].srcs) + 1 /\ proc[p].k \in 1 .. Len(cmd[p].srcs) + 1
  BY OfCmd DEF DInv, PlaceOK, Compiled
<1>3. Tmp(p) \in dirs' => ~cmd[p].c
  BY <1>1 DEF DInv, DirsOK
<1>4. CASE cmd[p].c
  <2>1. Becomes(p, "exit", proc[p].k, proc[p].with, 0)
    BY <1>1, <1>4, ExitBecomes DEF DInv
  <2>2. ObjectsOK'
    BY <1>1, <2>1, MovesAlone
  <2> QED
    BY <1>1, <1>2, <1>3, <1>4, <2>1, <2>2, MovesOn
<1>5. CASE ~cmd[p].c
  <2>1. Becomes(p, "link", proc[p].k, proc[p].with, proc[p].status)
    BY <1>1, <1>5, StepBecomes DEF DInv, Places
  <2>2. ObjectsOK'
    BY <1>1, <2>1, MovesAlone
  <2> QED
    BY <1>1, <1>2, <1>3, <1>5, <2>1, <2>2, MovesOn
<1> QED
  BY <1>4, <1>5

\* A link leaves the objects alone.
LEMMA LinkInv ==
  ASSUME DInv, NEW p \in Procs, Link(p)
  PROVE  DInv'
<1>1. cmd' = cmd /\ disk' = disk /\ dirs' = dirs /\ proc[p].pc = "link"
  BY DEF Link
<1>2. ~cmd[p].c /\ proc[p].k \in 1 .. Len(cmd[p].srcs) + 1
  BY <1>1 DEF DInv, PlaceOK
<1>3. CASE Becomes(p, "clean", proc[p].k, proc[p].with, 1)
  <2>1. ObjectsOK'
    BY <1>1, <1>3, MovesAlone
  <2> QED
    BY <1>1, <1>2, <1>3, <2>1, MovesOn
<1>4. CASE Becomes(p, "clean", proc[p].k, Settings(cmd[p]), proc[p].status)
  <2>1. ObjectsOK'
    BY <1>1, <1>4, MovesAlone
  <2> QED
    BY <1>1, <1>2, <1>4, <2>1, MovesOn
<1> QED
  BY <1>3, <1>4, LinkBecomes DEF DInv

\* A clean-up removes the directory of its own driver only.
LEMMA CleanUpInv ==
  ASSUME DInv, NEW p \in Procs, CleanUp(p)
  PROVE  DInv'
<1>1. cmd' = cmd /\ proc[p].pc = "clean" /\ RemoveTmp(p) /\ Step(p, "exit")
  BY DEF CleanUp
<1>2. Becomes(p, "exit", proc[p].k, proc[p].with, proc[p].status)
  BY <1>1, StepBecomes DEF DInv, Places
<1>3. \A q \in Procs \ {p} : proc'[q] = proc[q] /\ (Alone(q) => Keeps(q))
  BY <1>1, <1>2, KeepsWhenRemoved DEF Becomes, DInv
<1>4. ObjectsOK'
  BY <1>1, <1>2, <1>3, OthersKept DEF Becomes
<1>5. proc[p].k \in 1 .. Len(cmd[p].srcs) + 1
  BY DEF DInv, PlaceOK
<1>6. Tmp(p) \notin dirs' /\ \A q \in Procs \ {p} : Tmp(q) \in dirs' => Tmp(q) \in dirs
  BY <1>1 DEF RemoveTmp
<1>7. proc[p].status = 0 /\ ~cmd[p].c => proc[p].with = Settings(cmd[p])
  BY <1>1 DEF DInv, WithOK
<1> QED
  BY <1>1, <1>2, <1>4, <1>5, <1>6, <1>7, MovesOn

\* Nothing that the invariant speaks of changes in a stuttering step.
LEMMA DStutter == ASSUME DInv, UNCHANGED vars PROVE DInv'
<1>1. cmd' = cmd /\ proc' = proc /\ disk' = disk /\ dirs' = dirs
  BY DEF vars
<1>2. TypeOK' /\ PlaceOK' /\ DirsOK' /\ WithOK'
  BY <1>1 DEF DInv, TypeOK, PlaceOK, DirsOK, WithOK, Settings, Injected, Tmp
<1>3. \A q \in Procs : Progress(q) => Progress(q)'
  BY <1>1, KeepsWhenSame, SameProgress DEF DInv
<1>4. \A q \in Procs : Objects(q)' = Objects(q)
  BY <1>1 DEF Objects, Object
<1>5. \A q \in Procs : Alone(q)' <=> Alone(q)
  BY <1>4 DEF Alone
<1> QED
  BY <1>1, <1>2, <1>3, <1>5 DEF DInv, ObjectsOK

\* Every step of every driver keeps the invariant.
LEMMA DNext == DInv /\ [Next]_vars => DInv'
<1> SUFFICES ASSUME DInv, [Next]_vars PROVE DInv'
  OBVIOUS
<1>1. ASSUME NEW p \in Procs, Driver(p) PROVE DInv'
  BY <1>1, AxccCompileOnlyInv, StartInv, CompileInv, FallBackInv, GiveUpInv, TracebackInv,
     CompiledInv, LinkInv, CleanUpInv DEF Driver
<1> QED
  BY <1>1, DStutter DEF Next, Terminating

\* So it holds always.
LEMMA Invariance == Spec => []DInv
BY DInit, DNext, PTL DEF Spec

-----------------------------------------------------------------------------
(* What follows.                                                           *)

\* A set of numbers has a least one: its initial segments are finite sets, and
\* strict inclusion of those is well-founded.
LEMMA Least ==
  ASSUME NEW T, T \subseteq Nat, T # {}
  PROVE  \E x \in T : \A y \in T : x <= y
<1> DEFINE Below(n) == 0 .. n - 1
           Segments == {Below(n) : n \in T}
           R == StrictSubsetOrdering(Nat)
<1>1. Segments \subseteq FiniteSubsetsOf(Nat) /\ Segments # {}
  <2>1. \A n \in T : IsFiniteSet(Below(n)) /\ Below(n) \subseteq Nat
    BY FS_Interval
  <2> QED
    BY <2>1 DEF FiniteSubsetsOf
<1>2. \E x \in Segments : \A y \in Segments : ~ (<<y, x>> \in R)
  <2>1. IsWellFoundedOn(R, FiniteSubsetsOf(Nat))
    BY FS_StrictSubsetOrderingWellFounded
  <2> HIDE DEF Segments, R
  <2> QED
    BY <1>1, <2>1, WFMin
<1>3. PICK x \in T : \A y \in T : ~ (<<Below(y), Below(x)>> \in R)
  BY <1>2
<1>4. ASSUME NEW y \in T, ~(x <= y) PROVE FALSE
  <2>1. Below(y) \subseteq Below(x) /\ y \in Below(x) /\ y \notin Below(y)
    BY <1>4
  <2>2. <<Below(y), Below(x)>> \in R
    BY <2>1 DEF StrictSubsetOrdering
  <2> QED
    BY <1>3, <2>2
<1> QED
  BY <1>4

\* So among the sources of a command the last of a name is there.
LEMMA LastOfName ==
  ASSUME TypeOK, NEW p \in Procs, NEW k \in 1 .. Len(cmd[p].srcs)
  PROVE  LastBefore(p, k, Namesake(p, k), Len(cmd[p].srcs) + 1)
<1>0. PICK n \in Nat : n = Len(cmd[p].srcs)
  BY OfCmd
<1> DEFINE T == {x \in 0 .. n : Object(p, n - x) = Object(p, k) /\ n - x \in 1 .. n}
<1>1. T \subseteq Nat /\ T # {}
  <2>1. n - (n - k) = k /\ n - k \in 0 .. n
    BY <1>0
  <2>2. n - k \in T
    BY <1>0, <2>1
  <2>3. T \subseteq 0 .. n
    OBVIOUS
  <2> HIDE DEF T
  <2> QED
    BY <2>2, <2>3
<1>2. PICK x \in T : \A y \in T : x <= y
  <2> HIDE DEF T
  <2> QED
    BY <1>1, Least
<1>3. n - x \in 1 .. n /\ Object(p, n - x) = Object(p, k)
  OBVIOUS
<1>4. ASSUME NEW i \in (n - x) + 1 .. n PROVE Object(p, i) # Object(p, k)
  <2>1. n - (n - i) = i /\ n - i \in 0 .. n /\ i \in 1 .. n
    BY <1>3
  <2>2. ~(x <= n - i)
    BY <1>3
  <2> QED
    BY <1>2, <2>1, <2>2
<1>5. \E j \in 1 .. n : /\ Object(p, j) = Object(p, k)
                        /\ \A i \in j + 1 .. n : Object(p, i) # Object(p, k)
  BY <1>3, <1>4
<1> HIDE DEF T
<1>6. /\ Namesake(p, k) \in 1 .. n /\ Object(p, Namesake(p, k)) = Object(p, k)
      /\ \A i \in Namesake(p, k) + 1 .. n : Object(p, i) # Object(p, k)
  BY <1>0, <1>5 DEF Namesake
<1>7. n = (Len(cmd[p].srcs) + 1) - 1
  BY <1>0
<1> QED
  BY <1>6, <1>7 DEF LastBefore

\* Temporary directories keep the objects of a link apart from all others.
LEMMA LinksAlone ==
  ASSUME TypeOK, NEW p \in Procs, ~cmd[p].c
  PROVE  Alone(p)
<1> SUFFICES ASSUME NEW q \in Procs \ {p}, NEW i, NEW j, Object(p, i) = Object(q, j)
             PROVE  FALSE
  BY DEF Alone, Objects
<1>1. Object(p, i)[1] = p
  BY ObjectIn DEF Tmp
<1>2. Object(q, j)[1] = "." \/ Object(q, j)[1] = q
  BY ObjectIn DEF Tmp
<1> QED
  BY <1>1, <1>2, DriversAssumption

\* Where all sources are compiled, every one of them has its object.
LEMMA AllWhole ==
  ASSUME DInv, NEW p \in Procs, Alone(p), proc[p].pc \in {"compile", "link"},
         proc[p].k = Len(cmd[p].srcs) + 1, NEW k \in 1 .. Len(cmd[p].srcs)
  PROVE  /\ Object(p, k) \in DOMAIN disk
         /\ disk[Object(p, k)] = cmd[p].srcs[Namesake(p, k)].name
<1>1. PICK n \in Nat : n = Len(cmd[p].srcs)
  BY OfCmd DEF DInv
<1>2. k \in Made(p)
  BY <1>1 DEF Made
<1>3. Whole(p, k, n + 1)
  BY <1>1, <1>2 DEF DInv, ObjectsOK, Progress
<1>4. LastBefore(p, k, Namesake(p, k), n + 1)
  BY <1>1, LastOfName DEF DInv
<1>5. Namesake(p, k) \in 1 .. (n + 1) - 1
  BY <1>4 DEF LastBefore
<1> QED
  BY <1>3, <1>4, <1>5 DEF Whole

\* A link gets for each source the whole object of the last source of that name,
\* whatever tcc left behind and whatever other drivers do (axtcc:178-187).
THEOREM LinksItsSourcesHolds == Spec => []LinksItsSources
<1>1. DInv => LinksItsSources
  <2> SUFFICES ASSUME DInv, NEW p \in Procs, proc[p].pc = "link",
                      NEW k \in 1 .. Len(cmd[p].srcs)
               PROVE  /\ Object(p, k) \in DOMAIN disk
                      /\ disk[Object(p, k)] = cmd[p].srcs[Namesake(p, k)].name
    BY DEF LinksItsSources
  <2>1. proc[p].k = Len(cmd[p].srcs) + 1 /\ ~cmd[p].c
    BY DEF DInv, PlaceOK
  <2> QED
    BY <2>1, LinksAlone, AllWhole DEF DInv
<1> QED
  BY <1>1, Invariance, PTL

\* Drivers that end in an orderly way leave no temporary directory, whether they
\* succeed, a compiler refuses a source or the link fails (axtcc:230).
THEOREM NoLitterHolds == Spec => []NoLitter
<1>1. DInv => NoLitter
  BY DEF DInv, DirsOK, NoLitter, Exited
<1> QED
  BY <1>1, Invariance, PTL

\* Every program that a driver or axld links is position independent and has
\* one layout, hash table, page size and entry, its own if a flag says so and the
\* default if none does, whatever the other flags are (axld:64-114).
THEOREM LoadableHolds == Spec => []Loadable
<1>1. DInv => Loadable
  <2> SUFFICES ASSUME DInv, NEW p \in Procs, Succeeded(p), ~cmd[p].c, cmd[p].out # "libc.sl",
                      "-shared" \notin cmd[p].flags
               PROVE  /\ "-pie" \in proc[p].with
                      /\ \A choice \in Choices :
                           choice[1] \in proc[p].with <=> choice[2] \notin proc[p].with
                      /\ \A choice \in Choices :
                           choice[1] \in proc[p].with => choice[1] \in cmd[p].flags
    BY DEF Loadable
  <2> DEFINE own == cmd[p].flags
             passed == IF cmd[p].driver = "axld" THEN own ELSE own \ {"-I", "-D"}
             added == Injected(passed, cmd[p].out)
             libs == {f \in {"crt0.o", "libc.sl"} :
                        \/ cmd[p].driver = "axcc"
                        \/ cmd[p].driver = "axtcc" /\ "-nostdlib" \notin own}
  <2>1. proc[p].with = passed \cup added \cup libs
    BY DEF DInv, WithOK, Succeeded, Exited, Settings
  <2>2. own \subseteq Flags
    BY DriversAssumption DEF DInv, TypeOK
  <2>3. /\ passed \subseteq own /\ "-shared" \notin passed
        /\ \A f \in {"-T", "-pie", "--hash-style", "-z", "-e"} : f \in own <=> f \in passed
    OBVIOUS
  <2> HIDE DEF passed
  <2>4. /\ "link.ld" \in added <=> "-T" \notin passed
        /\ "sysv" \in added <=> "--hash-style" \notin passed
        /\ "max-page-size" \in added <=> "-z" \notin passed
        /\ "_start" \in added <=> "-e" \notin passed
        /\ "-pie" \in added <=> "-pie" \notin passed
        /\ added \cap {"-T", "--hash-style", "-z", "-e"} = {}
    BY <2>3 DEF Injected
  <2>5. libs \subseteq {"crt0.o", "libc.sl"}
    OBVIOUS
  <2> HIDE DEF own, added, libs
  <2>6. "-pie" \in proc[p].with
    BY <2>1, <2>4
  <2>7. /\ "-T" \in proc[p].with <=> "-T" \in passed
        /\ "--hash-style" \in proc[p].with <=> "--hash-style" \in passed
        /\ "-z" \in proc[p].with <=> "-z" \in passed
        /\ "-e" \in proc[p].with <=> "-e" \in passed
    BY <2>1, <2>4, <2>5
  <2>8. /\ "link.ld" \in proc[p].with <=> "-T" \notin passed
        /\ "sysv" \in proc[p].with <=> "--hash-style" \notin passed
        /\ "max-page-size" \in proc[p].with <=> "-z" \notin passed
        /\ "_start" \in proc[p].with <=> "-e" \notin passed
    BY <2>1, <2>2, <2>3, <2>4, <2>5 DEF Flags
  <2> QED
    BY <2>3, <2>6, <2>7, <2>8 DEF own, Choices
<1> QED
  BY <1>1, Invariance, PTL

\* The end of a compilation without a link.
LEMMA Ends ==
  ASSUME DInv, [Next]_vars, NEW p \in Procs, cmd[p].c, ~Exited(p), Succeeded(p)', Alone(p),
         NEW k \in 1 .. Len(cmd[p].srcs)
  PROVE  /\ Object(p, k) \in DOMAIN disk'
         /\ disk'[Object(p, k)] = cmd[p].srcs[Namesake(p, k)].name
<1>0. TypeOK /\ proc[p].pc # "exit" /\ proc'[p].pc = "exit" /\ proc'[p].status = 0
  BY DEF DInv, Exited, Succeeded
<1>1. ASSUME NEW q \in Procs, Driver(q) PROVE q = p
  <2>1. ASSUME NEW x, NEW n, NEW w, NEW s, Becomes(q, x, n, w, s), q # p PROVE FALSE
    BY <1>0, <2>1 DEF Becomes
  <2>2. \E x, n, w, s : Becomes(q, x, n, w, s)
    <3>1. CASE \E x \in Places : Step(q, x)
      BY <1>0, <3>1, StepBecomes
    <3>2. CASE \E s \in Int : Exit(q, s)
      BY <1>0, <3>2, ExitBecomes
    <3>3. CASE Compile(q)
      BY <1>0, <3>3, CompileBecomes DEF Compile
    <3>4. CASE Link(q)
      BY <1>0, <3>4, LinkBecomes
    <3> QED
      BY <1>1, <3>1, <3>2, <3>3, <3>4 DEF Driver, AxccCompileOnly, Start, FallBack, GiveUp,
         Traceback, Compiled, CleanUp, Raised, Places
  <2> QED
    BY <2>1, <2>2
<1>2. Driver(p)
  BY <1>0, <1>1 DEF Next, Terminating, vars
<1>3. CASE AxccCompileOnly(p)
  <2>1. Exit(p, 1) \/ Exit(p, Raised) => FALSE
    <3>1. \A s \in Int : Exit(p, s) => s = 0
      BY <1>0, ExitBecomes DEF Becomes
    <3> QED
      BY <3>1 DEF Raised
  <2>2. Len(cmd[p].srcs) = 1 /\ Put(Object(p, 1), cmd[p].srcs[1].name)
    BY <1>3, <2>1 DEF AxccCompileOnly
  <2>3. k = 1 /\ Namesake(p, k) = 1
    <3>1. k = 1
      BY <2>2
    <3>2. LastBefore(p, k, Namesake(p, k), Len(cmd[p].srcs) + 1)
      BY <1>0, LastOfName
    <3>3. Namesake(p, k) \in 1 .. (1 + 1) - 1
      BY <2>2, <3>2 DEF LastBefore
    <3> QED
      BY <3>1, <3>3
  <2> DEFINE f == Object(p, 1)
             v == cmd[p].srcs[1].name
  <2>4. disk' = [e \in DOMAIN disk \cup {f} |-> IF e = f THEN v ELSE disk[e]]
    BY <2>2 DEF Put
  <2> HIDE DEF f, v
  <2>5. f \in DOMAIN disk' /\ disk'[f] = v
    BY <2>4
  <2> QED
    BY <2>3, <2>5 DEF f, v
<1>4. CASE Compiled(p)
  <2>1. proc[p].pc = "compile" /\ disk' = disk /\ proc[p].k = Len(cmd[p].srcs) + 1
    BY <1>4, OfCmd DEF Compiled, DInv, PlaceOK
  <2> QED
    BY <2>1, AllWhole
<1>5. CASE GiveUp(p) \/ Traceback(p)
  <2>1. \A s \in Int : Exit(p, s) => s = 0
    BY <1>0, ExitBecomes DEF Becomes
  <2> QED
    BY <1>5, <2>1 DEF GiveUp, Traceback, Raised
<1>6. CASE Start(p) \/ FallBack(p)
  <2>1. \A x \in Places : Step(p, x) => x = "exit"
    BY <1>0, StepBecomes DEF Becomes
  <2> QED
    BY <1>6, <2>1 DEF Start, FallBack, Places
<1>7. CASE Compile(p)
  BY <1>0, <1>7, CompileBecomes DEF Compile, Becomes
<1>8. CASE Link(p) \/ CleanUp(p)
  BY <1>8 DEF Link, CleanUp, DInv, PlaceOK
<1> QED
  BY <1>2, <1>3, <1>4, <1>5, <1>6, <1>7, <1>8 DEF Driver

\* A driver run with -c that reports success leaves an object for every source,
\* unless another one makes objects of the same names (axtcc:145-171, axcc:75-116).
THEOREM LeavesObjectsHolds == Spec => LeavesObjects
<1>1. DInv /\ [Next]_vars
        => [\A p \in Procs :
              cmd[p].c /\ ~Exited(p) /\ Succeeded(p)'
                /\ (\A q \in Procs \ {p} : Objects(p) \cap Objects(q) = {}) =>
                \A k \in 1 .. Len(cmd[p].srcs) :
                  /\ Object(p, k) \in DOMAIN disk'
                  /\ disk'[Object(p, k)] = cmd[p].srcs[Namesake(p, k)].name]_vars
  BY Ends DEF Alone
<1> QED
  BY <1>1, Invariance, PTL DEF Spec, LeavesObjects
=============================================================================
