# A TLA+ development of the AxiomeOS toolchain

The repository is the SDK of AxiomeOS: a small libc (`sdk/src`), two compiler
drivers and a linker wrapper (`bin/axcc`, `bin/axtcc`, `bin/axld`), and the
scripts that bring the SDK up to date and build it (`tools/mk-sdk.sh`,
`Makefile`). This directory holds models of those parts whose state or whose
order of steps can go wrong, TLC configurations that check them on small
instances, and proofs, which the TLA+ proof system checks, of every safety property
of the passing runs for every value of the constants.

`PROJECT.json` lists components, runs, findings, hazards and theorems, and says
for every definition which lines of the source it stands for.

## The system

| Component | State | Operations | Talks to |
|---|---|---|---|
| allocator, `stdlib.c` | `heap`, `heap_init`, `free_list`, headers in the arena | malloc, free, calloc, realloc | fopen, fclose, programs; sets errno |
| console output, `stdio.c` | `outbuf`, `outlen` | printf, vprintf, puts; putchar goes past the buffer | `write`; signal handlers run the same code |
| format interpreters, `stdio.c` | locals only | vprintf, vsnprintf_internal (snprintf, sprintf), vfprintf | console output, fwrite |
| FILE streams, `stdio.c` | `FILE`: fd, eof, err (the buffer fields are never used) | fopen, fclose, fread, fgetc, fgets, fwrite, fputs, clearerr | allocator, `open`/`close`/`read`/`write` |
| system calls, `syscall.c` | `errno` | `syscall()` and some sixty wrappers | kernel |
| errors, `errno.c` | `errno` | perror | `write`; whoever sets errno |
| strings, `string.c` | `strtok_saveptr` | memmove, copies, strtok, scans | allocator (strdup) |
| numbers, `stdio.c`, `stdlib.c` | none | digits of printf, atoi, atol | - |
| time, `time.c` | `_tm_buf`, asctime's buffer | localtime, gmtime, asctime, ctime, sleeps | kernel |
| signals, `signal.c` | none | sigaction, kill, trampoline | kernel |
| start and end, `crt0.c`, `stdlib.c` | `environ` | `_start`, exit, abort, getenv | kernel |
| tool helpers, `util.h` | none | join paths, base names, mode column | - |
| drivers, `bin/` | temporary directory, objects, output | compile, fall back, link, clean up | compilers, `axld`, the file system; each other under `make -j` |
| SDK build | files of `sdk/`, objects, `libc.sl`, `VERSION` | mk-sdk.sh, make libs, clean, distclean | an axiomeOS checkout, compilers |

What is hard about it:

* the allocator keeps its list in the arena it manages, and every operation is
  safe only if all earlier ones left the list whole;
* a signal handler that prints runs the code of `emit` and `flush` in the middle
  of `emit` and `flush`, and one whose call fails sets errno in the middle of
  anything;
* every kernel call may fail or do less than it was asked for, and the library
  has to leave descriptors, FILEs, errno and the flags in step;
* the same format language is interpreted by two pieces of code;
* drivers run at the same time, compilers fail, and someone presses Control-C;
* a refresh or a build stops half-way and is started again.

What makes each component correct:

* allocator: the blocks tile the arena; blocks in use are what the program owns;
  owned blocks are large enough, aligned and untouched; a refusal means there is
  no room; every call returns;
* output: stores stay inside `outbuf`; bytes come out once and in order;
  nothing is held back between calls;
* formats: nothing is stored past `size`; the result is the text C defines, cut
  where it has to be;
* streams: descriptors and FILEs are paired; no byte read is lost; a failure can
  be told from its errno and flags;
* strings: tokens are the fields of the string; memmove is exact; scans and copies
  do what C says of them, at every boundary;
* system calls: an answer reaches the program whole, an error as -1 and errno;
* time: the calendar is right, its text fits and can be read back;
* numbers: what is printed can be read back;
* start: main, libc and getenv agree on where the environment is;
* drivers: a driver links the objects of its own sources with what the kernel's
  loader needs, and leaves nothing behind;
* SDK: `VERSION` is honest; a build that succeeds is current.

## Modules

### Heap, HeapContract, HeapProofs

`Heap` is `stdlib.c:7-154`. A pointer is its offset in `heap[]`. `hdr` maps the
address of every header on the list to its size, flag and link; `pc`, `call`,
`curr` and `got` are the activation record of the call that is running. The calls
of the program are `Malloc`, `Free`, `Calloc`, `Realloc` and `ClearErrno` (`errno
= 0`); `TakeBlock`, `WalkOn` and `OutOfMemory` are the walk of malloc one
iteration at a time, `MergeStep` and `MergeEnd` the loop of `merge_free_blocks`,
`CopyAndFree` what realloc does behind its malloc. `live`, what the program owns,
is the only variable without a counterpart. `ALIGN16` wraps as `size_t` does. The
contents of blocks are not modelled.

`HeapContract` says what the calls promise without a list: a program holds regions
of the arena; a request is granted at a vacant place and wastes less than a block,
or is refused, with errno set, when there is no gap large enough. Refining it means
that splitting and merging never cost the program a request.

### OutBuf, OutBufProofs

`stdio.c:8-41`, with the flush at the end of `puts` and `vprintf`. The byte
with number n is the n-th the program or a handler prints. `frames` is the stack
of active calls; a handler (`Signal`) is pushed between any two steps of
the call below. One `emit` is a fetch of `outlen`, its increment and the
store in either order, and the test. C lets a compiler keep `outlen` in a
register, so `Seen` offers the value in memory and the one the call last saw;
`libc.sl` as shipped does so in the loop of `puts`. `Write` takes all, some or
none of what it is given: what flush ignores.

### Format, FormatProofs

`stdio.c:43-457`: one scanner, since the two in the code are line for line the
same, and the two sets of conversions, `Emitted` (`emit_*_width`) and `Written`
(`vsnprintf_internal`). `text` is what was produced, `buf` what was stored, `sent`
what vfprintf hands to fwrite. A number arrives in a `Word` whose upper half is `Junk`
if the program passed an int; `ReadSigned` and `ReadUnsigned` take what va_arg takes.
The argument is one number for all conversions of a format, cast to the type each
asks for (`Passed` in the reference). Widths are those that fit an int.
`Meaning` is the reference: a reading of the format by its grammar, with `%%` in it.
`Directives` are what begins at a `%` that is neither part of a `%%` nor in the middle
of another directive (`Begins`), so that a format with `%%` is checked like any other.
Where an interpreter departs from C, `Off` says so and excludes the directive: printf ignores
`-` before a number and prints `%5d` of -7 as `-   7`, and has no width for `%p` and
`%c`; snprintf pads with zeros in front of the sign and pads strings, pointers and
characters with zeros; both read a long under `%h` and treat unknown conversions as
text. An array of size 0 (`stdio.c:129`: `size - 1` wraps) gets the whole text, which
`Room` and `Terminate` model and `Truncated` excepts.

### Streams, StreamsProofs

`stdio.c:517-699` over `syscall.c:5-48`, and perror, `errno.c:8-40`. fopen is three
steps (open, malloc, and close when malloc failed), fgets one step for each
character, perror one for each of its writes. The kernel may fail any call. `owed`
holds the bytes fgets read and did not deliver yet, `last` what the last call
reported. A close that fails may or may not release the descriptor; `stuck` has those
it did not. `Elsewhere` is all other code that sets errno, at any step: a handler's
failing call in the middle, a malloc or `errno = 0` between calls; `quiet` says it has
not happened since the calls of the module last set errno.

In `last`, `cause` is the error of what went wrong first, a read or a write included,
and `undo` that of fopen's close after malloc failed. `FailureNamed` holds errno against
`Named`, which is the cause, or close's error if that failed too: syscall() then
overwrites malloc's ENOMEM (`stdio.c:604`, `syscall.c:24`) and the program never learns
of it. `PerrorTells` has perror print the same. `EofExplained` wants ferror after an
error and feof at the end, of the stream that was read, a torn item excepted.

### FilesHeap, HeapProofs

The composition of `Heap` with fopen and fclose: every step of malloc's walk and of
free's merge pass, started by fopen and fclose or by the program's own malloc and
free. A FILE is the address malloc returned; `at` is the place in fopen or fclose, `pc`
the one in the allocator, `mine` the program's own blocks. It refines `Streams`: `S`
maps the steps between open and the end of malloc to `"alloc"`, and what free does
behind close to nothing.

### Text, Strings, StringsProofs

`Text` is the part of `string.c` that keeps no state, as operators on a memory (a
sequence of bytes; a pointer is an index): `strlen`, `strspn`, `strcmp`, `strncmp`,
`memchr`, `strstr`, `strncpy`, `strncat`, `strdup` and the others. A loop is the least
offset at which its condition fails. The runs take characters for `c` from the range
of an unsigned char, and strdup's malloc succeeds: its failure is one early return. `Strings` adds what has steps: memmove is a byte a
step, strtok a call a step with any set of delimiters, on the whole string, on a token
it handed out before, or on NULL. The properties hold the operators of `Text` against
plain sequences.

### Calendar, Numbers, Kernel, Startup, Tools, Library, LibraryProofs

Five modules of operators and one state machine that uses them:

* `Calendar`, `time.c:22-138` and usleep. `CountYears` and `CountMonths` are the two
  loops, `Quot` and `Rest` C's division of negative numbers. The reference
  (`LeapsUpTo`, `DaysBefore`, `DayNumber`) goes the other way, from a date to the
  number of its day, in closed form. asctime's text is read back field by field, its
  weekday and month by what the names stand for (`WeekdayOf`, `MonthOf` in `Library`);
  a name stands for each of its three letters.
* `Numbers`, `emit_uint_width` and `emit_int_width` (`stdio.c:43-91`), the copy of them
  in `vsnprintf_internal` (`stdio.c:192-212`), atoi and atol (`stdlib.c:156-200`), on
  ints and longs of a width given by constants.
* `Kernel`, the decoding of answers in `syscall()` and the type each wrapper of
  `syscall.c`, `time.c` and `signal.c` casts to. The table leaves out the wrappers that
  return nothing, and `getcap`, whose answers are not described anywhere. nanosleep
  without a request sets EFAULT and makes no call (`time.c:160-164`); the model is of
  what follows.
* `Startup`, `_start` up to its call of main (`crt0.c:6-19`), and getenv
  (`stdlib.c:216-231`), on a stack of words. That `__axiome_set_environ` leaves r8, r9
  and rdx alone, which `_start` counts on and no calling convention promises, was seen
  in the `libc.sl` in the repository.
* `Tools`, `ax_mode_str`, `ax_join_path` and `ax_basename` of `util.h:38-74`.
* `Library`, a program that uses one of these: it calls localtime, asctime or ctime
  twice on their static buffers, prints a number, makes a system call, is started and
  looks something up, joins a path. `last` is the call and its result.
  `LibraryAssumption` says what arguments are: a time is what C's division by the
  seconds of a day makes of it and falls in a year up to `LastYear`, where the loop
  over the years is cut off; strings end at their terminator and names hold no `=`.

### Drivers, DriversProofs

`bin/axcc:75-179`, `bin/axtcc:97-231`, `bin/axld:53-122`. A process has a command, a
place in it, and the exit status; `disk` maps files to what they were made from.
`FallBack` is gcc after tcc, `Traceback` an exception (compiler missing, Control-C)
that ends the script. Compilers and linker are external: a source names the
compilers that accept it. Flags matter as far as axld looks at them. Objects are
named after the base names of their sources, so of `main.c` and `sub/main.c` in one
command the last one's object takes the place of the other: `LinksItsSources` and
`LeavesObjects` say that and no more. `Loadable` is about programs: a link whose
output is `libc.sl` is no program, and what axld leaves out of one is a finding. It
says that a flag takes away the default it stands for and no other; any `-z` stands for
the page size there, as it does in axld. The scripts' spellings (`"libc" in out`, prefixes
of `-z` and `-T`, `hash-style` anywhere in a flag) are one name or flag each.
`DriversAssumption` says what a command line is, and that no process is called `"."`,
which stands for the working directory.

### Sdk, SdkProofs

`tools/mk-sdk.sh`, its two linker scripts one after the other, and the rules for `crt0.o`, `libc_%.o`, `libc.sl`, `clean` and
`distclean` of the `Makefile`. A file's content is a version number; `older` is what
make concludes from modification times. Compiling is a read and a write with
anything in between. Files are edited by hand at any time, in a build too.

## Runs

| Run | Shows | Bounds and why they are enough |
|---|---|---|
| `heap` | all of the allocator's properties, and that it implements `HeapContract` | an arena of 176 bytes holds up to four blocks, so there are free and used blocks before, between and behind others; requests of 1 and 40 bytes split, fit exactly, fit with a rest too small to split, and fail; counts 2 and 2000 reach calloc's product and its overflow |
| `heap_wrap` | (finding) a request of `(size_t)-1` is granted | the 16-bit `size_t` wraps as a 64-bit one |
| `outbuf` | `InBounds`, `InOrder`, `LostBound`, `WholeCalls`, `HeldBackNothing` | a buffer of 4: texts below and above the flush in emit; two calls, two signals, one short write, one handler at a time |
| `format` | `Truncated`, `AsMeant` | every format of up to four characters behind `%` over an alphabet with each class of the grammar, and all six conversions behind up to three flags, digits and modifiers; 70 and -5 in an int of 64 and a long of 1024 values, with either extreme of an upper half; a string and NULL; sizes 0, 1, 3 and unlimited, and no array at all; `%%` alone, repeated and in front of directives |
| `fprintf_long` | (finding) vfprintf sends stray bytes | texts around an array of 4 |
| `streams` | `Paired`, `ReadOnce`, `EofExplained`, `FailureNamed`, `PerrorTells` | two FILEs and stdin on three descriptors, items of 1 and 2 bytes, arrays of 0, 1 and 4, perror with and without a prefix; FILEs are symmetric |
| `filesheap` | `BlocksAccounted`, `FilesReturn`, and that it implements `Streams` | an arena of 192 bytes, for two FILEs (of 48 bytes) and a small block; requests of 1 and 40 bytes of the program leave room for two, one or no FILE, in every order of giving them back; two descriptors |
| `strings` | `TokensAreFields`, `MoveIsExact`, `ScansAgree`, `StoresAgree` | all memories of six bytes over a comma, a semicolon, 228 (negative as a char) and the terminator; all pairs of addresses, all lengths, all overlaps; two nested sets of delimiters |
| `library` | `FieldsTellTime`, `TextTellsDate`, `NumbersReadBack`, `CallsArrive`, `StartArrives`, `ToolsTell` | every day of 1968 to 1973, 1999 to 2001 and 2099 to 2101, the days about 1 March and New Year of every other year up to 2101, each at four times of day, and a second call after each; a program's own structs with years below 0, of one to five digits, months and days at their limits; every long of 10 bits, through ints of 6; every answer of the kernel to every wrapper at these widths; up to two arguments and three environment strings out of seven; paths of up to three characters joined in arrays of 1 to 8; every set of mode bits |
| `drivers` | `LinksItsSources`, `LeavesObjects`, `NoLitter`, `Loadable` | every pair of commands with sources that both, one or no compiler accepts, two of them of one base name, any compiler missing; axld with each flag it looks at and with three of them |
| `axld_libc` | (finding) README's `-shared` is not added | one axld |
| `sdk` | `StampHonest`, `Rebuilt`, `RefreshReaches` | two refreshes, two changes of files, a library source, crt0, a header and both scripts |

Two runs assume fairness. `heap` has weak fairness of the steps inside a call
(`WF_vars(Library)`), `filesheap` of the same steps and those of fopen and fclose
(`WF_allVars(Running)`). Nothing in `stdlib.c` waits, and fopen and fclose wait for the
kernel's answer to open and close alone, so a thread that runs at all runs through; the
calls of the program are not fair. The other runs check safety and, by TLC's deadlock
check, that no state is a dead end (`Terminating` in `OutBuf` and `Drivers`, `"done"`
and `"over"` in `Format` and `Library` are the ends meant).

`Heap` checks its type invariant in a run; the other proof modules have theirs as
the first conjunct of an inductive invariant. In the runs, what a type invariant would
say is part of a property where it can go wrong: the room left for a terminator in
`ReadOnce`, strtok's pointer in `TokensAreFields`, the objects of libc.sl in `Rebuilt`.

Each property has a faulty variant of a definition (`Bug...`, standing before the
definition it would replace) that breaks it; `PROJECT.json` pairs them.

## What the runs found

* `malloc` grants the largest 15 sizes with an empty block: `ALIGN16` wraps, and
  calloc's overflow check (`stdlib.c:115`) is in front of it.
* `vfprintf` writes past its 1024 bytes for longer texts (`stdio.c:455`).
* `axld` does not add `-shared` for a libc output as README.md:94 has it; it adds
  `-pie` and `-e _start`.

A change of a header by hand does not rebuild anything (`Makefile:32-42` names no
header); `RefreshReaches` shows that headers a refresh brings do take effect.

## Proofs

Each theorem is about every value of the constants its module's ASSUME admits, and
every ASSUME is evaluated by TLC in a run of its module. The bounds that make a run
finite (`MaxCalls`, `MaxSignals`, `MaxVersion`, ...) are such constants, so the theorems
hold whatever they are. A proof module gives the inductive invariant, the lemmas about
the module's operators, a lemma for each action or group of actions, `NextInv` that
joins them, and the theorems. What follows says for each why the properties are not
inductive by themselves.

**Heap** (`HeapProofs`; assumptions `HeapAssumption`, and `NoWrap`: no request within 15
of `SizeMax`, the gap of `heap_wrap`). `TypeCorrect`, `TilingHolds`, `OwnershipHolds`,
`CapacityHolds`, `CoalescedHolds`, `DrainedHolds`, `AlignedHolds`, and the action
property `KeptBlocksHold`. That a merge is harmless depends on the list being a
tiling, that the end of a merge pass leaves no free neighbours on every earlier step
of the pass, and that a block in use has an owner on what the running call holds:

* `ListOK`: links lead to headers, blocks tile the arena, sizes are multiples of 8;
* `OwnOK`: an owned pointer has a block in use of its size, and a block in use has
  an owner or is the one realloc is about to return;
* `CallOK`: what holds at each `pc`;
* `MergedOK`: behind the loop variable of the merge pass no free neighbours are left.

`errno` has an invariant of its own, because in `FilesHeap` others set it too.
`DrainedIsFresh` (an arena given back is the arena as it began) and `Aligned` are
stated by theorems alone.

`ImplementsContractHolds`: every step of the list is a step of `HeapContract` or none.
The invariant needs `WalkOK`, that no block the walk has passed fits; with it and with
coalesced blocks being maximal gaps, a walk that reaches the end refuses rightly.

**FilesHeap** (the second part of `HeapProofs`; also under `NoWrap`).
`BlocksAccountedHolds`: no FILE is leaked or freed twice. `FInv` is the allocator's
`IInv` with `PlaceOK` (at which place of fopen and fclose the allocator is at which
`pc`) and `OwnersOK` (every block is a FILE's, the program's, or that of the FILE fclose
has taken). `ImplementsStreamsHolds`: the steps of the arena are silent, the others
are those of `Streams`, so what is proved of `Streams` holds on the real allocator.

**Streams** (`StreamsProofs`). `PairedHolds`, `ReadOnceHolds`, `EofExplainedHolds`,
`FailureNamedHolds`, `PerrorTellsHolds`, for any FILEs, descriptors, item sizes and
line lengths. Beyond the properties the invariant says whose descriptor is open in the
middle of fopen (`FdsOK`), that in fgets the stream owes what the array holds
(`OwedOK`), that errno is malloc's until fopen's close of the descriptor fails (`ErrnoOK`),
and that perror's text was looked up while errno was the call's (`ToldOK`).

**OutBuf** (`OutBufProofs`). `HeldBackNothingHolds`, `InOrderHolds`, `WholeCallsHolds` and
`LostBoundHolds` hold for a buffer of any size, texts of any length, any number of
signals and short writes, handlers nested to any depth, either order of the two
steps of emit and any stale `outlen`. `InBoundsHolds` needs `MaxNest <= 1`: with handlers
interrupting handlers the byte of slack in emit is not enough. The invariant has, for
the call on top, what it can know of `outlen` (`KnownOK`), which bytes it put where
(`WholeOK`), that what is out comes before what is in the buffer (`OrderOK`), and for the
call below a handler how far from the end it stays (`BoundsOK`). `LostBound` needs in
addition that a signal loses the byte which the call it hits has under way, and no
other (`LostOK`).

**Format** (`FormatProofs`). `TruncatedHolds` for any formats and arguments, any size but 0, and
integers of any width: what is stored is a prefix of the text at every step (`BufOK`).
`SendsHolds`: fprintf sends the text whole if it is shorter than its array;
`fprintf_long` shows what becomes of the others.

`AsMeantHolds`: whatever the format, `%%` included but for the directives of `Off`, the
text is what the format means. The invariant, `ReadingOK`, is that the text so far and `Rest`, what
the reference makes of the format from some index on, are the whole meaning; inside
a directive that index stays at its `%`, and `Within` says what the scanner has of
flags, width and modifiers where it is. At the conversion the scanner therefore has
what the reference parses (`ReadWhole`), where the format ends early the reference
has no conversion either (`CutShort`), and `Renders` compares the two sets of
conversions with the one rendering case by case, which is where `Off` is needed. That
the `%` the scanner stands at is one of `Begins` (`ReachedNext`) makes its directive one
of `Directives`.

Digits of a number, widths and meanings are recursive functions. That such a function
exists, and that there is only one, is proved once for functions on the naturals
(`Recursion`, `RecursionOnly`, by least counterexample); `SpelledIs`, `ValueIs` and
`MeantExists` apply it.

**Strings** (`StringsProofs`), for a memory of any size over any characters.
`MoveIsExactHolds` (the invariant says which bytes the loop has moved and that the others
are still those to come) and `TokensAreFieldsHolds` (the tokens so far and what strtok
will find in the rest are the fields of the whole). `ScansAgreeHolds` and
`StoresAgreeHolds` need of the state only that memory holds bytes and ends with a
terminator; they are about the operators of `Text`. Every loop there is the least
offset of a condition, and `Least` proves that there is one from the well-foundedness
of inclusion among finite sets. Comparisons go by where two sequences part
(`LessIs`, `OrdersIs`), searches by what makes a place the first or last (`Places`), and the
recursive function of memcpy is shown to exist by its closed form (`MemcpyIs`).

**Sdk** (`SdkProofs`). `StampHonestHolds`, and `RebuiltHolds` and `RefreshReachesHolds` of
the steps with which make succeeds. `RefreshOK` says that what the refresh under way has
copied made its targets old, `ObjectsOK` and `LibcOK` that a target which is not old is
what would be made now, but for the files someone changed during a build.

**Drivers** (`DriversProofs`). `LinksItsSourcesHolds`, `NoLitterHolds`, `LoadableHolds`, and
the action property `LeavesObjectsHolds`, for any processes and commands. `Progress` says that
the sources compiled so far have their objects, those of one base name the last
one's, but for the object tcc may just have broken and gcc has yet to make; it holds
of drivers whose objects no other driver makes (`Alone`), as the properties do.

**Library** (`LibraryProofs`). `FieldsTellTimeHolds`, `TextTellsDateHolds`,
`NumbersReadBackHolds`, `CallsArriveHolds`, `StartArrivesHolds` and `ToolsTellHolds`, for
any times, numbers, widths of int and long, vectors, paths and modes. The invariants are
what the state machine has to say: the static buffers hold what was made of the time and
the struct asked for last, whoever wrote them before (`TimeInv`, `TextInv`), and the last
call had arguments it may have and came to what its function makes of them (`StartInv`,
`LastInv`). The work is in the functions:

* the calendar: a loop that ends computes something (`LoopExists`), and what holds where
  it ends and goes back over a round holds of it (`LoopKeeps`); so the days taken off year
  by year and month by month are those of the closed form (`CountYearsIs`,
  `CountMonthsIs`), which a leap year and a century change by one (`YearIs`);
* numbers: the digits of a number spell it (`DigitsSpell`), characters that spell a number
  are read as that number in the width of the type, behind blanks and a sign and in
  front of anything else (`AtoIs`), because what overflows on the way does not matter
  (`SignedStep`); both ways in which the code negates the least long come to its
  magnitude (`MagnitudeIs`);
* system calls: the type of each wrapper holds what its call answers (`ReturnTypesFit`),
  and no such answer converts to its -1 (`AnswerConverts`);
* start: the stack lays the two vectors end to end, each up to its NULL (`StackHolds`), and
  the words of the environment that match are its entries (`MatchesIs`, `GetenvIs`);
* paths: strncat into a clipped path clips the whole (`ClipConcat`), and the last component
  begins behind the last slash (`BasenameOfPath`).

That functions defined by recursion exist, and that there is only one, is proved as for
`Format`.

Only model-checked:

* `Returns` and `FilesReturn`: liveness is out of the prover's reach;
* the runs that show a violation.

The provers cannot instantiate the library's induction theorems, which take an
operator. Where a proof above needs induction over data it argues by a least
counterexample, which is a set.

## Not modelled

* The contents of blocks and files: no control depends on them.
* The allocator under signals or threads: nothing claims it may be used so.
* Handlers interrupting handlers (`MaxNest` is 1): with two, the slack of one byte
  in `emit` is not enough. `size * nmemb` that wraps: the code has no guard there (see
  the hazards). A tm_wday or tm_mon below zero,
  which asctime would index its names with.
* What is one system call and keeps nothing: exit, abort, sleep, sigreturn, the void
  wrappers; the arguments and numbers of the system calls.
* Tables of texts beyond the errors that occur, linker scripts, headers of constants,
  vendored TinyCC, and the targets of the Makefile that only run a command.

## Plan

Done, in the order of importance: allocator with contract and proofs, console
output, formats with every conversion, streams, drivers, build; then errno under
signals and perror, FILEs on the real allocator, all of `string.c`, the calendar for
times and structs of any origin, numbers, system call results, program start and the
tools' helpers; and the proofs of all their safety properties.

Next, the model:

1. `OutBuf` below `Format`: one printf call from its format to the kernel.
2. Two makes on one tree, and drivers started by them: `Sdk` with `Drivers`.

Of the proofs none is left but for liveness; each new module is to come with its own.
