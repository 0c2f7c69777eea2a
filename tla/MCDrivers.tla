------------------------------ MODULE MCDrivers ------------------------------
(***************************************************************************)
(* Two drivers at once on sources that both, one or none of the compilers  *)
(* accept, two of them of the same base name.                              *)
(***************************************************************************)
EXTENDS Drivers

Src(name, base, by) == [name |-> name, base |-> base, by |-> by]
Both == Src("main.c", "main.o", {"tcc", "gcc"})
SameBase == Src("sub/main.c", "main.o", {"tcc"})
GccOnly == Src("simd.c", "simd.o", {"gcc"})
Neither == Src("bad.c", "bad.o", {})

Run(driver, c, srcs, out, flags) ==
  [driver |-> driver, c |-> c, srcs |-> srcs, out |-> out, flags |-> flags]

MCCommands ==
  {Run(d, FALSE, s, "prog", f) :
     d \in {"axcc", "axtcc"}, f \in {{}, {"-I", "-L"}, {"-T", "-nostdlib"}},
     s \in {<<>>, <<Both, GccOnly>>, <<Both, SameBase>>, <<GccOnly, Neither>>}}
  \cup {Run(d, TRUE, s, o, {}) : d \in {"axcc", "axtcc"}, o \in {"", "x.o"},
          s \in {<<GccOnly>>, <<GccOnly, Both>>, <<SameBase, Both>>}}
  \cup {Run("axld", FALSE, <<>>, "prog", f) :
          f \in {{}, {"-pie"}, {"-T"}, {"--hash-style"}, {"-z"}, {"-e"}, {"-T", "-z", "-e"}}}

\* axld on its own, making the C library.
LibcCommands == {Run("axld", FALSE, <<>>, "libc.sl", {})}
=============================================================================
