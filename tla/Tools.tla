-------------------------------- MODULE Tools -------------------------------
(***************************************************************************)
(* The helpers of sdk/include/util.h for the userspace tools: paths in an  *)
(* array of limited size, and the mode column of a listing.                *)
(***************************************************************************)
EXTENDS Integers, Sequences

Slash == "/"
Least(a, b) == IF a < b THEN a ELSE b
Clip(s, n) == SubSeq(s, 1, Least(n, Len(s)))

\* Bug: the separator is stored without asking for room.
BugSeparated(out, cap) ==
  IF Len(out) > 0 /\ out[Len(out)] # Slash THEN Append(out, Slash) ELSE out

Separated(out, cap) ==
  IF Len(out) > 0 /\ out[Len(out)] # Slash /\ Len(out) + 1 < cap
  THEN Append(out, Slash) ELSE out

\* ax_join_path: what out holds before its terminator; each loop stores as
\* long as one more character and the terminator fit.
JoinPath(dir, name, cap) ==
  LET out == Separated(Clip(dir, cap - 1), cap)
  IN  out \o Clip(name, IF cap - 1 > Len(out) THEN cap - 1 - Len(out) ELSE 0)

\* ax_basename: where the last component begins.
Basename(p) ==
  LET slashes == {k \in 1 .. Len(p) : p[k] = Slash}
      b       == IF slashes = {} THEN 0 ELSE CHOOSE k \in slashes : \A j \in slashes : j <= k
  IN  SubSeq(p, b + 1, Len(p))

Bits == {"IFDIR", "ISUID", "ISGID", "IRUSR", "IWUSR", "IXUSR",
         "IRGRP", "IWGRP", "IXGRP", "IROTH", "IWOTH", "IXOTH"}

\* ax_mode_str, of the set of bits in m.
ModeStr(m) ==
  LET Bit(b, c) == IF b \in m THEN c ELSE "-"
      Exec(x, s) == IF x \in m THEN (IF s \in m THEN "s" ELSE "x")
                    ELSE (IF s \in m THEN "S" ELSE "-")
  IN  <<Bit("IFDIR", "d"),
        Bit("IRUSR", "r"), Bit("IWUSR", "w"), Exec("IXUSR", "ISUID"),
        Bit("IRGRP", "r"), Bit("IWGRP", "w"), Exec("IXGRP", "ISGID"),
        Bit("IROTH", "r"), Bit("IWOTH", "w"), Bit("IXOTH", "x")>>
=============================================================================
