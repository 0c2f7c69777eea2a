------------------------------ MODULE MCStreams ------------------------------
(***************************************************************************)
(* Streams with two FILEs beside stdin, items of one and of two bytes, and *)
(* lines of up to three characters.                                        *)
(***************************************************************************)
EXTENDS Streams, TLC

MCModes == {"r", "?"}
Symmetry == Permutations(Files)
=============================================================================
