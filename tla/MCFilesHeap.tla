----------------------------- MODULE MCFilesHeap ----------------------------
(***************************************************************************)
(* FilesHeap in an arena of two FILEs and a small block; a program that    *)
(* takes a byte or most of a FILE's block leaves room for two or one.      *)
(***************************************************************************)
EXTENDS FilesHeap

MCRequests == {1, 40}
=============================================================================
