-------------------------------- MODULE MCSdk --------------------------------
(***************************************************************************)
(* Sdk with one source of libc beside crt0.c, and one header.              *)
(***************************************************************************)
EXTENDS Sdk
=============================================================================
