------------------------------ MODULE MCOutBuf ------------------------------
(***************************************************************************)
(* OutBuf with a buffer of four bytes: a text of two stays below the flush *)
(* in emit, a text of four takes it once and leaves a rest behind.         *)
(***************************************************************************)
EXTENDS OutBuf

MCTexts == {2, 4}
MCHandlerTexts == {1, 4}
=============================================================================
