------------------------------ MODULE MCStrings -----------------------------
(***************************************************************************)
(* Strings on five bytes and a terminator: two separators and a letter     *)
(* above 127.                                                              *)
(***************************************************************************)
EXTENDS Strings

Comma == 44
Semicolon == 59
MCCharacters == {Comma, Semicolon, 228}
MCDelimiters == {{Comma}, {Comma, Semicolon}}
=============================================================================
