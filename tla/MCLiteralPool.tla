---------------------------- MODULE MCLiteralPool ----------------------------
(* An instance of LiteralPool: a small window with the longest reach it needs. *)
EXTENDS LiteralPool

AnyOfThem == 1 .. Globals
=============================================================================
