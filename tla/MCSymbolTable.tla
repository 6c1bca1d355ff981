---------------------------- MODULE MCSymbolTable ----------------------------
(* An instance of SymbolTable: one name of variables that is also that of  *)
(* a function, besides main and a function of the runtime library.         *)
EXTENDS SymbolTable

Variables == {"f"}

Functions == {"f", "main", "getint"}

Library == {"getint"}
=============================================================================
