------------------------------- MODULE Scopes -------------------------------
(***************************************************************************)
(* What the scopes of a language promise, however a compiler finds names:  *)
(* every declaration is a new object, a declaration is visible from there  *)
(* to the end of its block, and a use means the innermost declaration that *)
(* is visible.  SymbolTable implements this.                               *)
(***************************************************************************)
EXTENDS Naturals, Sequences

CONSTANTS
  Keys,        \* what can be declared: a name, as a variable or as a function
  Predeclared  \* a function from the keys known from the start to their objects

VARIABLES
  scopes,    \* the blocks that are open, outermost first: keys to objects
  objects,   \* the objects there are, those of closed blocks included
  answer     \* the object the last use meant

vars == <<scopes, objects, answer>>

Init ==
  /\ scopes = <<Predeclared>>
  /\ objects = {Predeclared[k] : k \in DOMAIN Predeclared}
  /\ answer = {}

(***************************************************************************)
(* A key is declared once in a block, and stands for a new object.         *)
(***************************************************************************)
Declare(k) ==
  LET top == scopes[Len(scopes)]
  IN /\ k \notin DOMAIN top
     /\ \E o \in objects' \ objects :
          /\ objects' = objects \cup {o}
          /\ scopes' = [scopes EXCEPT ![Len(scopes)] =
                          [x \in DOMAIN top \cup {k} |-> IF x = k THEN o ELSE top[x]]]
     /\ UNCHANGED answer

Open ==
  /\ scopes' = Append(scopes, <<>>)
  /\ UNCHANGED <<objects, answer>>

Close ==
  /\ Len(scopes) > 1
  /\ scopes' = SubSeq(scopes, 1, Len(scopes) - 1)
  /\ UNCHANGED <<objects, answer>>

Use(k) ==
  \E i \in 1 .. Len(scopes) :
    /\ k \in DOMAIN scopes[i]
    /\ \A j \in i + 1 .. Len(scopes) : k \notin DOMAIN scopes[j]
    /\ answer' = {scopes[i][k]}
    /\ UNCHANGED <<scopes, objects>>

Next ==
  \/ \E k \in Keys : Use(k) \/ Declare(k)
  \/ Open
  \/ Close

Spec == Init /\ [][Next]_vars
=============================================================================
