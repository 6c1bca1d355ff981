-------------------------- MODULE MCCodeGeneration --------------------------
(* A function of two parameters, one in a register, with a left value in a *)
(* register and one on the stack, and a local array.                       *)
EXTENDS CodeGeneration

CONSTANTS pr, ps, lr, ls, r1, r2, r3

MCParams == <<pr, ps>>
MCRegs == (pr :> 4) @@ (lr :> 5)
MCFar == {1}
MCArguments == {<<>>, <<ls>>, <<lr>>, <<ps, lr>>, <<ls, Big, Array>>, <<Small, pr, lr, ls, ps, Array>>}
               \cup {<<r>> : r \in RValues}
=============================================================================
