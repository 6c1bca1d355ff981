----------------------------- MODULE Allocation -----------------------------
(***************************************************************************)
(* What global register allocation promises the code generator, whatever   *)
(* algorithm provides it: each left value of a function is decided at most *)
(* once, either with a register no conflicting left value has, or without  *)
(* one (it then lives in the stack frame).  RegisterAlloc implements this. *)
(***************************************************************************)

CONSTANTS
  Values,      \* the parameters and left-value instructions of a function
  Registers    \* the registers of global allocation, R4 to R12

VARIABLES
  graph,               \* the conflicts: graph[v] is the set of values v conflicts with
  variableRegs,        \* partial function from Values to Registers
  variableWithoutReg   \* values that stay in memory

vars == <<graph, variableRegs, variableWithoutReg>>

(***************************************************************************)
(* The two outcomes a value can have.                                      *)
(***************************************************************************)
Decided == DOMAIN variableRegs \cup variableWithoutReg

NoConflict == [v \in Values |-> {}]

Init ==
  /\ graph = NoConflict
  /\ variableRegs = <<>>
  /\ variableWithoutReg = {}

(***************************************************************************)
(* The conflicts are learnt once, before any value is decided.             *)
(***************************************************************************)
Learn ==
  /\ Decided = {}
  /\ graph = NoConflict
  /\ graph' \in [Values -> SUBSET Values]
  /\ UNCHANGED <<variableRegs, variableWithoutReg>>

Assign(v, r) ==
  /\ v \notin Decided
  /\ \A u \in graph[v] \cap DOMAIN variableRegs : variableRegs[u] # r
  /\ variableRegs' = [u \in DOMAIN variableRegs \cup {v} |->
                        IF u = v THEN r ELSE variableRegs[u]]
  /\ UNCHANGED <<graph, variableWithoutReg>>

Abandon(v) ==
  /\ v \notin Decided
  /\ variableWithoutReg' = variableWithoutReg \cup {v}
  /\ UNCHANGED <<graph, variableRegs>>

Next ==
  \/ Learn
  \/ \E v \in Values : Abandon(v) \/ \E r \in Registers : Assign(v, r)

Spec == Init /\ [][Next]_vars
=============================================================================
