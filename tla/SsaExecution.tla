---------------------------- MODULE SsaExecution ----------------------------
(***************************************************************************)
(* Running the function that SsaConstruction has translated, twice at once: *)
(* as the SysY source means it, where a variable contains what was last    *)
(* assigned to it, and as the SSA form means it, where a phi takes, on     *)
(* entry to its block, the value its operand for the edge has.             *)
(*                                                                         *)
(* An assignment makes a new value each time it runs.  Its instances are   *)
(* told apart by one bit, so that a value of an earlier iteration of a     *)
(* loop is not taken for the one of this iteration.                        *)
(***************************************************************************)
EXTENDS SsaConstruction

VARIABLES
  at,        \* the block that runs, or 0 while the function is translated
  next,      \* its next instruction
  contents,  \* source: what each variable contains
  latest,    \* instance of each assignment that ran last
  env        \* SSA: the value of each live phi

runVars == <<at, next, contents, latest, env>>

NoValue == <<Nothing, 0>>

Value(v) ==
  CASE v \in DOMAIN env -> env[v]
    [] v = Undefined -> <<Undefined, 0>>
    [] v \in DOMAIN latest -> <<v, latest[v]>>
    [] OTHER -> NoValue

Instruction == block[at].instructions[next]

Start ==
  /\ at = 0
  /\ stack = <<>> /\ open = <<>>
  /\ at' = 1
  /\ next' = 1
  /\ contents' = [name \in Vars |-> <<Undefined, 0>>]
  /\ latest' = [d \in 1 .. MaxDefs |-> 0]
  /\ env' = [p \in Live |-> NoValue]
  /\ UNCHANGED vars

Execute ==
  /\ at # 0
  /\ next <= Len(block[at].instructions)
  /\ next' = next + 1
  /\ LET i == Instruction IN
       \/ /\ i.op = "def"
          /\ latest' = [latest EXCEPT ![i.value] = 1 - @]
          /\ contents' = [contents EXCEPT ![i.name] = <<i.value, latest'[i.value]>>]
       \/ /\ i.op = "copy"
          /\ contents' = [contents EXCEPT ![i.to] = contents[i.name]]
          /\ UNCHANGED latest
       \/ /\ i.op = "use"
          /\ UNCHANGED <<contents, latest>>
  /\ UNCHANGED <<at, env, vars>>

(* All the phis of the block that is entered take their operands at once.  *)
Enter ==
  /\ at # 0
  /\ next > Len(block[at].instructions)
  /\ at' \in block[at].successors
  /\ next' = 1
  /\ env' = [p \in Live |->
                IF PhiAt(p).block # at' THEN env[p]
                ELSE IF at \in DOMAIN PhiAt(p).operands THEN Value(PhiAt(p).operands[at])
                ELSE NoValue]
  /\ UNCHANGED <<contents, latest, vars>>

Translate == at = 0 /\ Next /\ UNCHANGED runVars

RunInit ==
  /\ Init
  /\ at = 0
  /\ next = 1
  /\ contents = <<>>
  /\ latest = <<>>
  /\ env = <<>>

RunNext == Translate \/ Start \/ Execute \/ Enter

RunSpec == RunInit /\ [][RunNext]_<<vars, runVars>>

-----------------------------------------------------------------------------
(***************************************************************************)
(* Properties                                                              *)
(***************************************************************************)

(* SSA construction preserves the meaning of the program: whichever way    *)
(* the branches go, the value an instruction was given for a variable is,  *)
(* when it runs, what the variable contains.                               *)
ReadsRight ==
  at # 0 /\ next <= Len(block[at].instructions) /\ Instruction.op = "use" =>
    Value(Instruction.value) = contents[Instruction.name]
=============================================================================
