----------------------------- MODULE LiteralPool -----------------------------
(***************************************************************************)
(* The last part of buildMachineModule: it walks over the instructions of  *)
(* every block, counts them, and puts in literal pools, the words that     *)
(* hold the addresses of the globals.  LDR Rd, label reads such a word, so *)
(* the label may be no further from the load than Reach bytes.             *)
(*                                                                         *)
(* No load changes where the pools go, so the model keeps one load of the  *)
(* program, any one, and the labels of the same name that follow it.       *)
(***************************************************************************)
EXTENDS Integers, Sequences

CONSTANTS Window,             \* instructions counted until the next pool
          Globals,            \* how many globals and constant arrays there are
          Loaded,             \* the ones the program loads, by their place in a pool
          Reach,              \* how far LDR reaches from the program counter
          OptimizeMachineIr,  \* without it, every block ends with a pool
          MaxPools            \* bound: no block goes on after so many pools

ASSUME PoolAssumption ==
  /\ Window \in Nat /\ Window >= 2
  /\ Globals \in Nat
  /\ Loaded \subseteq 1 .. Globals
  /\ Reach \in Nat
  /\ OptimizeMachineIr \in BOOLEAN
  /\ MaxPools \in Nat

VARIABLES phase,          \* between two blocks, within one, or at the end
          count,          \* ins_count - pre_ins_count
          const_pool_id,  \* the number of the next pool, part of its names
          load,           \* the load that is watched, once it was emitted
          labels          \* how far from it the labels of its name are

vars == <<phase, count, const_pool_id, load, labels>>

NoLoad == [global |-> 0, pool |-> 0, distance |-> 0]

(* The load that is watched: the place of its global, the pool in the name *)
(* of its label, and the bytes from the load to the end of the code.       *)
Loads == [global : Loaded, pool : Nat, distance : Nat]

Init == /\ phase = "outside"
        /\ count = 0
        /\ const_pool_id = 0
        /\ load = NoLoad
        /\ labels = <<>>

-----------------------------------------------------------------------------
(* The pool: a branch over it, a label and a word for each global, and the *)
(* label "next" after them; nothing at all if there are no globals.  Size  *)
(* counts the instructions, PoolBytes the bytes, WordAt the bytes before   *)
(* the word of the global at a place.                                      *)
PoolSize == IF Globals = 0 THEN 0 ELSE Globals + 2

PoolBytes == IF Globals = 0 THEN 0 ELSE 4 + 4 * Globals

WordAt(global) == 4 + 4 * (global - 1)

(* What stands in the code so far, as genGlobIns changes it. *)
View == [count |-> count, id |-> const_pool_id, load |-> load, labels |-> labels]

Grown(v, bytes) ==
  IF v.load = NoLoad THEN v ELSE [v EXCEPT !.load.distance = @ + bytes]

(* Mutant: the number of the next pool stays the same. *)
GlobInsSameId(v) ==
  IF Globals = 0 THEN v
  ELSE [Grown(v, PoolBytes) EXCEPT
          !.labels = IF v.load # NoLoad /\ v.load.pool = v.id
                       THEN Append(@, v.load.distance + WordAt(v.load.global))
                       ELSE @]

genGlobIns(v) ==
  IF Globals = 0 THEN v
  ELSE [Grown(v, PoolBytes) EXCEPT
          !.id = @ + 1,
          !.labels = IF v.load # NoLoad /\ v.load.pool = v.id
                       THEN Append(@, v.load.distance + WordAt(v.load.global))
                       ELSE @]

(* Mutant: one instruction later. *)
DueLate(v) == v.count > Window

Due(v) == v.count >= Window

(* A pool because enough was counted: pre_ins_count is set before the pool *)
(* is added to ins_count.                                                  *)
CountedPool(v) == [genGlobIns(v) EXCEPT !.count = PoolSize]

PoolIfDue(v) == IF Due(v) THEN CountedPool(v) ELSE v

(* A pool at the end of a block, which is not counted. *)
BlockPool(v) == IF OptimizeMachineIr THEN v ELSE [genGlobIns(v) EXCEPT !.count = 0]

Become(v) == /\ count' = v.count
             /\ const_pool_id' = v.id
             /\ load' = v.load
             /\ labels' = v.labels

(* One element of a block is counted, whatever its bytes. *)
Counted(v, bytes) == PoolIfDue([Grown(v, bytes) EXCEPT !.count = @ + 1])

-----------------------------------------------------------------------------
(* A block begins with its label, which is counted and takes no bytes. *)
BeginBlock == /\ phase = "outside"
              /\ const_pool_id < MaxPools
              /\ phase' = "block"
              /\ Become(Counted(View, 0))

Instruction == /\ phase = "block"
               /\ const_pool_id < MaxPools
               /\ Become(Counted(View, 4))
               /\ UNCHANGED phase

(* A PSEUDO_LOAD of a global, watched from here on.  Its label gets the    *)
(* number of the next pool.                                                *)
PseudoLoad(global) ==
  /\ phase = "block"
  /\ const_pool_id < MaxPools
  /\ load = NoLoad
  /\ Become(Counted([View EXCEPT !.load = [global |-> global, pool |-> const_pool_id,
                                           distance |-> 0]], 4))
  /\ UNCHANGED phase

EndBlock == /\ phase = "block"
            /\ phase' = "outside"
            /\ Become(BlockPool(PoolIfDue(View)))

EndModule == /\ phase = "outside"
             /\ phase' = "end"
             /\ Become([genGlobIns(View) EXCEPT !.count = 0])

Next == \/ BeginBlock
        \/ Instruction
        \/ \E global \in Loaded : PseudoLoad(global)
        \/ EndBlock
        \/ EndModule

Spec == Init /\ [][Next]_vars

-----------------------------------------------------------------------------
TypeOK == /\ phase \in {"outside", "block", "end"}
          /\ count \in 0 .. Window + PoolSize
          /\ const_pool_id \in Nat
          /\ load \in Loads \cup {NoLoad}
          /\ labels \in Seq(Nat)

(* LDR reads the word it names: the label of its name, counted from the    *)
(* program counter, which is two instructions ahead of the load, is within *)
(* what the offset of an LDR can express.                                  *)
InReach == \A i \in DOMAIN labels : labels[i] - 8 <= Reach

(* The label a load names is defined once: never twice, however many pools *)
(* follow, and at the end of the module it is there for every load.        *)
DefinedOnce == /\ Len(labels) <= 1
               /\ phase = "end" /\ load # NoLoad => Len(labels) = 1
=============================================================================
