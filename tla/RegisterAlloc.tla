--------------------------- MODULE RegisterAlloc ---------------------------
(***************************************************************************)
(* Global register allocation of one function: registerAlloc and           *)
(* allocRegister of optimize/ir/register_alloc.cpp.                        *)
(*                                                                         *)
(* The conflict graph is an unordered_map from a value to a shared_ptr to  *)
(* its set of neighbours.  "tempGraph = conflictGraph" copies the map but  *)
(* not the sets, so the two graphs have separate KEYS and shared           *)
(* ADJACENCY: here tempGraph and conflictGraph are the two key sets and    *)
(* adjacent[v] is the one neighbour set both maps point to.  Whether the   *)
(* colouring below may read conflictGraph.at(v) after the simplification   *)
(* has erased edges through tempGraph is the question of this module.      *)
(*                                                                         *)
(* Iteration over an unordered_map or unordered_set is in no fixed order:  *)
(* the first element that qualifies is any element that qualifies.         *)
(***************************************************************************)
EXTENDS Integers, Sequences, FiniteSets

CONSTANTS
  Values,       \* parameters and left values of the function
  Registers,    \* R4 to R12
  GLB_REG_CNT,  \* how many they are
  variableWeight, \* loop-weighted use count of each value
  ValueId       \* Value::id, distinct for distinct values

ASSUME RegistersAssumption ==
  /\ IsFiniteSet(Registers)
  /\ GLB_REG_CNT = Cardinality(Registers)

ASSUME ValuesAssumption ==
  /\ IsFiniteSet(Values)
  /\ variableWeight \in [Values -> Nat]
  /\ ValueId \in [Values -> Nat]
  /\ \A u, v \in Values : ValueId[u] = ValueId[v] => u = v

VARIABLES
  pc,                 \* "build", "simplify", "select" or "done"
  graph,              \* the conflicts of the function; no action decides by it
  adjacent,           \* the neighbour sets shared by the two graphs
  tempGraph,          \* keys of the graph being simplified
  conflictGraph,      \* keys of the conflict graph
  variableWithRegs,   \* the stack of simplified values, top first
  variableRegs,       \* value -> register, for the values that have one
  variableWithoutReg  \* values that stay in memory

vars == <<pc, graph, adjacent, tempGraph, conflictGraph,
          variableWithRegs, variableRegs, variableWithoutReg>>

NoConflict == [v \in Values |-> {}]

(***************************************************************************)
(* Every conflict graph buildConflictGraph can end with: an edge is a pair *)
(* of distinct values, inserted at both of its ends.                       *)
(***************************************************************************)
Edges == {e \in SUBSET Values : \E u, v \in Values : u # v /\ e = {u, v}}

Neighbours(E) == [v \in Values |-> {u \in Values : u # v /\ {u, v} \in E}]

(* Mutants of Erase: the neighbour set of v itself is emptied as well; no  *)
(* edge is erased; the edges of values no longer in the graph are erased.  *)
EraseBoth(adj, v, from) ==
  [u \in Values |-> IF u = v THEN {} ELSE IF u \in from THEN adj[u] \ {v} ELSE adj[u]]

EraseNothing(adj, v, from) == adj

EraseEverywhere(adj, v, from) == [u \in Values |-> adj[u] \ {v}]

Erase(adj, v, from) ==
  [u \in Values |-> IF u \in from THEN adj[u] \ {v} ELSE adj[u]]

OnStack == {variableWithRegs[i] : i \in DOMAIN variableWithRegs}

-----------------------------------------------------------------------------

Init ==
  /\ pc = "build"
  /\ graph = NoConflict
  /\ adjacent = NoConflict
  /\ tempGraph = {}
  /\ conflictGraph = Values
  /\ variableWithRegs = <<>>
  /\ variableRegs = <<>>
  /\ variableWithoutReg = {}

(***************************************************************************)
(* The graph is complete in time: allocRegister starts with a copy of it.  *)
(***************************************************************************)
BuildConflictGraph ==
  /\ pc = "build"
  /\ \E E \in SUBSET Edges : graph' = Neighbours(E)
  /\ adjacent' = graph'
  /\ tempGraph' = conflictGraph
  /\ pc' = "simplify"
  /\ UNCHANGED <<conflictGraph, variableWithRegs, variableRegs, variableWithoutReg>>

(***************************************************************************)
(* CONFLICT_GRAPH_TIMEOUT seconds are over.  The time is looked at only    *)
(* while the life of the values is followed, before the first edge is      *)
(* entered: the conflict graph has every value and no conflict, whatever   *)
(* the conflicts of the function are, and must not be coloured.  Mutant:   *)
(* conflictGraphBuildSuccess is not looked at.                             *)
(***************************************************************************)
TimeoutUnnoticed ==
  /\ pc = "build"
  /\ \E E \in SUBSET Edges : graph' = Neighbours(E)
  /\ tempGraph' = conflictGraph
  /\ pc' = "simplify"
  /\ UNCHANGED <<adjacent, conflictGraph, variableWithRegs, variableRegs, variableWithoutReg>>

BuildTimeout ==
  /\ pc = "build"
  /\ \E E \in SUBSET Edges : graph' = Neighbours(E)
  /\ pc' = "done"
  /\ UNCHANGED <<adjacent, tempGraph, conflictGraph,
                 variableWithRegs, variableRegs, variableWithoutReg>>

(* Mutant: as many neighbours as registers still count as few.             *)
SimplifiableFull(v) == Cardinality(adjacent[v]) <= GLB_REG_CNT

Simplifiable(v) == Cardinality(adjacent[v]) < GLB_REG_CNT

Simplify(v) ==
  /\ pc = "simplify"
  /\ v \in tempGraph
  /\ Simplifiable(v)
  /\ adjacent' = Erase(adjacent, v, adjacent[v])
  /\ tempGraph' = tempGraph \ {v}
  /\ variableWithRegs' = <<v>> \o variableWithRegs
  /\ UNCHANGED <<pc, graph, conflictGraph, variableRegs, variableWithoutReg>>

Lighter(u, v) ==
  \/ variableWeight[u] < variableWeight[v]
  \/ variableWeight[u] = variableWeight[v] /\ ValueId[u] < ValueId[v]

(* Mutants of Spill: the value stays in tempGraph; it stays in both graphs *)
(* and only its edges go, so that in K5 it is the lightest again; it is    *)
(* spilled though another one could still be simplified.                   *)
SpillKeepsKey(abandon) ==
  /\ pc = "simplify"
  /\ abandon \in tempGraph
  /\ \A v \in tempGraph : ~Simplifiable(v)
  /\ \A v \in tempGraph : ~Lighter(v, abandon)
  /\ adjacent' = Erase(adjacent, abandon, adjacent[abandon])
  /\ conflictGraph' = conflictGraph \ {abandon}
  /\ variableWithoutReg' = variableWithoutReg \cup {abandon}
  /\ UNCHANGED <<pc, graph, tempGraph, variableWithRegs, variableRegs>>

SpillKeepsValue(abandon) ==
  /\ pc = "simplify"
  /\ abandon \in tempGraph
  /\ \A v \in tempGraph : ~Simplifiable(v)
  /\ \A v \in tempGraph : ~Lighter(v, abandon)
  /\ adjacent' = Erase(adjacent, abandon, adjacent[abandon])
  /\ variableWithoutReg' = variableWithoutReg \cup {abandon}
  /\ UNCHANGED <<pc, graph, tempGraph, conflictGraph, variableWithRegs, variableRegs>>

SpillEager(abandon) ==
  /\ pc = "simplify"
  /\ abandon \in tempGraph
  /\ \A v \in tempGraph : ~Lighter(v, abandon)
  /\ adjacent' = Erase(adjacent, abandon, adjacent[abandon])
  /\ tempGraph' = tempGraph \ {abandon}
  /\ conflictGraph' = conflictGraph \ {abandon}
  /\ variableWithoutReg' = variableWithoutReg \cup {abandon}
  /\ UNCHANGED <<pc, graph, variableWithRegs, variableRegs>>

(***************************************************************************)
(* Every remaining value has too many conflicts: the lightest one loses    *)
(* its edges in both graphs and goes to memory.                            *)
(***************************************************************************)
Spill(abandon) ==
  /\ pc = "simplify"
  /\ abandon \in tempGraph
  /\ \A v \in tempGraph : ~Simplifiable(v)
  /\ \A v \in tempGraph : ~Lighter(v, abandon)
  /\ adjacent' = Erase(adjacent, abandon, adjacent[abandon])
  /\ tempGraph' = tempGraph \ {abandon}
  /\ conflictGraph' = conflictGraph \ {abandon}
  /\ variableWithoutReg' = variableWithoutReg \cup {abandon}
  /\ UNCHANGED <<pc, graph, variableWithRegs, variableRegs>>

StartSelect ==
  /\ pc = "simplify"
  /\ tempGraph = {}
  /\ pc' = "select"
  /\ UNCHANGED <<graph, adjacent, tempGraph, conflictGraph,
                 variableWithRegs, variableRegs, variableWithoutReg>>

(* Mutant: registers are counted from 0.                                   *)
ChosenFromZero(v) == 0 .. GLB_REG_CNT - 1

(***************************************************************************)
(* The registers left for v once those of its neighbours are erased.  The  *)
(* code dereferences regs.begin() without looking whether any is left:     *)
(* with none left the value read is arbitrary.                             *)
(***************************************************************************)
FreeRegisters(v) ==
  Registers \ {variableRegs[u] : u \in adjacent[v] \cap DOMAIN variableRegs}

Chosen(v) == IF FreeRegisters(v) # {} THEN FreeRegisters(v) ELSE Registers

Select ==
  /\ pc = "select"
  /\ variableWithRegs # <<>>
  /\ LET value == Head(variableWithRegs) IN
       \E r \in Chosen(value) :
         variableRegs' = [u \in DOMAIN variableRegs \cup {value} |->
                            IF u = value THEN r ELSE variableRegs[u]]
  /\ variableWithRegs' = Tail(variableWithRegs)
  /\ UNCHANGED <<pc, graph, adjacent, tempGraph, conflictGraph, variableWithoutReg>>

Finish ==
  /\ pc = "select"
  /\ variableWithRegs = <<>>
  /\ pc' = "done"
  /\ UNCHANGED <<graph, adjacent, tempGraph, conflictGraph,
                 variableWithRegs, variableRegs, variableWithoutReg>>

Next ==
  \/ BuildConflictGraph
  \/ BuildTimeout
  \/ \E v \in Values : Simplify(v) \/ Spill(v)
  \/ StartSelect
  \/ Select
  \/ Finish

Spec == Init /\ [][Next]_vars

(***************************************************************************)
(* allocRegister is one loop of one thread: it goes on while it can.       *)
(***************************************************************************)
FairSpec == Spec /\ WF_vars(Next)

-----------------------------------------------------------------------------
(***************************************************************************)
(* Properties                                                              *)
(***************************************************************************)

(* The shape of the state of register_alloc.cpp's globals and locals.      *)
TypeOK ==
  /\ pc \in {"build", "simplify", "select", "done"}
  /\ graph \in [Values -> SUBSET Values]
  /\ adjacent \in [Values -> SUBSET Values]
  /\ tempGraph \subseteq Values
  /\ conflictGraph \subseteq Values
  /\ variableWithRegs \in Seq(Values)
  /\ DOMAIN variableRegs \subseteq Values
  /\ \A v \in DOMAIN variableRegs : variableRegs[v] \in Registers
  /\ variableWithoutReg \subseteq Values

(* Two values that conflict never hold the same register, although the     *)
(* colouring reads neighbour sets that the simplification has erased       *)
(* edges from.                                                             *)
NoConflictShared ==
  \A u, v \in DOMAIN variableRegs :
    v \in graph[u] => variableRegs[u] # variableRegs[v]

(* regs.begin() is dereferenced only while a register is left: fewer than  *)
(* GLB_REG_CNT neighbours can have taken one.                              *)
RegisterLeft ==
  pc = "select" /\ variableWithRegs # <<>> => FreeRegisters(Head(variableWithRegs)) # {}

(* Between the copy of the graph and the return no value is lost or        *)
(* decided twice: it is still in tempGraph, on the stack, in a register or *)
(* in memory, and in one of them only; the stack holds no value twice.     *)
Accounted ==
  pc \in {"simplify", "select"} =>
    /\ tempGraph \cup OnStack \cup DOMAIN variableRegs \cup variableWithoutReg = Values
    /\ tempGraph \cap (OnStack \cup DOMAIN variableRegs \cup variableWithoutReg) = {}
    /\ OnStack \cap (DOMAIN variableRegs \cup variableWithoutReg) = {}
    /\ DOMAIN variableRegs \cap variableWithoutReg = {}
    /\ \A i, j \in DOMAIN variableWithRegs :
         variableWithRegs[i] = variableWithRegs[j] => i = j

(* No at() of the two graphs throws: the neighbours of a value that is     *)
(* being simplified or spilled are keys of tempGraph, and the value being  *)
(* coloured is a key of the conflict graph.                                *)
KeysPresent ==
  /\ \A v \in tempGraph : adjacent[v] \subseteq tempGraph
  /\ tempGraph \cup OnStack \subseteq conflictGraph

(* A value with fewer conflicts than there are registers is never sent to  *)
(* memory, however heavy its neighbours and whatever order the maps are    *)
(* iterated in.                                                            *)
LowDegreeKept ==
  \A v \in variableWithoutReg : Cardinality(graph[v]) >= GLB_REG_CNT

(* Erasing edges through tempGraph never touches the neighbour set of a    *)
(* value that is already on the stack: the set the colouring will read is  *)
(* the one the value was simplified with.                                  *)
FrozenOnStack ==
  [][\A v \in OnStack \cap OnStack' : adjacent'[v] = adjacent[v]]_vars

(* The goto loop ends: every round takes a value out of tempGraph, by      *)
(* simplifying or by spilling one.                                         *)
Terminates == <>(pc = "done")

(* allocRegister implements the abstract allocation of module Allocation:  *)
(* the two work lists and the stack are details of it.  No register is     *)
(* given by a graph the time limit has left without its conflicts.         *)
Abstract == INSTANCE Allocation WITH
              Values <- Values,
              Registers <- Registers,
              graph <- graph,
              variableRegs <- variableRegs,
              variableWithoutReg <- variableWithoutReg

ImplementsAllocation == Abstract!Spec
=============================================================================
