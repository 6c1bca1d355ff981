------------------------- MODULE RegisterAllocProofs -------------------------
(***************************************************************************)
(* Proofs about RegisterAlloc for every finite set of values, every weight *)
(* function and every number of registers.                                 *)
(*                                                                         *)
(* The argument: a value v is pushed on the stack when its neighbour set   *)
(* adjacent[v] holds exactly its neighbours that are still in tempGraph,   *)
(* and fewer than GLB_REG_CNT of them.  Those are the values pushed later  *)
(* or spilled, hence, of the values that can have a register, exactly the  *)
(* ones popped before v.  Nothing erases from adjacent[v] afterwards, so   *)
(* when v is popped its set still names every coloured neighbour, and they *)
(* hold at most GLB_REG_CNT - 1 registers.                                 *)
(***************************************************************************)
EXTENDS RegisterAlloc, FiniteSetTheorems, TLAPS

-----------------------------------------------------------------------------
(* The parts of the inductive invariant.                                   *)

GraphOK ==
  \A u, v \in Values : v \in graph[u] => u \in graph[v] /\ u # v

(* Before the graph is built nothing else has happened.                    *)
BuildOK ==
  pc = "build" =>
    /\ tempGraph = {}
    /\ conflictGraph = Values
    /\ variableWithRegs = <<>>
    /\ variableRegs = <<>>
    /\ variableWithoutReg = {}
    /\ graph = NoConflict

PhaseOK ==
  /\ pc = "simplify" => DOMAIN variableRegs = {}
  /\ pc \in {"select", "done"} => tempGraph = {}
  /\ pc = "done" => variableWithRegs = <<>>

(* adjacent[v] of a value still in the graph: its neighbours in the graph. *)
TempExact == \A v \in tempGraph : adjacent[v] = graph[v] \cap tempGraph

AdjacentSub == \A v \in Values : adjacent[v] \subseteq graph[v]

(* adjacent[v] of a value on the stack: it still names every neighbour     *)
(* that is in the graph, coloured, or above it on the stack.               *)
StackSees ==
  /\ \A v \in OnStack : \A u \in tempGraph \cup DOMAIN variableRegs :
       u \in graph[v] => u \in adjacent[v]
  /\ \A i, j \in DOMAIN variableWithRegs :
       i < j /\ variableWithRegs[i] \in graph[variableWithRegs[j]]
         => variableWithRegs[i] \in adjacent[variableWithRegs[j]]

StackLow == \A v \in OnStack : Cardinality(adjacent[v]) < GLB_REG_CNT

KeysOK == conflictGraph = Values \ variableWithoutReg

IInv ==
  /\ TypeOK
  /\ GraphOK
  /\ BuildOK
  /\ PhaseOK
  /\ Accounted
  /\ TempExact
  /\ AdjacentSub
  /\ StackSees
  /\ StackLow
  /\ KeysOK
  /\ NoConflictShared
  /\ LowDegreeKept

-----------------------------------------------------------------------------
(* Lemmas about the operators of RegisterAlloc.                            *)

(* What pushing does to a stack kept as a sequence, top first.             *)
LEMMA PushFacts ==
  ASSUME NEW S, NEW s \in Seq(S), NEW v \in S
  PROVE  /\ <<v>> \o s \in Seq(S)
         /\ DOMAIN (<<v>> \o s) = 1 .. Len(s) + 1
         /\ (<<v>> \o s)[1] = v
         /\ \A i \in 2 .. Len(s) + 1 : i - 1 \in DOMAIN s /\ (<<v>> \o s)[i] = s[i - 1]
  OBVIOUS

(* The set of values on a stack.                                           *)
ValuesOf(s) == {s[i] : i \in DOMAIN s}

(* A push adds one value to the set of values of the stack.                *)
LEMMA PushRange ==
  ASSUME NEW S, NEW s \in Seq(S), NEW v \in S
  PROVE  ValuesOf(<<v>> \o s) = ValuesOf(s) \cup {v}
<1> DEFINE t == <<v>> \o s
<1>1. /\ DOMAIN t = 1 .. Len(s) + 1 /\ t[1] = v
      /\ \A i \in 2 .. Len(s) + 1 : i - 1 \in DOMAIN s /\ t[i] = s[i - 1]
  BY PushFacts
<1>2. /\ \A i \in DOMAIN s : i + 1 \in DOMAIN t /\ t[i + 1] = s[i]
      /\ 1 \in DOMAIN t
      /\ \A i \in DOMAIN t : i = 1 \/ (i - 1 \in DOMAIN s /\ t[i] = s[i - 1])
  BY <1>1
<1> HIDE DEF t
<1>3. {t[i] : i \in DOMAIN t} = {s[i] : i \in DOMAIN s} \cup {v}
  <2>1. ASSUME NEW i \in DOMAIN t PROVE t[i] \in {s[k] : k \in DOMAIN s} \cup {v}
    BY <1>1, <1>2
  <2>2. ASSUME NEW k \in DOMAIN s PROVE s[k] \in {t[i] : i \in DOMAIN t}
    BY <1>2
  <2>3. v \in {t[i] : i \in DOMAIN t}
    BY <1>1, <1>2
  <2>4. QED
    BY <2>1, <2>2, <2>3
<1>4. QED
  BY <1>3 DEF t, ValuesOf

(* What popping does.                                                      *)
LEMMA PopFacts ==
  ASSUME NEW S, NEW s \in Seq(S), s # <<>>
  PROVE  /\ 1 \in DOMAIN s
         /\ Head(s) = s[1]
         /\ Tail(s) \in Seq(S)
         /\ \A i \in DOMAIN Tail(s) : i + 1 \in DOMAIN s /\ Tail(s)[i] = s[i + 1]
         /\ \A i \in DOMAIN s : i # 1 => i - 1 \in DOMAIN Tail(s) /\ Tail(s)[i - 1] = s[i]
  OBVIOUS

(* A neighbour set smaller than the register file leaves a register free,  *)
(* whatever registers its members hold.                                    *)
LEMMA SmallImage ==
  ASSUME NEW A, IsFiniteSet(A), Cardinality(A) < GLB_REG_CNT, NEW f
  PROVE  Registers \ {f[u] : u \in A} # {}
<1> DEFINE image == {f[u] : u \in A}
<1>1. IsFiniteSet(image) /\ Cardinality(image) <= Cardinality(A)
  <2> DEFINE g == [u \in A |-> f[u]]
  <2>1. g \in Surjection(A, image)
    BY DEF Surjection
  <2>2. QED
    BY <2>1, FS_Surjection
<1>2. SUFFICES ASSUME Registers \subseteq image PROVE FALSE
  OBVIOUS
<1>3. Cardinality(Registers) <= Cardinality(image)
  BY <1>1, <1>2, FS_Subset
<1>4. /\ Cardinality(image) \in Nat /\ Cardinality(A) \in Nat
      /\ Cardinality(Registers) \in Nat
  BY <1>1, RegistersAssumption, FS_CardinalityType
<1>5. QED
  BY <1>1, <1>3, <1>4, RegistersAssumption

(* The neighbour sets are finite, and shrinking one does not enlarge it.   *)
LEMMA FiniteSubsets ==
  ASSUME NEW B \in SUBSET Values, NEW A \in SUBSET B
  PROVE  /\ IsFiniteSet(A) /\ IsFiniteSet(B)
         /\ Cardinality(A) \in Nat /\ Cardinality(B) \in Nat
         /\ Cardinality(A) <= Cardinality(B)
BY ValuesAssumption, FS_Subset, FS_CardinalityType

LEMMA RegCountNat == GLB_REG_CNT \in Nat
BY RegistersAssumption, FS_CardinalityType

-----------------------------------------------------------------------------
(* The invariant holds initially.                                          *)

LEMMA InitIInv == Init => IInv
<1> SUFFICES ASSUME Init PROVE IInv
  OBVIOUS
<1>1. TypeOK
  BY DEF Init, TypeOK, NoConflict
<1>2. GraphOK /\ BuildOK /\ PhaseOK /\ Accounted /\ TempExact /\ AdjacentSub
  BY DEF Init, NoConflict, GraphOK, BuildOK, PhaseOK, Accounted, TempExact, AdjacentSub
<1>3. StackSees /\ StackLow
  BY DEF Init, StackSees, StackLow, OnStack
<1>4. KeysOK /\ NoConflictShared /\ LowDegreeKept
  BY DEF Init, KeysOK, NoConflictShared, LowDegreeKept
<1>5. QED
  BY <1>1, <1>2, <1>3, <1>4 DEF IInv

-----------------------------------------------------------------------------
(* Every action preserves it.                                              *)

LEMMA BuildConflictGraphIInv == IInv /\ BuildConflictGraph => IInv'
<1> SUFFICES ASSUME IInv, BuildConflictGraph PROVE IInv'
  OBVIOUS
<1> USE DEF IInv
<1>1. PICK E \in SUBSET Edges : graph' = Neighbours(E)
  BY DEF BuildConflictGraph
<1>2. /\ tempGraph' = Values /\ adjacent' = graph' /\ pc' = "simplify"
      /\ conflictGraph' = Values /\ variableWithRegs' = <<>>
      /\ variableRegs' = <<>> /\ variableWithoutReg' = {}
  BY DEF BuildConflictGraph, BuildOK
<1>3. graph' \in [Values -> SUBSET Values] /\ GraphOK'
  BY <1>1 DEF Neighbours, GraphOK
<1>4. TypeOK'
  BY <1>2, <1>3 DEF TypeOK
<1>5. BuildOK' /\ PhaseOK' /\ KeysOK' /\ NoConflictShared' /\ LowDegreeKept'
  BY <1>2 DEF BuildOK, PhaseOK, KeysOK, NoConflictShared, LowDegreeKept
<1>6. Accounted' /\ StackSees' /\ StackLow'
  BY <1>2 DEF Accounted, StackSees, StackLow, OnStack
<1>7. TempExact' /\ AdjacentSub'
  BY <1>2, <1>3 DEF TempExact, AdjacentSub
<1>8. QED
  BY <1>3, <1>4, <1>5, <1>6, <1>7

LEMMA SimplifyIInv ==
  ASSUME NEW v \in Values, IInv, Simplify(v)
  PROVE  IInv'
<1> USE DEF IInv
<1>1. /\ pc = "simplify" /\ pc' = pc /\ v \in tempGraph
      /\ tempGraph' = tempGraph \ {v}
      /\ variableWithRegs' = <<v>> \o variableWithRegs
      /\ graph' = graph /\ conflictGraph' = conflictGraph
      /\ variableRegs' = variableRegs /\ variableWithoutReg' = variableWithoutReg
      /\ Cardinality(adjacent[v]) < GLB_REG_CNT
  BY DEF Simplify, Simplifiable
<1>2. /\ adjacent' \in [Values -> SUBSET Values]
      /\ \A u \in Values : adjacent'[u] = IF u \in adjacent[v] THEN adjacent[u] \ {v}
                                                              ELSE adjacent[u]
  BY DEF Simplify, Erase, TypeOK
<1>3. /\ variableWithRegs \in Seq(Values)
      /\ variableWithRegs' \in Seq(Values)
      /\ DOMAIN variableWithRegs' = 1 .. Len(variableWithRegs) + 1
      /\ variableWithRegs'[1] = v
      /\ \A i \in 2 .. Len(variableWithRegs) + 1 :
           /\ i - 1 \in DOMAIN variableWithRegs
           /\ variableWithRegs'[i] = variableWithRegs[i - 1]
  BY <1>1, PushFacts DEF TypeOK
<1>4. OnStack' = OnStack \cup {v}
  <2>1. OnStack = ValuesOf(variableWithRegs) /\ OnStack' = ValuesOf(variableWithRegs')
    BY DEF OnStack, ValuesOf
  <2>2. ValuesOf(<<v>> \o variableWithRegs) = ValuesOf(variableWithRegs) \cup {v}
    BY PushRange DEF TypeOK
  <2>3. QED
    BY <1>1, <2>1, <2>2
<1>5. TypeOK'
  BY <1>1, <1>2, <1>3 DEF TypeOK
<1>6. adjacent[v] = graph[v] \cap tempGraph /\ adjacent[v] \subseteq tempGraph
  BY <1>1 DEF TempExact
<1>7. v \notin adjacent[v] /\ adjacent'[v] = adjacent[v]
  BY <1>2, <1>6 DEF GraphOK
<1>8. \A u \in OnStack : u \notin adjacent[v] /\ adjacent'[u] = adjacent[u]
  <2>1. OnStack \subseteq Values
    BY <1>3 DEF OnStack
  <2>2. tempGraph \cap OnStack = {}
    BY <1>1 DEF Accounted
  <2>3. QED
    BY <1>2, <1>6, <2>1, <2>2
<1>9. GraphOK' /\ BuildOK' /\ PhaseOK' /\ KeysOK' /\ NoConflictShared' /\ LowDegreeKept'
  BY <1>1 DEF GraphOK, BuildOK, PhaseOK, KeysOK, NoConflictShared, LowDegreeKept
<1>10. Accounted'
  <2>1. \A i, j \in DOMAIN variableWithRegs' :
          variableWithRegs'[i] = variableWithRegs'[j] => i = j
    <3>1. \A i \in 2 .. Len(variableWithRegs) + 1 : variableWithRegs'[i] \in OnStack
      BY <1>3 DEF OnStack
    <3>2. v \notin OnStack
      BY <1>1 DEF Accounted
    <3>3. ASSUME NEW i \in 2 .. Len(variableWithRegs) + 1,
                 NEW j \in 2 .. Len(variableWithRegs) + 1,
                 variableWithRegs'[i] = variableWithRegs'[j]
          PROVE  i = j
      BY <1>1, <1>3, <3>3 DEF Accounted
    <3>4. \A i \in DOMAIN variableWithRegs' : i = 1 \/ i \in 2 .. Len(variableWithRegs) + 1
      BY <1>3
    <3>5. QED
      BY <1>3, <3>1, <3>2, <3>3, <3>4
  <2>2. QED
    BY <1>1, <1>4, <2>1 DEF Accounted
<1>11. TempExact'
  <2> SUFFICES ASSUME NEW u \in tempGraph' PROVE adjacent'[u] = graph[u] \cap tempGraph'
    BY <1>1 DEF TempExact
  <2>1. u \in tempGraph /\ u # v /\ u \in Values /\ adjacent[u] = graph[u] \cap tempGraph
    BY <1>1 DEF TempExact, TypeOK
  <2>2. v \in graph[u] <=> u \in adjacent[v]
    BY <1>6, <2>1 DEF GraphOK
  <2>3. QED
    BY <1>1, <1>2, <2>1, <2>2
<1>12. AdjacentSub'
  BY <1>1, <1>2 DEF AdjacentSub
<1>13. StackSees'
  <2>1. ASSUME NEW w \in OnStack', NEW u \in tempGraph' \cup DOMAIN variableRegs', u \in graph[w]
        PROVE  u \in adjacent'[w]
    <3>1. CASE w = v
      BY <3>1, <2>1, <1>1, <1>6, <1>7 DEF PhaseOK
    <3>2. CASE w \in OnStack
      BY <3>2, <2>1, <1>1, <1>8 DEF StackSees
    <3>3. QED
      BY <3>1, <3>2, <1>4
  <2>2. ASSUME NEW i \in DOMAIN variableWithRegs', NEW j \in DOMAIN variableWithRegs', i < j,
               variableWithRegs'[i] \in graph[variableWithRegs'[j]]
        PROVE  variableWithRegs'[i] \in adjacent'[variableWithRegs'[j]]
    <3>1. /\ j \in 2 .. Len(variableWithRegs) + 1
          /\ variableWithRegs'[j] = variableWithRegs[j - 1] /\ j - 1 \in DOMAIN variableWithRegs
          /\ variableWithRegs'[j] \in OnStack
      BY <2>2, <1>3 DEF OnStack
    <3>2. CASE i = 1
      BY <3>1, <3>2, <2>2, <1>1, <1>3, <1>8 DEF StackSees
    <3>3. CASE i # 1
      <4>1. /\ i \in 2 .. Len(variableWithRegs) + 1 /\ i - 1 < j - 1
            /\ variableWithRegs'[i] = variableWithRegs[i - 1] /\ i - 1 \in DOMAIN variableWithRegs
        BY <3>3, <2>2, <3>1, <1>3
      <4>2. QED
        BY <4>1, <3>1, <2>2, <1>8 DEF StackSees
    <3>4. QED
      BY <3>2, <3>3
  <2>3. QED
    BY <2>1, <2>2, <1>1 DEF StackSees
<1>14. StackLow'
  BY <1>1, <1>4, <1>7, <1>8 DEF StackLow
<1>15. QED
  BY <1>5, <1>9, <1>10, <1>11, <1>12, <1>13, <1>14

LEMMA SpillIInv ==
  ASSUME NEW v \in Values, IInv, Spill(v)
  PROVE  IInv'
<1> USE DEF IInv
<1>1. /\ pc = "simplify" /\ pc' = pc /\ v \in tempGraph
      /\ tempGraph' = tempGraph \ {v}
      /\ conflictGraph' = conflictGraph \ {v}
      /\ variableWithoutReg' = variableWithoutReg \cup {v}
      /\ graph' = graph /\ variableWithRegs' = variableWithRegs
      /\ variableRegs' = variableRegs /\ OnStack' = OnStack
      /\ ~(Cardinality(adjacent[v]) < GLB_REG_CNT)
  BY DEF Spill, Simplifiable, OnStack
<1>2. /\ adjacent' \in [Values -> SUBSET Values]
      /\ \A u \in Values : adjacent'[u] = IF u \in adjacent[v] THEN adjacent[u] \ {v}
                                                              ELSE adjacent[u]
  BY DEF Spill, Erase, TypeOK
<1>3. OnStack \subseteq Values /\ tempGraph \cap OnStack = {}
  BY <1>1 DEF OnStack, TypeOK, Accounted
<1>4. adjacent[v] = graph[v] \cap tempGraph
  BY <1>1 DEF TempExact
<1>5. \A u \in OnStack : adjacent'[u] = adjacent[u]
  BY <1>2, <1>3, <1>4
<1>6. TypeOK'
  BY <1>1, <1>2 DEF TypeOK
<1>7. GraphOK' /\ BuildOK' /\ PhaseOK' /\ KeysOK' /\ NoConflictShared'
  BY <1>1 DEF GraphOK, BuildOK, PhaseOK, KeysOK, NoConflictShared
<1>8. Accounted'
  BY <1>1, <1>3 DEF Accounted, PhaseOK
<1>9. TempExact'
  <2> SUFFICES ASSUME NEW u \in tempGraph' PROVE adjacent'[u] = graph[u] \cap tempGraph'
    BY <1>1 DEF TempExact
  <2>1. u \in tempGraph /\ u # v /\ u \in Values /\ adjacent[u] = graph[u] \cap tempGraph
    BY <1>1 DEF TempExact, TypeOK
  <2>2. v \in graph[u] <=> u \in adjacent[v]
    BY <1>4, <2>1 DEF GraphOK
  <2>3. QED
    BY <1>1, <1>2, <2>1, <2>2
<1>10. AdjacentSub'
  BY <1>1, <1>2 DEF AdjacentSub
<1>11. StackSees'
  <2>1. \A i \in DOMAIN variableWithRegs : variableWithRegs[i] \in OnStack
    BY DEF OnStack
  <2>2. QED
    BY <1>1, <1>5, <2>1 DEF StackSees
<1>12. StackLow'
  BY <1>1, <1>5 DEF StackLow
<1>13. LowDegreeKept'
  <2>1. graph[v] \in SUBSET Values /\ adjacent[v] \in SUBSET graph[v]
    BY DEF TypeOK, AdjacentSub
  <2>2. Cardinality(graph[v]) >= GLB_REG_CNT
    BY <2>1, <1>1, FiniteSubsets, RegCountNat
  <2>3. QED
    BY <2>2, <1>1 DEF LowDegreeKept
<1>14. QED
  BY <1>6, <1>7, <1>8, <1>9, <1>10, <1>11, <1>12, <1>13

LEMMA StartSelectIInv == IInv /\ StartSelect => IInv'
<1> SUFFICES ASSUME IInv, StartSelect PROVE IInv'
  OBVIOUS
<1> USE DEF IInv
<1>1. /\ pc = "simplify" /\ pc' = "select" /\ tempGraph = {}
      /\ graph' = graph /\ adjacent' = adjacent /\ tempGraph' = tempGraph
      /\ conflictGraph' = conflictGraph /\ variableWithRegs' = variableWithRegs
      /\ variableRegs' = variableRegs /\ variableWithoutReg' = variableWithoutReg
      /\ OnStack' = OnStack
  BY DEF StartSelect, OnStack
<1>2. TypeOK'
  BY <1>1 DEF TypeOK
<1>3. GraphOK' /\ BuildOK' /\ PhaseOK' /\ KeysOK' /\ NoConflictShared' /\ LowDegreeKept'
  BY <1>1 DEF GraphOK, BuildOK, PhaseOK, KeysOK, NoConflictShared, LowDegreeKept
<1>4. Accounted'
  BY <1>1 DEF Accounted
<1>5. TempExact' /\ AdjacentSub' /\ StackSees' /\ StackLow'
  BY <1>1 DEF TempExact, AdjacentSub, StackSees, StackLow
<1>6. QED
  BY <1>2, <1>3, <1>4, <1>5

(* When a value is coloured, every coloured neighbour of it is in the set  *)
(* the code consults, and a register is free.                              *)
LEMMA SelectSees ==
  ASSUME IInv, pc = "select", variableWithRegs # <<>>
  PROVE  LET v == Head(variableWithRegs) IN
         /\ v \in Values /\ v \in OnStack
         /\ \A u \in DOMAIN variableRegs : u \in graph[v] => u \in adjacent[v]
         /\ FreeRegisters(v) # {}
<1> USE DEF IInv
<1> DEFINE v == Head(variableWithRegs)
<1>1. v \in Values /\ v \in OnStack
  BY PopFacts DEF TypeOK, OnStack
<1>2. \A u \in DOMAIN variableRegs : u \in graph[v] => u \in adjacent[v]
  BY <1>1 DEF StackSees
<1>3. FreeRegisters(v) # {}
  <2> DEFINE A == adjacent[v] \cap DOMAIN variableRegs
  <2>1. adjacent[v] \in SUBSET Values /\ A \in SUBSET adjacent[v]
    BY <1>1 DEF TypeOK
  <2>2. Cardinality(adjacent[v]) < GLB_REG_CNT
    BY <1>1 DEF StackLow
  <2>3. IsFiniteSet(A) /\ Cardinality(A) < GLB_REG_CNT
    <3> HIDE DEF A
    <3>1. QED
      BY <2>1, <2>2, FiniteSubsets, RegCountNat
  <2>4. Registers \ {variableRegs[u] : u \in A} # {}
    <3> HIDE DEF A
    <3>1. QED
      BY <2>3, SmallImage
  <2>5. QED
    BY <2>4 DEF FreeRegisters
<1>4. QED
  BY <1>1, <1>2, <1>3

LEMMA SelectIInv == IInv /\ Select => IInv'
<1> SUFFICES ASSUME IInv, Select PROVE IInv'
  OBVIOUS
<1> USE DEF IInv
<1> DEFINE v == Head(variableWithRegs)
           D == DOMAIN variableRegs
<1>1. /\ pc = "select" /\ pc' = pc /\ variableWithRegs # <<>>
      /\ variableWithRegs' = Tail(variableWithRegs)
      /\ graph' = graph /\ adjacent' = adjacent /\ tempGraph' = tempGraph
      /\ conflictGraph' = conflictGraph /\ variableWithoutReg' = variableWithoutReg
      /\ tempGraph = {}
  BY DEF Select, PhaseOK
<1>2. /\ v \in Values /\ v \in OnStack
      /\ \A u \in D : u \in graph[v] => u \in adjacent[v]
      /\ FreeRegisters(v) # {}
  BY <1>1, SelectSees
<1>3. PICK r \in FreeRegisters(v) :
        variableRegs' = [u \in D \cup {v} |-> IF u = v THEN r ELSE variableRegs[u]]
  BY <1>2 DEF Select, Chosen
<1>4. r \in Registers /\ \A u \in D : u \in graph[v] => variableRegs[u] # r
  BY <1>2, <1>3 DEF FreeRegisters
<1>5. /\ DOMAIN variableRegs' = D \cup {v}
      /\ variableRegs'[v] = r
      /\ \A u \in D : u # v => variableRegs'[u] = variableRegs[u]
  BY <1>3
<1>6. /\ variableWithRegs \in Seq(Values)
      /\ variableWithRegs' \in Seq(Values)
      /\ 1 \in DOMAIN variableWithRegs /\ variableWithRegs[1] = v
      /\ \A i \in DOMAIN variableWithRegs' :
           i + 1 \in DOMAIN variableWithRegs /\ variableWithRegs'[i] = variableWithRegs[i + 1]
      /\ \A i \in DOMAIN variableWithRegs :
           i # 1 => i - 1 \in DOMAIN variableWithRegs' /\ variableWithRegs'[i - 1] = variableWithRegs[i]
  BY <1>1, PopFacts DEF TypeOK
<1>7. /\ \A i \in DOMAIN variableWithRegs' : i \in Nat /\ i >= 1
      /\ \A i \in DOMAIN variableWithRegs : i \in Nat /\ i >= 1
  BY <1>6
<1>8. v \notin OnStack'
  <2>1. ASSUME NEW i \in DOMAIN variableWithRegs', variableWithRegs'[i] = v PROVE FALSE
    <3>1. i + 1 = 1
      BY <2>1, <1>1, <1>6 DEF Accounted
    <3>2. QED
      BY <3>1, <1>7
  <2>2. QED
    BY <2>1 DEF OnStack
<1>9. OnStack = OnStack' \cup {v}
  BY <1>6 DEF OnStack
<1>10. TypeOK'
  BY <1>1, <1>2, <1>3, <1>4, <1>5, <1>6 DEF TypeOK
<1>11. GraphOK' /\ BuildOK' /\ PhaseOK' /\ KeysOK' /\ LowDegreeKept' /\ TempExact' /\ AdjacentSub'
  BY <1>1 DEF GraphOK, BuildOK, PhaseOK, KeysOK, LowDegreeKept, TempExact, AdjacentSub
<1>12. Accounted'
  <2>1. \A i, j \in DOMAIN variableWithRegs' :
          variableWithRegs'[i] = variableWithRegs'[j] => i = j
    <3>1. ASSUME NEW i \in DOMAIN variableWithRegs', NEW j \in DOMAIN variableWithRegs',
                 variableWithRegs'[i] = variableWithRegs'[j]
          PROVE  i + 1 = j + 1
      BY <3>1, <1>1, <1>6 DEF Accounted
    <3>2. QED
      BY <3>1, <1>7
  <2>2. QED
    BY <2>1, <1>1, <1>2, <1>5, <1>8, <1>9 DEF Accounted
<1>13. NoConflictShared'
  <2> SUFFICES ASSUME NEW a \in D \cup {v}, NEW b \in D \cup {v}, b \in graph[a]
               PROVE  variableRegs'[a] # variableRegs'[b]
    BY <1>1, <1>5 DEF NoConflictShared
  <2>1. a \in Values /\ b \in Values /\ a # b /\ a \in graph[b]
    BY <1>2 DEF TypeOK, GraphOK
  <2>2. QED
    BY <2>1, <1>4, <1>5 DEF NoConflictShared
<1>14. StackSees'
  <2>1. ASSUME NEW w \in OnStack', NEW u \in D \cup {v}, u \in graph[w]
        PROVE  u \in adjacent[w]
    <3>1. CASE u \in D
      BY <3>1, <2>1, <1>9 DEF StackSees
    <3>2. CASE u = v
      <4>1. PICK i \in DOMAIN variableWithRegs' : variableWithRegs'[i] = w
        BY <2>1 DEF OnStack
      <4>2. /\ i + 1 \in DOMAIN variableWithRegs /\ variableWithRegs[i + 1] = w /\ 1 < i + 1
        BY <4>1, <1>6, <1>7
      <4>3. QED
        BY <4>2, <3>2, <2>1, <1>6 DEF StackSees
    <3>3. QED
      BY <3>1, <3>2
  <2>2. ASSUME NEW i \in DOMAIN variableWithRegs', NEW j \in DOMAIN variableWithRegs', i < j,
               variableWithRegs'[i] \in graph[variableWithRegs'[j]]
        PROVE  variableWithRegs'[i] \in adjacent[variableWithRegs'[j]]
    <3>1. i + 1 < j + 1
      BY <2>2, <1>7
    <3>2. QED
      BY <3>1, <2>2, <1>6 DEF StackSees
  <2>3. QED
    BY <2>1, <2>2, <1>1, <1>5 DEF StackSees
<1>15. StackLow'
  BY <1>1, <1>9 DEF StackLow
<1>16. QED
  BY <1>10, <1>11, <1>12, <1>13, <1>14, <1>15

LEMMA BuildTimeoutIInv == IInv /\ BuildTimeout => IInv'
<1> SUFFICES ASSUME IInv, BuildTimeout PROVE IInv'
  OBVIOUS
<1> USE DEF IInv
<1>1. PICK E \in SUBSET Edges : graph' = Neighbours(E)
  BY DEF BuildTimeout
<1>2. /\ pc' = "done" /\ adjacent' = adjacent /\ tempGraph' = {}
      /\ conflictGraph' = Values /\ variableWithRegs' = <<>>
      /\ variableRegs' = <<>> /\ variableWithoutReg' = {}
      /\ graph = NoConflict
  BY DEF BuildTimeout, BuildOK
<1>3. graph' \in [Values -> SUBSET Values] /\ GraphOK'
  BY <1>1 DEF Neighbours, GraphOK
<1>4. TypeOK'
  BY <1>2, <1>3 DEF TypeOK
<1>5. BuildOK' /\ PhaseOK' /\ KeysOK' /\ NoConflictShared' /\ LowDegreeKept'
  BY <1>2 DEF BuildOK, PhaseOK, KeysOK, NoConflictShared, LowDegreeKept
<1>6. Accounted' /\ StackSees' /\ StackLow' /\ TempExact'
  BY <1>2 DEF Accounted, StackSees, StackLow, OnStack, TempExact
<1>7. AdjacentSub'
  BY <1>2, <1>3 DEF AdjacentSub, NoConflict
<1>8. QED
  BY <1>3, <1>4, <1>5, <1>6, <1>7

LEMMA FinishIInv == IInv /\ Finish => IInv'
<1> SUFFICES ASSUME IInv, Finish PROVE IInv'
  OBVIOUS
<1> USE DEF IInv
<1>1. /\ pc' = "done"
      /\ graph' = graph /\ adjacent' = adjacent /\ tempGraph' = tempGraph
      /\ conflictGraph' = conflictGraph /\ variableWithRegs' = variableWithRegs
      /\ variableRegs' = variableRegs /\ variableWithoutReg' = variableWithoutReg
      /\ OnStack' = OnStack
  BY DEF Finish, OnStack
<1>2. TypeOK'
  BY <1>1 DEF TypeOK
<1>3. tempGraph = {} /\ variableWithRegs = <<>>
  BY DEF Finish, PhaseOK
<1>4. GraphOK' /\ BuildOK' /\ PhaseOK' /\ KeysOK' /\ NoConflictShared' /\ LowDegreeKept'
  BY <1>1, <1>3 DEF GraphOK, BuildOK, PhaseOK, KeysOK, NoConflictShared, LowDegreeKept
<1>5. Accounted' /\ TempExact' /\ AdjacentSub' /\ StackSees' /\ StackLow'
  BY <1>1 DEF Accounted, TempExact, AdjacentSub, StackSees, StackLow
<1>6. QED
  BY <1>2, <1>4, <1>5

LEMMA NextIInv == IInv /\ [Next]_vars => IInv'
<1> SUFFICES ASSUME IInv, [Next]_vars PROVE IInv'
  OBVIOUS
<1>1. CASE BuildConflictGraph
  BY <1>1, BuildConflictGraphIInv
<1>2. CASE BuildTimeout \/ Finish
  BY <1>2, BuildTimeoutIInv, FinishIInv
<1>3. ASSUME NEW v \in Values, Simplify(v) PROVE IInv'
  BY <1>3, SimplifyIInv
<1>4. ASSUME NEW v \in Values, Spill(v) PROVE IInv'
  BY <1>4, SpillIInv
<1>5. CASE StartSelect
  BY <1>5, StartSelectIInv
<1>6. CASE Select
  BY <1>6, SelectIInv
<1>7. CASE UNCHANGED vars
  <2>1. /\ pc' = pc
        /\ graph' = graph /\ adjacent' = adjacent /\ tempGraph' = tempGraph
        /\ conflictGraph' = conflictGraph /\ variableWithRegs' = variableWithRegs
        /\ variableRegs' = variableRegs /\ variableWithoutReg' = variableWithoutReg
        /\ OnStack' = OnStack
    BY <1>7 DEF vars, OnStack
  <2>2. TypeOK' /\ GraphOK' /\ BuildOK' /\ PhaseOK' /\ Accounted' /\ TempExact'
    BY <2>1 DEF IInv, TypeOK, GraphOK, BuildOK, PhaseOK, Accounted, TempExact
  <2>3. AdjacentSub' /\ StackSees' /\ StackLow' /\ KeysOK' /\ NoConflictShared' /\ LowDegreeKept'
    BY <2>1 DEF IInv, AdjacentSub, StackSees, StackLow, KeysOK, NoConflictShared, LowDegreeKept
  <2>4. QED
    BY <2>2, <2>3 DEF IInv
<1>8. QED
  BY <1>1, <1>2, <1>3, <1>4, <1>5, <1>6, <1>7 DEF Next

-----------------------------------------------------------------------------
(* What the invariant gives.                                               *)

LEMMA SpecIInv == Spec => []IInv
<1>1. Init => IInv
  BY InitIInv
<1>2. IInv /\ [Next]_vars => IInv'
  BY NextIInv
<1>3. QED
  BY <1>1, <1>2, PTL DEF Spec

(* The state of the allocator keeps its shape.                             *)
THEOREM TypeCorrect == Spec => []TypeOK
<1>1. IInv => TypeOK
  BY DEF IInv
<1>2. QED
  BY <1>1, SpecIInv, PTL

(* Conflicting values never share a register, for every conflict graph,    *)
(* every iteration order and every number of registers: reading the eroded *)
(* neighbour sets in allocRegister is sound.                               *)
THEOREM ConflictFree == Spec => []NoConflictShared
<1>1. IInv => NoConflictShared
  BY DEF IInv
<1>2. QED
  BY <1>1, SpecIInv, PTL

(* regs.begin() is never dereferenced on an empty set.                     *)
THEOREM NeverOutOfRegisters == Spec => []RegisterLeft
<1>1. IInv => RegisterLeft
  BY SelectSees DEF RegisterLeft
<1>2. QED
  BY <1>1, SpecIInv, PTL

(* No value is lost, and none is decided twice.                            *)
THEOREM AllAccounted == Spec => []Accounted
<1>1. IInv => Accounted
  BY DEF IInv
<1>2. QED
  BY <1>1, SpecIInv, PTL

(* No at() on the two graphs throws.                                       *)
THEOREM NoMissingKey == Spec => []KeysPresent
<1>1. IInv => KeysPresent
  <2> SUFFICES ASSUME IInv PROVE KeysPresent
    OBVIOUS
  <2> USE DEF IInv
  <2>1. \A v \in tempGraph : adjacent[v] \subseteq tempGraph
    BY DEF TempExact
  <2>2. CASE pc \in {"build", "done"}
    BY <2>1, <2>2 DEF KeysPresent, BuildOK, PhaseOK, OnStack
  <2>3. CASE pc \in {"simplify", "select"}
    <3>1. OnStack \subseteq Values /\ tempGraph \subseteq Values
      BY DEF OnStack, TypeOK
    <3>2. QED
      BY <2>1, <2>3, <3>1 DEF KeysPresent, KeysOK, Accounted
  <2>4. QED
    BY <2>2, <2>3 DEF TypeOK
<1>2. QED
  BY <1>1, SpecIInv, PTL

(* Only a value with at least GLB_REG_CNT conflicts stays in memory.       *)
THEOREM SpillsOnlyHighDegree == Spec => []LowDegreeKept
<1>1. IInv => LowDegreeKept
  BY DEF IInv
<1>2. QED
  BY <1>1, SpecIInv, PTL

-----------------------------------------------------------------------------
(* Steps: what a step of the allocator never does, and what it is          *)
(* abstractly.                                                             *)

(* A neighbour set is not touched any more once its value is on the stack. *)
THEOREM StackFrozen == Spec => FrozenOnStack
<1> DEFINE Frozen == \A v \in OnStack \cap OnStack' : adjacent'[v] = adjacent[v]
<1>1. ASSUME IInv, [Next]_vars PROVE [Frozen]_vars
  <2> USE <1>1 DEF IInv
  <2>1. CASE BuildConflictGraph
    <3>1. OnStack = {}
      BY <2>1 DEF BuildConflictGraph, BuildOK, OnStack
    <3>2. QED
      BY <3>1
  <2>2. CASE BuildTimeout \/ StartSelect \/ Select \/ Finish
    BY <2>2 DEF BuildTimeout, StartSelect, Select, Finish
  <2>3. ASSUME NEW v \in Values, Simplify(v) \/ Spill(v) PROVE Frozen
    <3>1. pc = "simplify" /\ v \in tempGraph /\ adjacent' = Erase(adjacent, v, adjacent[v])
      BY <2>3 DEF Simplify, Spill
    <3>2. OnStack \subseteq Values /\ tempGraph \cap OnStack = {}
      BY <3>1 DEF OnStack, TypeOK, Accounted
    <3>3. adjacent[v] \subseteq tempGraph
      BY <3>1 DEF TempExact
    <3>4. QED
      BY <3>1, <3>2, <3>3 DEF Erase
  <2>4. CASE UNCHANGED vars
    BY <2>4
  <2>5. QED
    BY <2>1, <2>2, <2>3, <2>4 DEF Next
<1>2. QED
  BY <1>1, SpecIInv, PTL DEF Spec, FrozenOnStack

(* allocRegister implements the abstract allocation: building the graph,   *)
(* in time or not, is Learn, popping is Assign, spilling is Abandon, the   *)
(* rest is stuttering.                                                     *)
THEOREM Refinement == Spec => ImplementsAllocation
<1>1. Init => Abstract!Init
  BY DEF Init, Abstract!Init, NoConflict, Abstract!NoConflict
<1>2. ASSUME IInv, [Next]_vars PROVE [Abstract!Next]_(Abstract!vars)
  <2> USE <1>2 DEF IInv
  <2>1. CASE BuildConflictGraph \/ BuildTimeout
    <3>1. variableRegs = <<>> /\ variableWithoutReg = {} /\ graph = NoConflict
      BY <2>1 DEF BuildConflictGraph, BuildTimeout, BuildOK
    <3>2. graph' \in [Values -> SUBSET Values]
      BY <2>1 DEF BuildConflictGraph, BuildTimeout, Neighbours
    <3>3. Abstract!Decided = {}
      BY <3>1 DEF Abstract!Decided
    <3>4. Abstract!Learn
      BY <2>1, <3>1, <3>2, <3>3
      DEF BuildConflictGraph, BuildTimeout, Abstract!Learn, NoConflict, Abstract!NoConflict
    <3>5. QED
      BY <3>4 DEF Abstract!Next
  <2>2. CASE StartSelect \/ Finish
    BY <2>2 DEF StartSelect, Finish, Abstract!vars
  <2>3. ASSUME NEW v \in Values, Simplify(v) PROVE UNCHANGED Abstract!vars
    BY <2>3 DEF Simplify, Abstract!vars
  <2>4. ASSUME NEW v \in Values, Spill(v) PROVE Abstract!Next
    <3>1. v \notin DOMAIN variableRegs \cup variableWithoutReg
      BY <2>4 DEF Spill, Accounted
    <3>2. Abstract!Abandon(v)
      BY <2>4, <3>1 DEF Spill, Abstract!Abandon, Abstract!Decided
    <3>3. QED
      BY <3>2 DEF Abstract!Next
  <2>5. CASE Select
    <3> DEFINE v == Head(variableWithRegs)
    <3>1. /\ pc = "select" /\ variableWithRegs # <<>>
      BY <2>5 DEF Select
    <3>2. /\ v \in Values /\ v \in OnStack
          /\ \A u \in DOMAIN variableRegs : u \in graph[v] => u \in adjacent[v]
          /\ FreeRegisters(v) # {}
      BY <3>1, SelectSees
    <3>3. v \notin DOMAIN variableRegs \cup variableWithoutReg
      BY <3>1, <3>2 DEF Accounted
    <3>4. PICK r \in FreeRegisters(v) :
            variableRegs' = [u \in DOMAIN variableRegs \cup {v} |->
                               IF u = v THEN r ELSE variableRegs[u]]
      BY <2>5, <3>2 DEF Select, Chosen
    <3>5. r \in Registers /\ \A u \in graph[v] \cap DOMAIN variableRegs : variableRegs[u] # r
      BY <3>2, <3>4 DEF FreeRegisters
    <3>6. Abstract!Assign(v, r)
      BY <2>5, <3>3, <3>4, <3>5 DEF Select, Abstract!Assign, Abstract!Decided
    <3>7. QED
      BY <3>2, <3>5, <3>6 DEF Abstract!Next
  <2>6. CASE UNCHANGED vars
    BY <2>6 DEF vars, Abstract!vars
  <2>7. QED
    BY <2>1, <2>2, <2>3, <2>4, <2>5, <2>6 DEF Next
<1>3. QED
  BY <1>1, <1>2, SpecIInv, PTL DEF Spec, ImplementsAllocation, Abstract!Spec

=============================================================================
