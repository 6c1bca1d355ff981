-------------------------- MODULE MCConflictGraph --------------------------
(***************************************************************************)
(* ConflictGraph for every function over a few control-flow graphs of four *)
(* blocks, with values made in any block, used in at most MaxUses of the   *)
(* blocks their definition dominates, by at most one operand of an         *)
(* instruction and by phis of any operands.  A function has some of the    *)
(* values of the constants: either instructions and one phi, or, in loops, *)
(* all the phis and no other instruction.                                  *)
(***************************************************************************)
EXTENDS ConflictGraph, Functions

CONSTANTS MaxUses, Graphs

Diamond  == <<{2, 3}, {4}, {4}, {}>>
Loop     == <<{2}, {3, 4}, {2}, {}>>
Nested   == <<{2}, {3, 4}, {2, 3}, {}>>
Break    == <<{2}, {3, 4}, {2, 4}, {}>>
Postloop == <<{2}, {2, 3}, {4}, {}>>

AllGraphs == {Diamond, Loop, Nested, Break, Postloop}

PredsIn(s, b) == {a \in Blocks : b \in s[a]}

Above(s, a, b) == Dominates([successors |-> s], a, b)

(* v is made before the instruction that makes w.                          *)
Before(s, d, v, w) ==
  IF d[v] = d[w] THEN v \in Params \cup Phis \/ v < w ELSE Above(s, d[v], d[w])

(* Instructions are in the order of their numbers.                         *)
MadeOf(d) == [b \in Blocks |-> SetToSortSeq({v \in Ordinary : d[v] = b}, <)]

Present(d) == {v \in Variables : d[v] # None}

(* The blocks the values P are made in: phis where several ways meet.      *)
Homes(s, P) ==
  {d \in [Variables -> Blocks \cup {None}] :
     /\ Present(d) = Params \cup P
     /\ \A v \in Params : d[v] = 1
     /\ \A p \in Phis \cap P : Cardinality(PredsIn(s, d[p])) > 1}

EndUses(s, d) ==
  LET few == {U \in SUBSET Blocks : Cardinality(U) <= MaxUses}
  IN  {[b \in Blocks |-> {v \in Present(d) : b \in u[v]}] :
         u \in {u \in [Present(d) -> few] : \A v \in Present(d) : \A b \in u[v] : Above(s, d[v], b)}}

Operands(s, d) ==
  {o \in [Ordinary -> {{}} \cup {{v} : v \in Present(d)}] :
     \A w \in Ordinary : w \notin o[w] /\ \A v \in o[w] : d[w] # None /\ Before(s, d, v, w)}

(* A phi of a single value would have been removed as trivial.  Absent is  *)
(* a phi the function does without.                                        *)
Absent == [block |-> None, operands |-> <<>>]

PhiRecords(s, d, p) ==
  IF d[p] = None THEN {Absent}
  ELSE {[block |-> d[p], operands |-> o] :
          o \in {o \in [PredsIn(s, d[p]) -> Present(d) \cup {None}] :
                  /\ \E a, b \in DOMAIN o : o[a] # o[b] /\ p \notin {o[a], o[b]}
                  /\ \A a \in DOMAIN o : o[a] # None => Above(s, d[o[a]], a)}}

PhiChoices(s, d) ==
  LET records == [p \in Phis |-> PhiRecords(s, d, p)]
  IN  {f \in [Phis -> UNION Range(records)] : \A p \in Phis : f[p] \in records[p]}

FunctionsOf(s, d) ==
  [successors : {s}, block : {d}, made : {MadeOf(d)}, operands : Operands(s, d), ends : EndUses(s, d), phi : PhiChoices(s, d)]

(* Every value but a parameter has a user: dead_code_delete leaves no other *)
(* instruction (a call nobody uses the result of has OTHER_RESULT).         *)
Needed(f) ==
  \A v \in Present(f.block) \ Params :
    \/ \E b \in Blocks : v \in f.ends[b]
    \/ \E w \in Ordinary : v \in f.operands[w]
    \/ \E p \in Phis : \E a \in DOMAIN f.phi[p].operands : f.phi[p].operands[a] = v

(* The values a function over s may have. *)
Mixtures(s) ==
  {Ordinary \cup {p} : p \in {p \in Phis : \A q \in Phis : p <= q}}
    \cup (IF Phis = {} THEN {Ordinary} ELSE IF s \in {Loop, Nested} THEN {Phis} ELSE {})

MCFunctions == {f \in UNION {UNION {FunctionsOf(s, d) : d \in UNION {Homes(s, P) : P \in Mixtures(s)}} :
                              s \in Graphs} : Needed(f)}
=============================================================================
