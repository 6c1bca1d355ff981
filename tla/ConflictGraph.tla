--------------------------- MODULE ConflictGraph ---------------------------
(***************************************************************************)
(* From a function in SSA form to the conflict graph its registers are     *)
(* allocated with: phi_elimination of ir/ir_utils.cpp, then                *)
(* buildConflictGraph of optimize/ir/register_alloc.cpp.                   *)
(*                                                                         *)
(* The graph decides which values may share a register, and the alive sets *)
(* which registers a call saves.  Both are found without a liveness        *)
(* analysis: each value is marked along every path to each of its users,   *)
(* in two resolutions, for whole blocks (blockAlive) and for single        *)
(* instructions (alive).  The properties compare the result with the       *)
(* textbook definition of liveness.                                        *)
(*                                                                         *)
(* The values are those with a left-value result: parameters, ordinary     *)
(* instructions, phis, and the phi_mov of each phi, which is one           *)
(* instruction object that stands in several blocks.  A function is a      *)
(* record: its successors, the block each value is made in, the ordinary   *)
(* values of each block in their order and the operands of each, the       *)
(* values the end of each block uses, and its phis.                        *)
(*                                                                         *)
(* Memoised paths (blockPath) and the time limit, after which nothing is   *)
(* allocated (BuildTimeout of RegisterAlloc), are left out.                *)
(***************************************************************************)
EXTENDS Integers, Sequences, FiniteSets, SequencesExt

CONSTANTS
  Blocks,      \* numbers in the order of func->blocks; 1 is entryBlock
  Params,      \* the parameters
  Ordinary,    \* values of instructions that are not phis
  Phis,        \* values of phis
  Functions    \* the functions looked at

ASSUME ConstantsAssumption ==
  /\ 1 \in Blocks /\ \A b \in Blocks : b \in Nat /\ b > 0
  /\ \A v \in Params \cup Ordinary \cup Phis : v \in Nat /\ v > 0
  /\ Params \cap Ordinary = {} /\ (Params \cup Ordinary) \cap Phis = {}

VARIABLES
  pc,            \* "eliminate", "mark", "edges", "merge" or "done"
  func,          \* the function, a member of Functions
  code,          \* the instructions of each block
  alive,         \* aliveValues (of a phi_mov: blockALiveValues) per instruction
  blockAlive,    \* aliveValues of each block
  todo,          \* phis to eliminate, then definitions left to visit
  current,       \* the definition visited
  targets,       \* places the value of current must still be marked to
  conflictGraph  \* the neighbours of each value

vars == <<pc, func, code, alive, blockAlive, todo, current, targets, conflictGraph>>

None == 0
Mov(p) == -p
Variables == Params \cup Ordinary \cup Phis

Preds(f, b) == {a \in Blocks : b \in f.successors[a]}
PhisOf(f) == {p \in Phis : f.phi[p].block # None}

Ins(type, value, operands) == [type |-> type, value |-> value, operands |-> operands]

(* The end of a block: what uses values, then the jump.                    *)
Ending(f, b) ==
  LET used == f.ends[b] IN
    CASE f.successors[b] = {} -> <<Ins("RET", None, used)>>
      [] Cardinality(f.successors[b]) = 1 ->
           IF used = {} THEN <<Ins("JMP", None, {})>> ELSE <<Ins("STORE", None, used), Ins("JMP", None, {})>>
      [] OTHER ->
           IF used = {} THEN <<Ins("BR", None, {})>> ELSE <<Ins("CMP", None, used), Ins("BR", None, {})>>

CodeOf(f, b) ==
  LET made == f.made[b]
  IN  [i \in DOMAIN made |-> Ins("INS", made[i], f.operands[made[i]])] \o Ending(f, b)

-----------------------------------------------------------------------------
(* getBlockReachableBlocks: what can be reached from b without entering    *)
(* cannotArrive.                                                           *)
Closed(f, b, cannotArrive, S) ==
  \A c \in {b} \cup S : f.successors[c] \ {cannotArrive} \subseteq S

Reachable(f, b, cannotArrive) ==
  LET solutions == {S \in SUBSET Blocks : Closed(f, b, cannotArrive, S)}
  IN  {c \in Blocks : \A S \in solutions : c \in S}

(* Mutant: a path may come back through the block it starts from.          *)
PathPointsLooping(f, from, to) ==
  {b \in Reachable(f, from, None) : to \in Reachable(f, b, None)}

(* getBlockPathPoints: the blocks on the ways from one block to another    *)
(* that do not return to the first; to itself only if it lies on a cycle.  *)
PathPoints(f, from, to) ==
  {b \in Reachable(f, from, from) : to \in Reachable(f, b, from)} \ {from}

-----------------------------------------------------------------------------
(* The functions looked at are what the optimizer leaves: every block can  *)
(* be reached from the entry, which is no target of a jump; a definition   *)
(* is on every way to its uses, and every value but a parameter is used.   *)

Dominates(f, a, b) == a = b \/ a = 1 \/ b \notin {1} \cup Reachable(f, 1, a)

Earlier(f, b, v, w) ==
  \E m, n \in DOMAIN f.made[b] : m < n /\ f.made[b][m] = v /\ f.made[b][n] = w

Used(f, v) ==
  \/ \E b \in Blocks : v \in f.ends[b]
  \/ \E w \in Ordinary : f.block[w] # None /\ v \in f.operands[w]
  \/ \E p \in PhisOf(f) : \E a \in Preds(f, f.phi[p].block) : v = f.phi[p].operands[a]

FunctionOK(f) ==
  /\ f.successors \in [Blocks -> SUBSET (Blocks \ {1})]
  /\ f.block \in [Variables -> Blocks \cup {None}]
  /\ f.made \in [Blocks -> Seq(Ordinary)]
  /\ f.operands \in [Ordinary -> SUBSET Variables]
  /\ f.ends \in [Blocks -> SUBSET Variables]
  /\ \A p \in Phis : f.phi[p].block = f.block[p]

LaidOut(f) ==
  /\ \A v \in Params : f.block[v] = 1
  /\ \A b \in Blocks, v \in Ordinary : f.block[v] = b <=> \E n \in DOMAIN f.made[b] : f.made[b][n] = v
  /\ \A b \in Blocks : \A m, n \in DOMAIN f.made[b] : f.made[b][m] = f.made[b][n] => m = n
  /\ \A p \in PhisOf(f) : f.phi[p].operands \in [Preds(f, f.phi[p].block) -> Variables \cup {None}]

(* An operand of an instruction of block b that is not in front of all of  *)
(* b has been made in b, or in a block that is on every way to b.          *)
MadeBefore(f, v, b) == f.block[v] # None /\ Dominates(f, f.block[v], b)

SsaForm(f) ==
  /\ \A b \in Blocks : b = 1 \/ b \in Reachable(f, 1, None)
  /\ \A w \in Ordinary : f.block[w] # None =>
       \A v \in f.operands[w] :
         /\ MadeBefore(f, v, f.block[w])
         /\ v \in Ordinary /\ f.block[v] = f.block[w] => Earlier(f, f.block[w], v, w)
  /\ \A b \in Blocks : \A v \in f.ends[b] : MadeBefore(f, v, b)
  /\ \A p \in PhisOf(f) : \A a \in Preds(f, f.phi[p].block) :
       f.phi[p].operands[a] # None => MadeBefore(f, f.phi[p].operands[a], a)
  /\ \A v \in Ordinary \cup Phis : f.block[v] # None => Used(f, v)

ASSUME FunctionsAssumption == \A f \in Functions : FunctionOK(f) /\ LaidOut(f) /\ SsaForm(f)

-----------------------------------------------------------------------------
(* phi_elimination.                                                        *)

(* Mutant: phi_mov goes between CMP and BR.                                *)
WithMovBeforeLast(instructions, mov) == InsertAt(instructions, Len(instructions), mov)

(* phi_mov goes before the jump, and before the CMP a branch tests.        *)
WithMov(instructions, mov) ==
  LET n == Len(instructions)
      tested == n > 1 /\ instructions[n].type = "BR" /\ instructions[n - 1].type = "CMP"
  IN  InsertAt(instructions, IF tested THEN n - 1 ELSE n, mov)

(* The phis of a block are taken in any order, the blocks in theirs.  One  *)
(* phi_mov enters every predecessor, the phi itself its block, in front.   *)
EliminatePhi(p) ==
  /\ pc = "eliminate"
  /\ p \in todo
  /\ \A q \in todo : func.phi[p].block <= func.phi[q].block
  /\ LET phi == func.phi[p]
         moved == [b \in Blocks |->
                     IF b \in DOMAIN phi.operands
                     THEN WithMov(code[b], Ins("PHI_MOV", Mov(p), {phi.operands[b]} \ {None}))
                     ELSE code[b]]
     IN  code' = [moved EXCEPT ![phi.block] = <<Ins("PHI", p, {Mov(p)})>> \o @]
  /\ todo' = todo \ {p}
  /\ UNCHANGED <<pc, func, alive, blockAlive, current, targets, conflictGraph>>

-----------------------------------------------------------------------------
(* buildConflictGraph: every value is marked alive up to each of its users. *)

At(pl) == code[pl[1]][pl[2]]
PlacesOf(c) == UNION {{<<b, i>> : i \in DOMAIN c[b]} : b \in Blocks}
Places == PlacesOf(code)

Def(value, place) == [value |-> value, place |-> place]

(* What makes a value: parameters, in front of the entry block's first     *)
(* instruction, and instructions.                                          *)
Definitions ==
  {Def(v, <<1, 0>>) : v \in Params} \cup {Def(At(pl).value, pl) : pl \in {pl \in Places : At(pl).value # None}}

(* They are visited in their order, parameters first.                      *)
Precedes(d, e) ==
  \/ d.place[1] < e.place[1]
  \/ d.place[1] = e.place[1] /\ d.place[2] < e.place[2]
  \/ d.place = e.place /\ d.value <= e.value

NextOf(d) == d \in todo /\ \A e \in todo : Precedes(d, e)

StartMarking ==
  /\ pc = "eliminate"
  /\ todo = {}
  /\ pc' = "mark"
  /\ alive' = [b \in Blocks |-> [i \in DOMAIN code[b] |-> {}]]
  /\ todo' = Definitions
  /\ UNCHANGED <<func, code, blockAlive, current, targets, conflictGraph>>

(* The users of a value; for a phi, the phi_movs that copy the value to it. *)
UsersOf(v) == {pl \in Places : At(pl).type # "PHI" /\ v \in At(pl).operands}

IsAlive(v, pl) == v \in blockAlive[pl[1]] \/ v \in alive[pl[1]][pl[2]]

Marked(marks, v, b, first, last) ==
  [marks EXCEPT ![b] = [i \in DOMAIN @ |-> @[i] \cup (IF i \in first .. last THEN {v} ELSE {})]]

Visit ==
  /\ pc = "mark" /\ targets = {}
  /\ \E d \in todo :
       /\ NextOf(d) /\ d.value > 0
       /\ current' = d
       /\ targets' = UsersOf(d.value)
       /\ todo' = todo \ {d}
  /\ UNCHANGED <<pc, func, code, alive, blockAlive, conflictGraph>>

PhiPlace(p) == CHOOSE pl \in Places : At(pl).value = p

(* A phi_mov is alive to the end of its block and, once, up to its phi.    *)
VisitPhiMov ==
  /\ pc = "mark" /\ targets = {}
  /\ \E d \in todo :
       LET mov == d.value
           b == d.place[1]
           phi == PhiPlace(-mov)
           rest == Marked(alive, mov, b, d.place[2] + 1, Len(code[b]))
           done == mov \in blockAlive[phi[1]] \/ mov \in rest[phi[1]][phi[2]]
       IN  /\ NextOf(d) /\ mov < 0
           /\ alive' = IF done THEN rest ELSE Marked(rest, mov, phi[1], 1, phi[2])
           /\ todo' = todo \ {d}
  /\ UNCHANGED <<pc, func, code, blockAlive, current, targets, conflictGraph>>

(* The user is known to have the value alive, so its paths are marked.     *)
SkipUser ==
  /\ pc = "mark"
  /\ \E pl \in targets :
       /\ IsAlive(current.value, pl)
       /\ targets' = targets \ {pl}
  /\ UNCHANGED <<pc, func, code, alive, blockAlive, todo, current, conflictGraph>>

(* Further on in the block of the definition: mark up to the user.         *)
MarkInBlock ==
  /\ pc = "mark"
  /\ \E pl \in targets :
       /\ ~IsAlive(current.value, pl)
       /\ pl[1] = current.place[1] /\ pl[2] > current.place[2]
       /\ alive' = Marked(alive, current.value, pl[1], current.place[2] + 1, pl[2])
       /\ targets' = targets \ {pl}
  /\ UNCHANGED <<pc, func, code, blockAlive, todo, current, conflictGraph>>

(* Mutant: the rest of the block the value is made in is not marked.       *)
ToUserFromEnd(marks, v, from, to) == Marked(marks, v, to[1], 1, to[2])

(* To the end of the defining block and from the start of the user's.      *)
ToUser(marks, v, from, to) ==
  Marked(Marked(marks, v, from[1], from[2] + 1, Len(code[from[1]])), v, to[1], 1, to[2])

(* Elsewhere: also the blocks on the way are marked, as wholes.            *)
MarkAcrossBlocks ==
  /\ pc = "mark"
  /\ \E pl \in targets :
       LET v == current.value
           from == current.place
           way == PathPoints(func, from[1], pl[1])
       IN  /\ ~IsAlive(v, pl)
           /\ pl[1] # from[1] \/ pl[2] <= from[2]
           /\ alive' = ToUser(alive, v, from, pl)
           /\ blockAlive' = [b \in Blocks |-> blockAlive[b] \cup (IF b \in way THEN {v} ELSE {})]
           /\ targets' = targets \ {pl}
  /\ UNCHANGED <<pc, func, code, todo, current, conflictGraph>>

EndMarking ==
  /\ pc = "mark" /\ targets = {} /\ todo = {}
  /\ pc' = "edges"
  /\ UNCHANGED <<func, code, alive, blockAlive, todo, current, targets, conflictGraph>>

-----------------------------------------------------------------------------
MadeIn(c, b) == {c[b][i].value : i \in DOMAIN c[b]} \ {None}

Made(b) == MadeIn(code, b)

(* initConflictGraph: the left values.                                     *)
Nodes == Params \cup UNION {Made(b) : b \in Blocks}

(* Mutant: whole-block values get edges from the block's values, not back. *)
BlockEdgesOneWay(b) ==
  {e \in blockAlive[b] \X blockAlive[b] : e[1] # e[2]} \cup (blockAlive[b] \X Made(b))

(* Values alive during the whole block conflict with each other and with   *)
(* the values the block makes.                                             *)
BlockEdges(b) ==
  {e \in blockAlive[b] \X blockAlive[b] : e[1] # e[2]}
    \cup (blockAlive[b] \X Made(b)) \cup (Made(b) \X blockAlive[b])

(* Values alive during an instruction conflict with each other.            *)
InstructionEdges(b) ==
  UNION {{e \in alive[b][i] \X alive[b][i] : e[1] # e[2]} : i \in DOMAIN code[b]}

AddEdges ==
  /\ pc = "edges"
  /\ pc' = "merge"
  /\ LET edges == UNION {BlockEdges(b) \cup InstructionEdges(b) : b \in Blocks}
     IN  conflictGraph' = [v \in Nodes |-> {w \in Nodes : <<v, w>> \in edges}]
  /\ UNCHANGED <<func, code, alive, blockAlive, todo, current, targets>>

(* Mutant: whole-block values are not added to the instructions.           *)
MergedNot == alive

Merged == [b \in Blocks |-> [i \in DOMAIN code[b] |->
             IF code[b][i].type = "PHI_MOV" THEN alive[b][i] ELSE alive[b][i] \cup blockAlive[b]]]

(* mergeAliveValuesToInstruction, before calls save what is alive.         *)
MergeAliveValues ==
  /\ pc = "merge"
  /\ pc' = "done"
  /\ alive' = Merged
  /\ UNCHANGED <<func, code, blockAlive, todo, current, targets, conflictGraph>>

Done == pc = "done" /\ UNCHANGED vars

Init ==
  /\ pc = "eliminate"
  /\ func \in Functions
  /\ code = [b \in Blocks |-> CodeOf(func, b)]
  /\ alive = [b \in Blocks |-> <<>>]
  /\ blockAlive = [b \in Blocks |-> {}]
  /\ todo = PhisOf(func)
  /\ current = Def(None, <<1, 0>>)
  /\ targets = {}
  /\ conflictGraph = <<>>

Next ==
  \/ \E p \in Phis : EliminatePhi(p)
  \/ StartMarking \/ Visit \/ VisitPhiMov \/ SkipUser \/ MarkInBlock \/ MarkAcrossBlocks
  \/ EndMarking \/ AddEdges \/ MergeAliveValues \/ Done

Spec == Init /\ [][Next]_vars

-----------------------------------------------------------------------------
(* Liveness as textbooks define it, for the blocks bottom up: a value is   *)
(* live where a use can be reached without a definition on the way.        *)

(* From i on, block b uses v before it makes it.                           *)
UsedFrom(c, v, b, i) ==
  \E j \in DOMAIN c[b] : /\ i <= j /\ v \in c[b][j].operands
                          /\ \A k \in DOMAIN c[b] : i <= k /\ k < j => c[b][k].value # v

PassedFrom(c, v, b, i) == \A k \in DOMAIN c[b] : i <= k => c[b][k].value # v

(* The blocks at whose beginning v is live: the least solution.            *)
Solves(f, uses, passes, S) ==
  uses \subseteq S /\ \A b \in passes : f.successors[b] \cap S # {} => b \in S

LiveIn(f, c, v) ==
  LET uses == {b \in Blocks : UsedFrom(c, v, b, 1)}
      passes == {b \in Blocks : PassedFrom(c, v, b, 1)}
      solutions == {S \in SUBSET Blocks : Solves(f, uses, passes, S)}
  IN  {b \in Blocks : \A S \in solutions : b \in S}

LiveAt(f, c, in, v, b, i) ==
  UsedFrom(c, v, b, i) \/ (PassedFrom(c, v, b, i) /\ f.successors[b] \cap in # {})

(* The values live before the i-th instruction of block b, when in[v] are  *)
(* the blocks at whose beginning v is live.                                *)
Live(in, b, i) == {v \in Nodes : LiveAt(func, code, in[v], v, b, i)}

LiveIns == [v \in Nodes |-> LiveIn(func, code, v)]

(* A branch tests the comparison right before it: phi_elimination puts      *)
(* nothing between the two, as irCheck demands of the code before it.       *)
ComparisonKept ==
  pc # "eliminate" =>
    \A pl \in Places : At(pl).type = "CMP" => code[pl[1]][pl[2] + 1].type = "BR"

(* A value that is made while another one is live conflicts with it, and    *)
(* so do the parameters that are used: the graph of buildConflictGraph      *)
(* misses no interference, and values needed at the same time never share a *)
(* register.  (A parameter nobody uses gets no conflict with the others.)   *)
InterferenceCovered ==
  pc = "done" =>
    LET in == LiveIns
    IN  /\ \A pl \in Places : At(pl).value # None =>
             Live(in, pl[1], pl[2] + 1) \ {At(pl).value} \subseteq conflictGraph[At(pl).value]
        /\ \A p, q \in Params \cap Live(in, 1, 1) : p # q => q \in conflictGraph[p]

(* The registers genInvokeIns2 saves around a call, those of the values     *)
(* alive at it, include all whose value is needed after the call.           *)
SavedAcrossCalls ==
  pc = "done" =>
    LET in == LiveIns IN
      \A pl \in Places : At(pl).type = "INS" =>
        Live(in, pl[1], pl[2] + 1) \ {At(pl).value} \subseteq alive[pl[1]][pl[2]]

(* The graph is what allocRegister takes for granted: symmetric, without    *)
(* loops (Learn in Allocation adds both directions of a conflict).          *)
GraphProper ==
  pc = "done" =>
    \A v \in Nodes : \A w \in conflictGraph[v] : v # w /\ v \in conflictGraph[w]

(* Nothing is marked alive where it is not live: the allocator is not given *)
(* conflicts that do not exist, nor calls registers to save for nothing.    *)
MarkedOnlyWhereLive ==
  pc = "done" =>
    LET in == LiveIns IN \A pl \in Places : alive[pl[1]][pl[2]] \subseteq Live(in, pl[1], pl[2])
=============================================================================
